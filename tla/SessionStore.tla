------------------------------- MODULE SessionStore -------------------------------
(***************************************************************************)
(* The agent sessions: what the server holds in memory and what the file   *)
(* it writes after every change holds.  Each operation runs under the      *)
(* store's lock.  A session's times are abstracted to whether one of its   *)
(* two deadlines has passed; neither comes back.                           *)
(***************************************************************************)
EXTENDS Naturals

CONSTANT Sessions

VARIABLES
  durable,    \* the store has a PersistPath
  sessions,   \* Status of each session in memory: "none" before Create,
              \* "dropped" when a restart did not load it
  persisted,  \* Status in the file
  lapsed,     \* the sessions isExpired holds of
  behind,     \* the last write of the file failed
  revoked     \* the sessions Revoke has answered for, but for those a failed
              \* write lost at a restart

storeVars == <<durable, sessions, persisted, lapsed, behind, revoked>>

StoreInit ==
  /\ durable \in BOOLEAN
  /\ sessions = [s \in Sessions |-> "none"]
  /\ persisted = [s \in Sessions |-> "none"]
  /\ lapsed = {} /\ revoked = {}
  /\ behind = FALSE

(* saveLocked writes all sessions through a temporary file and a rename: it*)
(* leaves the new file or, silently, the old one.                          *)
Save(new) ==
  /\ UNCHANGED durable
  /\ \/ durable /\ persisted' = new /\ behind' = FALSE
     \/ durable /\ persisted' = persisted /\ behind' = TRUE
     \/ ~durable /\ UNCHANGED <<persisted, behind>>

Mark(s, status) ==
  /\ sessions' = [sessions EXCEPT ![s] = status]
  /\ Save(sessions')
  /\ UNCHANGED lapsed

Valid(s) == sessions[s] = "active" /\ s \notin lapsed

Outdated(s) == sessions[s] = "active" /\ s \in lapsed

Held(s) == sessions[s] \notin {"none", "dropped"}

Create(s) ==
  /\ sessions[s] = "none"
  /\ Mark(s, "active")
  /\ UNCHANGED revoked

(* Time passes a deadline of the session.                                  *)
Lapse(s) ==
  /\ sessions[s] # "none" /\ s \notin lapsed
  /\ lapsed' = lapsed \cup {s}
  /\ UNCHANGED <<durable, sessions, persisted, behind, revoked>>

Expire(s) == Outdated(s) /\ Mark(s, "expired") /\ UNCHANGED revoked

(* A Touch that succeeds: LastSeenAt moves and the file is written.        *)
Refresh(s) == Valid(s) /\ Save(sessions) /\ UNCHANGED <<sessions, lapsed, revoked>>

RevokeSlip(s) ==
  /\ Held(s)
  /\ sessions' = [sessions EXCEPT ![s] = "revoked"]
  /\ revoked' = revoked \cup {s}
  /\ UNCHANGED <<durable, persisted, lapsed, behind>>

Revoke(s) ==
  /\ Held(s)
  /\ Mark(s, "revoked")
  /\ revoked' = revoked \cup {s}

(* NewStore after a restart loads the sessions that are active in the file *)
(* and within their deadlines.                                             *)
Load ==
  /\ sessions' = [s \in Sessions |->
       IF persisted[s] = "active" /\ s \notin lapsed THEN "active"
       ELSE IF sessions[s] = "none" THEN "none" ELSE "dropped"]
  /\ revoked' = IF behind THEN {s \in revoked : sessions'[s] # "active"} ELSE revoked
  /\ UNCHANGED <<durable, persisted, lapsed, behind>>
=============================================================================
