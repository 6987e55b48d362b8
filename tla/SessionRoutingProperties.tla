------------------------ MODULE SessionRoutingProperties ------------------------
(***************************************************************************)
(* What sessions, bindings, instance events and restarts keep true among   *)
(* them.                                                                   *)
(***************************************************************************)
EXTENDS SessionRouting

Statuses == {"none", "active", "revoked", "expired", "dropped"}

Pcs == {"idle", "touch", "route", "session", "agent", "check", "fallback", "sent", "bind",
        "bindAgent"}

MaybeInstance == Instances \cup {None}

StoreTypeOK ==
  /\ durable \in BOOLEAN /\ behind \in BOOLEAN
  /\ sessions \in [Sessions -> Statuses] /\ persisted \in [Sessions -> Statuses]
  /\ lapsed \subseteq Sessions /\ revoked \subseteq Sessions

BindingsTypeOK ==
  /\ session \in [Sessions -> MaybeInstance] /\ agent \in [Agents -> MaybeInstance]
  /\ idle \subseteq Agents

InstancesTypeOK ==
  /\ listed \subseteq Instances /\ dead \subseteq Instances
  /\ announced \in [Instances -> SUBSET {"started", "error", "stopped"}]
  /\ handled \in [Instances -> SUBSET {"error", "stopped"}]
  /\ status \in [Instances -> {"absent", "starting", "running", "stopping", "stopped", "error"}]
  /\ cached \subseteq Instances /\ reading \in MaybeInstance

RequestRecord ==
  [pc : Pcs, who : Sessions \cup Agents \cup {None}, dest : MaybeInstance, seen : MaybeInstance]

(* What a request has in hand at each step.                                *)
InHand(q) ==
  /\ q.pc # "idle" => q.who # None
  /\ q.pc \in {"touch", "session", "bind"} => q.who \in Sessions
  /\ q.pc \in {"check", "sent", "bind", "bindAgent"} => q.dest # None

RoutingTypeOK ==
  /\ request \in [Requests -> RequestRecord]
  /\ \A r \in Requests : InHand(request[r])
  /\ hooks \in [Sessions -> Nat] /\ restarts \in Nat
  /\ quiet \subseteq Sessions /\ belated \subseteq Sessions \cup Agents \cup Instances

TypeOK ==
  config \in Configs /\ StoreTypeOK /\ BindingsTypeOK /\ InstancesTypeOK /\ RoutingTypeOK

(* A session whose revocation was answered is not let in again, neither by *)
(* a request that was authenticated before nor after a restart of the      *)
(* server, unless the last write of the file before it failed: Revoke      *)
(* answers true all the same.                                              *)
RevokedStaysOut ==
  [][\A r \in Requests :
       At(r, "touch") /\ request'[r].pc = "route" => request[r].who \notin revoked]_vars

(* An ended session keeps no binding, but while its hook has not run, when *)
(* it was Touch that found it expired, or when a request authenticated     *)
(* before the end was answered after it.                                   *)
EndedUnbound ==
  \A s \in Sessions :
    sessions[s] \in {"revoked", "expired"} /\ session[s] # None =>
      hooks[s] > 0 \/ s \in quiet \/ s \in belated

(* Once the listener has handled the end of an instance, no session, agent *)
(* or tab list refers to it, but for what a request under way at that      *)
(* moment wrote afterwards.                                                *)
StoppedForgotten ==
  \A i \in Instances : handled[i] # {} =>
    /\ \A s \in Sessions : session[s] = i => s \in belated
    /\ \A a \in Agents : agent[a] = i => a \in belated
    /\ i \in cached => i \in belated

(* With strict routing, the request that moves a session from one instance *)
(* to another is one that did not find it bound to the first: of two first *)
(* requests both may be answered.  (Where instances have one port, one     *)
(* after another, an answer may be booked to a later one than was asked.)  *)
StrictMoves ==
  [][config.strict /\ ~config.shared =>
       \A s \in Sessions, r \in Requests :
         /\ At(r, "bind") /\ request[r].who = s /\ request'[r].pc = "bindAgent"
         /\ session[s] \notin {None, request[r].dest}
         => request[r].seen # session[s]]_vars
=============================================================================
