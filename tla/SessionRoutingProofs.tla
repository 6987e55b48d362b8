-------------------------- MODULE SessionRoutingProofs --------------------------
(***************************************************************************)
(* For any number of sessions, agents, instances and requests: the types,  *)
(* that a revoked session stays out across restarts, that ended sessions   *)
(* and stopped instances are forgotten, and who may move a session when    *)
(* routing is strict.                                                      *)
(***************************************************************************)
EXTENDS SessionRoutingProperties, TLAPS

(* The steps of the sessions without a request.                            *)
StoreStep(s) == CreateSession(s) \/ Time(s) \/ RevokeSession(s) \/ AuthenticateExpires(s)

LEMMA InitTypes == Init => TypeOK
<1> SUFFICES ASSUME Init PROVE TypeOK
  OBVIOUS
<1> USE SessionRoutingAssumption DEF Init, TypeOK, MaybeInstance
<1>1. StoreTypeOK
  BY DEF StoreInit, StoreTypeOK, Statuses
<1>2. BindingsTypeOK
  BY DEF BindingsInit, BindingsTypeOK
<1>3. InstancesTypeOK
  BY DEF LifecycleInit, InstancesTypeOK
<1>4. RoutingTypeOK
  BY DEF RoutingTypeOK, RequestRecord, InHand, Absent, Pcs
<1> QED
  BY <1>1, <1>2, <1>3, <1>4

LEMMA StoreTypes == TypeOK /\ [Next]_vars => StoreTypeOK'
<1> SUFFICES ASSUME TypeOK, [Next]_vars PROVE StoreTypeOK'
  OBVIOUS
<1> USE DEF TypeOK, StoreTypeOK, Statuses
<1>1. ASSUME NEW s \in Sessions, StoreStep(s) PROVE StoreTypeOK'
  BY <1>1 DEF StoreStep, CreateSession, Time, RevokeSession, AuthenticateExpires, Create, Lapse,
              Revoke, Expire, Mark, Save
<1>2. ASSUME NEW r \in Requests, Touch(r) PROVE StoreTypeOK'
  <2>1. request[r].who \in Sessions
    BY <1>2 DEF Touch, At, RoutingTypeOK, InHand
  <2> QED
    BY <1>2, <2>1 DEF Touch, Refresh, Expire, Mark, Save, storeVars
<1>3. CASE Restart
  BY <1>3 DEF Restart, Load
<1>4. CASE UNCHANGED storeVars
  BY <1>4 DEF storeVars
<1> QED
  BY <1>1, <1>2, <1>3, <1>4 DEF Next, vars, StoreStep, RequestStep, Hook, Authenticate,
     AuthenticateAgent, Route, LookSession, LookAgent, Check, Fallback, Answer, Bind, BindTheAgent,
     ReadTabs, StoreTabs, Launch, Change, Die, HandleEvent, AgentRests, Prune

LEMMA BindingsTypes == TypeOK /\ [Next]_vars => BindingsTypeOK'
<1> SUFFICES ASSUME TypeOK, [Next]_vars PROVE BindingsTypeOK'
  OBVIOUS
<1> USE DEF TypeOK, BindingsTypeOK, MaybeInstance
<1>1. ASSUME NEW s \in Sessions, Hook(s) PROVE BindingsTypeOK'
  BY <1>1 DEF Hook, ClearSession
<1>2. ASSUME NEW r \in Requests, LookAgent(r) PROVE BindingsTypeOK'
  BY <1>2 DEF LookAgent, Seen
<1>3. ASSUME NEW i \in Instances, ClearInstance(i) PROVE BindingsTypeOK'
  BY <1>3 DEF ClearInstance, Without
<1>4. ASSUME NEW r \in Requests, Check(r) PROVE BindingsTypeOK'
  <2>1. request[r].dest \in Instances
    BY <1>4 DEF Check, At, RoutingTypeOK, InHand, RequestRecord
  <2> QED
    BY <1>3, <1>4, <2>1 DEF Check, bindings
<1>5. ASSUME NEW r \in Requests, Bind(r) PROVE BindingsTypeOK'
  <2>1. request[r].dest \in Instances
    BY <1>5 DEF Bind, At, RoutingTypeOK, InHand, RequestRecord
  <2> QED
    BY <1>5, <2>1 DEF Bind, BindSession
<1>6. ASSUME NEW r \in Requests, BindTheAgent(r) PROVE BindingsTypeOK'
  <2>1. request[r].dest \in Instances
    BY <1>6 DEF BindTheAgent, At, RoutingTypeOK, InHand, RequestRecord
  <2> QED
    BY <1>6, <2>1 DEF BindTheAgent, BindAgent
<1>7. ASSUME NEW i \in Instances, NEW e \in {"stopped", "error"}, HandleEvent(i, e)
      PROVE  BindingsTypeOK'
  BY <1>3, <1>7 DEF HandleEvent
<1>8. ASSUME NEW a \in Agents, AgentRests(a) PROVE BindingsTypeOK'
  BY <1>8 DEF AgentRests, Rest
<1>9. CASE Prune
  BY <1>9 DEF Prune, PruneAgents
<1>10. CASE Restart
  BY <1>10 DEF Restart
<1>11. CASE UNCHANGED bindings
  BY <1>11 DEF bindings
<1> QED
  BY <1>1, <1>2, <1>4, <1>5, <1>6, <1>7, <1>8, <1>9, <1>10, <1>11 DEF Next, vars, RequestStep,
     CreateSession, Time, RevokeSession, AuthenticateExpires, Authenticate, AuthenticateAgent,
     Touch, Route, LookSession, Fallback, Answer, ReadTabs, StoreTabs, Launch, Change, Die

LEMMA InstancesTypes == TypeOK /\ [Next]_vars => InstancesTypeOK'
<1> SUFFICES ASSUME TypeOK, [Next]_vars PROVE InstancesTypeOK'
  OBVIOUS
<1> USE DEF TypeOK, InstancesTypeOK, MaybeInstance
<1>1. ASSUME NEW i \in Instances, Launch(i) \/ Change(i) PROVE InstancesTypeOK'
  <2> USE DEF Become, Announce
  <2>1. handled' = handled /\ dead' = dead /\ cached' = cached /\ reading' = reading
    BY <1>1 DEF Launch, Change, cacheVars
  <2>2. CASE Launched(i)
    BY <2>1, <2>2 DEF Launched
  <2>3. CASE Ready(i) \/ Failed(i) \/ Exited(i)
    BY <2>1, <2>3 DEF Ready, Failed, Exited
  <2>4. CASE StopAsked(i) \/ StopFailed(i) \/ Removed(i)
    BY <2>1, <2>4 DEF StopAsked, StopFailed, Removed
  <2> QED
    BY <1>1, <2>2, <2>3, <2>4 DEF Launch, Change
<1>2. ASSUME NEW i \in Instances, Die(i) PROVE InstancesTypeOK'
  BY <1>2 DEF Die, lifecycleVars, cacheVars
<1>3. ASSUME NEW i \in Instances, NEW e \in {"stopped", "error"}, HandleEvent(i, e)
      PROVE  InstancesTypeOK'
  BY <1>3 DEF HandleEvent, lifecycleVars
<1>4. ASSUME NEW i \in Instances, ReadTabs(i) PROVE InstancesTypeOK'
  BY <1>4 DEF ReadTabs, instanceVars, lifecycleVars
<1>5. CASE StoreTabs
  BY <1>5 DEF StoreTabs, instanceVars, lifecycleVars
<1>6. ASSUME NEW r \in Requests, BindTheAgent(r) PROVE InstancesTypeOK'
  BY <1>6 DEF BindTheAgent, instanceVars, lifecycleVars
<1>7. CASE Restart
  BY <1>7 DEF Restart
<1>8. CASE UNCHANGED <<instanceVars, cacheVars>>
  BY <1>8 DEF instanceVars, lifecycleVars, cacheVars
<1> QED
  BY <1>1, <1>2, <1>3, <1>4, <1>5, <1>6, <1>7, <1>8 DEF Next, vars, RequestStep, Hook,
     CreateSession, Time, RevokeSession, AuthenticateExpires, Authenticate, AuthenticateAgent,
     Touch, Route, LookSession, LookAgent, Check, Fallback, Answer, Bind, AgentRests, Prune

(* One request moves on to a record of the right shape; the others stay.   *)
LEMMA RequestMoves ==
  ASSUME TypeOK, NEW r \in Requests, NEW q \in RequestRecord, InHand(q),
         request' = [request EXCEPT ![r] = q]
  PROVE  request' \in [Requests -> RequestRecord] /\ \A p \in Requests : InHand(request'[p])
BY DEF TypeOK, RoutingTypeOK

LEMMA AbsentInHand == Absent \in RequestRecord /\ InHand(Absent)
BY DEF Absent, RequestRecord, InHand, Pcs, MaybeInstance

LEMMA SendTypes ==
  ASSUME TypeOK, NEW r \in Requests, NEW i \in Instances, Send(r, i), ~At(r, "idle")
  PROVE  request' \in [Requests -> RequestRecord] /\ \A p \in Requests : InHand(request'[p])
<1> DEFINE q == IF i \in listed \ dead THEN [request[r] EXCEPT !.pc = "sent", !.dest = i]
                ELSE Absent
<1>1. request' = [request EXCEPT ![r] = q]
  BY DEF Send
<1>2. request[r] \in RequestRecord /\ request[r].who # None
  BY DEF TypeOK, RoutingTypeOK, InHand, At
<1>3. q \in RequestRecord /\ InHand(q)
  BY <1>2, AbsentInHand, SessionRoutingAssumption DEF RequestRecord, InHand, MaybeInstance, Pcs
<1> QED
  BY <1>1, <1>3, RequestMoves

(* A request changes only by its own step.                                 *)
RequestsOK == request \in [Requests -> RequestRecord] /\ \A p \in Requests : InHand(request[p])

LEMMA RequestTypes == TypeOK /\ [Next]_vars => RequestsOK'
<1> SUFFICES ASSUME TypeOK, [Next]_vars PROVE RequestsOK'
  OBVIOUS
<1>0. RequestsOK
  BY DEF TypeOK, RoutingTypeOK, RequestsOK
<1>a. ASSUME NEW r \in Requests, NEW q \in RequestRecord, InHand(q),
             request' = [request EXCEPT ![r] = q]
      PROVE  RequestsOK'
  BY <1>a, RequestMoves DEF RequestsOK
<1>e. ASSUME NEW r \in Requests, End(r) PROVE RequestsOK'
  BY <1>e, <1>a, AbsentInHand DEF End
<1>s. ASSUME NEW r \in Requests, NEW i \in Instances, Send(r, i), ~At(r, "idle") PROVE RequestsOK'
  BY <1>s, SendTypes DEF RequestsOK
<1>r. ASSUME NEW r \in Requests
      PROVE  /\ request[r] \in RequestRecord /\ InHand(request[r])
             /\ request[r].who \in Sessions => AgentName(r) \in Agents
             /\ request[r].who \in Agents => AgentName(r) \in Agents
  BY <1>0, SessionRoutingAssumption DEF RequestsOK, AgentName
<1>1. ASSUME NEW r \in Requests, NEW s \in Sessions, Authenticate(r, s) PROVE RequestsOK'
  <2> DEFINE q == [Absent EXCEPT !.pc = "touch", !.who = s]
  <2>1. q \in RequestRecord /\ InHand(q)
    BY SessionRoutingAssumption DEF Absent, RequestRecord, InHand, Pcs, MaybeInstance
  <2> QED
    BY <1>1, <1>a, <2>1 DEF Authenticate
<1>2. ASSUME NEW r \in Requests, NEW a \in Agents, AuthenticateAgent(r, a) PROVE RequestsOK'
  <2> DEFINE q == [Absent EXCEPT !.pc = "route", !.who = a]
  <2>1. q \in RequestRecord /\ InHand(q)
    BY SessionRoutingAssumption DEF Absent, RequestRecord, InHand, Pcs, MaybeInstance
  <2> QED
    BY <1>2, <1>a, <2>1 DEF AuthenticateAgent
<1>3. ASSUME NEW r \in Requests, Touch(r) PROVE RequestsOK'
  <2>1. CASE Goto(r, "route")
    <3> DEFINE q == [request[r] EXCEPT !.pc = "route"]
    <3>1. q \in RequestRecord /\ InHand(q)
      BY <1>3, <1>r DEF Touch, At, RequestRecord, InHand, Pcs
    <3>2. request' = [request EXCEPT ![r] = q]
      BY <2>1 DEF Goto
    <3> QED
      BY <1>a, <3>1, <3>2
  <2> QED
    BY <1>3, <1>e, <2>1 DEF Touch
<1>4. ASSUME NEW r \in Requests, Route(r) PROVE RequestsOK'
  <2> DEFINE look == IF request[r].who \in Sessions THEN "session" ELSE "agent"
  <2>1. ASSUME NEW i \in Instances, request' = [request EXCEPT ![r] = [@ EXCEPT !.pc = look, !.dest = i]]
        PROVE  RequestsOK'
    <3> DEFINE q == [request[r] EXCEPT !.pc = look, !.dest = i]
    <3>1. q \in RequestRecord /\ InHand(q)
      BY <1>4, <1>r, SessionRoutingAssumption DEF Route, At, RequestRecord, InHand, Pcs, MaybeInstance
    <3> QED
      BY <1>a, <2>1, <3>1
  <2>2. ASSUME Goto(r, look) PROVE RequestsOK'
    <3> DEFINE q == [request[r] EXCEPT !.pc = look]
    <3>1. q \in RequestRecord /\ InHand(q)
      BY <1>4, <1>r DEF Route, At, RequestRecord, InHand, Pcs
    <3>2. request' = [request EXCEPT ![r] = q]
      BY <2>2 DEF Goto
    <3> QED
      BY <1>a, <3>1, <3>2
  <2>3. ~At(r, "idle") /\ listed \subseteq Instances
    BY <1>4 DEF Route, At, TypeOK, InstancesTypeOK
  <2> HIDE DEF look
  <2>4. \/ End(r) \/ Goto(r, look)
        \/ \E i \in Instances : \/ request' = [request EXCEPT ![r] = [@ EXCEPT !.pc = look, !.dest = i]]
                               \/ Send(r, i)
    BY <1>4, <2>3 DEF Route, look
  <2> QED
    BY <1>e, <1>s, <2>1, <2>2, <2>3, <2>4
<1>5. ASSUME NEW r \in Requests, LookSession(r) PROVE RequestsOK'
  <2> DEFINE bound == session[request[r].who]
             q == IF bound = None THEN [request[r] EXCEPT !.pc = "agent"]
                  ELSE IF request[r].dest = None
                         THEN [request[r] EXCEPT !.pc = "check", !.dest = bound, !.seen = bound]
                  ELSE IF request[r].dest = bound
                         THEN [request[r] EXCEPT !.pc = "agent", !.seen = bound]
                  ELSE Absent
  <2>1. bound \in MaybeInstance /\ request[r].who # None
    BY <1>5, <1>r DEF LookSession, At, InHand, TypeOK, BindingsTypeOK
  <2>2. q \in RequestRecord /\ InHand(q)
    BY <1>r, <2>1, AbsentInHand DEF RequestRecord, InHand, Pcs
  <2>3. request' = [request EXCEPT ![r] = q]
    BY <1>5 DEF LookSession
  <2> QED
    BY <1>a, <2>2, <2>3
<1>6. ASSUME NEW r \in Requests, LookAgent(r) PROVE RequestsOK'
  <2> DEFINE bound == agent[AgentName(r)]
  <2>1. AgentName(r) \in Agents /\ bound \in MaybeInstance /\ request[r].who # None
    BY <1>6, <1>r DEF LookAgent, At, InHand, RequestRecord, TypeOK, BindingsTypeOK
  <2>2. CASE request[r].dest = None
    <3> DEFINE q == IF bound = None THEN [request[r] EXCEPT !.pc = "fallback"]
                    ELSE [request[r] EXCEPT !.pc = "check", !.dest = bound]
    <3>1. q \in RequestRecord /\ InHand(q)
      BY <1>r, <2>1 DEF RequestRecord, InHand, Pcs
    <3>2. request' = [request EXCEPT ![r] = q]
      BY <1>6, <2>2 DEF LookAgent
    <3> QED
      BY <1>a, <3>1, <3>2
  <2>3. CASE request[r].dest # None
    <3>1. request[r].dest \in Instances /\ ~At(r, "idle")
      BY <1>6, <1>r, <2>3 DEF LookAgent, At, RequestRecord, MaybeInstance
    <3> QED
      BY <1>6, <1>e, <1>s, <2>3, <3>1 DEF LookAgent
  <2> QED
    BY <2>2, <2>3
<1>7. ASSUME NEW r \in Requests, Check(r) PROVE RequestsOK'
  <2>1. request[r].dest \in Instances /\ ~At(r, "idle") /\ request[r].who # None
    BY <1>7, <1>r DEF Check, At, InHand, RequestRecord, MaybeInstance
  <2> DEFINE q == [Absent EXCEPT !.pc = "fallback", !.who = request[r].who]
  <2>2. q \in RequestRecord /\ InHand(q)
    BY <1>r, <2>1 DEF Absent, RequestRecord, InHand, Pcs, MaybeInstance
  <2> QED
    BY <1>7, <1>a, <1>s, <2>1, <2>2 DEF Check
<1>8. ASSUME NEW r \in Requests, Fallback(r) PROVE RequestsOK'
  BY <1>8, <1>e, <1>s DEF Fallback, At
<1>9. ASSUME NEW r \in Requests, Answer(r) PROVE RequestsOK'
  <2>1. ASSUME NEW i \in listed,
               request' = [request EXCEPT ![r] = [@ EXCEPT !.dest = i,
                 !.pc = IF request[r].who \in Sessions THEN "bind" ELSE "bindAgent"]]
        PROVE  RequestsOK'
    <3> DEFINE q == [request[r] EXCEPT !.dest = i,
                     !.pc = IF request[r].who \in Sessions THEN "bind" ELSE "bindAgent"]
    <3>1. i \in Instances /\ i # None /\ request[r].who # None
      BY <1>9, <1>r, SessionRoutingAssumption DEF Answer, At, InHand, TypeOK, InstancesTypeOK
    <3>2. q \in RequestRecord /\ InHand(q)
      BY <1>r, <3>1 DEF RequestRecord, InHand, Pcs, MaybeInstance
    <3> QED
      BY <1>a, <2>1, <3>2
  <2> QED
    BY <1>9, <1>e, <2>1 DEF Answer
<1>10. ASSUME NEW r \in Requests, Bind(r) PROVE RequestsOK'
  <2> DEFINE q == [request[r] EXCEPT !.pc = "bindAgent"]
  <2>1. q \in RequestRecord /\ InHand(q)
    BY <1>10, <1>r DEF Bind, At, RequestRecord, InHand, Pcs
  <2>2. request' = [request EXCEPT ![r] = q]
    BY <1>10 DEF Bind, Goto
  <2> QED
    BY <1>a, <2>1, <2>2
<1>11. ASSUME NEW r \in Requests, BindTheAgent(r) PROVE RequestsOK'
  BY <1>11, <1>e DEF BindTheAgent
<1>12. CASE Restart
  BY <1>12, AbsentInHand DEF Restart, RequestsOK
<1>13. CASE UNCHANGED request
  BY <1>0, <1>13 DEF RequestsOK
<1> QED
  BY <1>1, <1>2, <1>3, <1>4, <1>5, <1>6, <1>7, <1>8, <1>9, <1>10, <1>11, <1>12, <1>13
  DEF Next, vars, routingVars, RequestStep, Hook, CreateSession, Time, RevokeSession,
      AuthenticateExpires, ReadTabs, StoreTabs, Launch, Change, Die, HandleEvent, AgentRests, Prune

LEMMA NoteTypes ==
  ASSUME TypeOK, NEW x \in Sessions \cup Agents \cup Instances, NEW late, Note(x, late)
  PROVE  belated' \subseteq Sessions \cup Agents \cup Instances
BY DEF Note, TypeOK, RoutingTypeOK

LEMMA BookTypes ==
  TypeOK /\ [Next]_vars =>
    /\ config' \in Configs
    /\ hooks' \in [Sessions -> Nat] /\ restarts' \in Nat
    /\ quiet' \subseteq Sessions /\ belated' \subseteq Sessions \cup Agents \cup Instances
<1> DEFINE Books == /\ config \in Configs
                    /\ hooks \in [Sessions -> Nat] /\ restarts \in Nat
                    /\ quiet \subseteq Sessions
                    /\ belated \subseteq Sessions \cup Agents \cup Instances
<1> SUFFICES ASSUME TypeOK, [Next]_vars PROVE Books'
  OBVIOUS
<1>0. Books
  BY DEF TypeOK, RoutingTypeOK
<1>1. ASSUME NEW s \in Sessions, RevokeSession(s) \/ AuthenticateExpires(s) PROVE Books'
  BY <1>0, <1>1 DEF RevokeSession, AuthenticateExpires, Dispatch
<1>2. ASSUME NEW s \in Sessions, Hook(s) PROVE Books'
  BY <1>0, <1>2 DEF Hook
<1>3. ASSUME NEW r \in Requests, Touch(r) PROVE Books'
  <2>1. request[r].who \in Sessions
    BY <1>3 DEF Touch, At, TypeOK, RoutingTypeOK, InHand
  <2> QED
    BY <1>0, <1>3, <2>1 DEF Touch
<1>4. ASSUME NEW r \in Requests, Bind(r) PROVE Books'
  <2>1. request[r].who \in Sessions
    BY <1>4 DEF Bind, At, TypeOK, RoutingTypeOK, InHand
  <2>2. belated' \subseteq Sessions \cup Agents \cup Instances
    BY <1>4, <2>1, NoteTypes DEF Bind
  <2> QED
    BY <1>0, <1>4, <2>2 DEF Bind
<1>5. ASSUME NEW r \in Requests, BindTheAgent(r) PROVE Books'
  <2>1. AgentName(r) \in Agents
    BY <1>5, SessionRoutingAssumption
    DEF BindTheAgent, At, TypeOK, RoutingTypeOK, InHand, RequestRecord, AgentName
  <2>2. belated' \subseteq Sessions \cup Agents \cup Instances
    BY <1>5, <2>1, NoteTypes DEF BindTheAgent
  <2> QED
    BY <1>0, <1>5, <2>2 DEF BindTheAgent
<1>6. CASE StoreTabs
  <2>1. reading \in Instances
    BY <1>6 DEF StoreTabs, TypeOK, InstancesTypeOK, MaybeInstance
  <2>2. belated' \subseteq Sessions \cup Agents \cup Instances
    BY <1>0, <1>6, <2>1, NoteTypes DEF StoreTabs
  <2> QED
    BY <1>0, <1>6, <2>2 DEF StoreTabs
<1>7. CASE Restart
  BY <1>0, <1>7 DEF Restart
<1>8. CASE UNCHANGED <<config, hooks, restarts, quiet, belated>>
  BY <1>0, <1>8
<1> QED
  BY <1>1, <1>2, <1>3, <1>4, <1>5, <1>6, <1>7, <1>8 DEF Next, vars, routingVars, RequestStep,
     CreateSession, Time, Authenticate, AuthenticateAgent, Route, LookSession, LookAgent, Check,
     Fallback, Answer, ReadTabs, Launch, Change, Die, HandleEvent, AgentRests, Prune

LEMMA NextTypes == TypeOK /\ [Next]_vars => TypeOK'
BY StoreTypes, BindingsTypes, InstancesTypes, RequestTypes, BookTypes
DEF TypeOK, RoutingTypeOK, RequestsOK

(* The state keeps its types, and a request has in hand what its next step *)
(* uses: a session that is touched or bound, an instance that is checked,  *)
(* asked or booked.                                                        *)
THEOREM Types == Spec => []TypeOK
<1> QED
  BY InitTypes, NextTypes, PTL DEF Spec

----------------------------------------------------------------------------------
(* Revocation survives a restart because the file, whenever it is not      *)
(* behind, holds no revoked session as active, and a store without a file  *)
(* loads none.                                                             *)
Revoked ==
  /\ \A s \in revoked : sessions[s] \notin {"none", "active"}
  /\ ~behind => \A s \in revoked : persisted[s] # "active"
  /\ ~durable => ~behind /\ \A s \in Sessions : persisted[s] # "active"

LEMMA SaveRevoked ==
  ASSUME StoreTypeOK, Revoked, NEW R \in SUBSET Sessions, revoked' = R,
         \A s \in R : sessions'[s] \notin {"none", "active"}, Save(sessions')
  PROVE  Revoked'
BY DEF StoreTypeOK, Revoked, Save

LEMMA NextRevoked == TypeOK /\ Revoked /\ [Next]_vars => Revoked'
<1> SUFFICES ASSUME TypeOK, Revoked, [Next]_vars PROVE Revoked'
  OBVIOUS
<1> USE DEF TypeOK, StoreTypeOK
<1>1. ASSUME NEW s \in Sessions, CreateSession(s) \/ AuthenticateExpires(s) PROVE Revoked'
  <2>1. /\ revoked' = revoked /\ Save(sessions')
        /\ \A t \in revoked : sessions'[t] \notin {"none", "active"}
    BY <1>1 DEF CreateSession, AuthenticateExpires, Create, Expire, Outdated, Mark, Revoked
  <2> QED
    BY <2>1, SaveRevoked
<1>2. ASSUME NEW s \in Sessions, Time(s) PROVE Revoked'
  BY <1>2 DEF Time, Lapse, Revoked
<1>3. ASSUME NEW s \in Sessions, RevokeSession(s) PROVE Revoked'
  <2>1. /\ revoked' = revoked \cup {s} /\ Save(sessions')
        /\ \A t \in revoked \cup {s} : sessions'[t] \notin {"none", "active"}
    BY <1>3 DEF RevokeSession, Revoke, Mark, Revoked
  <2> QED
    BY <2>1, SaveRevoked
<1>4. ASSUME NEW r \in Requests, Touch(r) PROVE Revoked'
  <2>1. request[r].who \in Sessions
    BY <1>4 DEF Touch, At, RoutingTypeOK, InHand
  <2>2. CASE UNCHANGED storeVars
    BY <2>2 DEF storeVars, Revoked
  <2>3. CASE Refresh(request[r].who)
    BY <2>3, SaveRevoked DEF Refresh, Revoked, Save
  <2>4. CASE Expire(request[r].who)
    <3>1. /\ revoked' = revoked /\ Save(sessions')
          /\ \A t \in revoked : sessions'[t] \notin {"none", "active"}
      BY <2>1, <2>4 DEF Expire, Mark, Revoked
    <3> QED
      BY <3>1, SaveRevoked
  <2> QED
    BY <1>4, <2>2, <2>3, <2>4 DEF Touch
<1>5. CASE Restart
  BY <1>5 DEF Restart, Load, Revoked
<1>6. CASE UNCHANGED storeVars
  BY <1>6 DEF storeVars, Revoked
<1> QED
  BY <1>1, <1>2, <1>3, <1>4, <1>5, <1>6 DEF Next, vars, RequestStep, Hook, Authenticate,
     AuthenticateAgent, Route, LookSession, LookAgent, Check, Fallback, Answer, Bind, BindTheAgent,
     ReadTabs, StoreTabs, Launch, Change, Die, HandleEvent, AgentRests, Prune

(* A request is changed by its own steps and by a restart only.            *)
LEMMA OwnStep ==
  ASSUME TypeOK, NEW r \in Requests, [Next]_vars
  PROVE  \/ request'[r] = request[r] \/ RequestStep(r) \/ Restart
         \/ \E s \in Sessions : Authenticate(r, s)
         \/ \E a \in Agents : AuthenticateAgent(r, a)
<1>1. request \in [Requests -> RequestRecord]
  BY DEF TypeOK, RoutingTypeOK
<1>2. ASSUME NEW p \in Requests, NEW q, request' = [request EXCEPT ![p] = q], p # r
      PROVE  request'[r] = request[r]
  BY <1>1, <1>2
<1>3. ASSUME NEW p \in Requests, RequestStep(p), p # r PROVE request'[r] = request[r]
  <2>1. ASSUME NEW i, Send(p, i) PROVE request'[r] = request[r]
    BY <1>2, <1>3, <2>1 DEF Send
  <2>2. ASSUME NEW pc, Goto(p, pc) PROVE request'[r] = request[r]
    BY <1>1, <1>3, <2>2 DEF Goto
  <2>3. ASSUME End(p) PROVE request'[r] = request[r]
    BY <1>2, <1>3, <2>3 DEF End
  <2>4. CASE Touch(p) \/ Bind(p) \/ BindTheAgent(p)
    BY <2>2, <2>3, <2>4 DEF Touch, Bind, BindTheAgent
  <2>5. CASE Route(p)
    BY <1>1, <1>3, <2>1, <2>2, <2>3, <2>5 DEF Route
  <2>6. CASE LookSession(p)
    BY <1>2, <1>3, <2>6 DEF LookSession
  <2>7. CASE LookAgent(p)
    BY <1>1, <1>3, <2>1, <2>3, <2>7 DEF LookAgent
  <2>8. CASE Check(p) \/ Fallback(p) \/ Answer(p)
    BY <1>1, <1>3, <2>1, <2>3, <2>8 DEF Check, Fallback, Answer
  <2> QED
    BY <1>3, <2>4, <2>5, <2>6, <2>7, <2>8 DEF RequestStep
<1>4. ASSUME NEW p \in Requests, NEW s \in Sessions, Authenticate(p, s)
      PROVE  request'[r] = request[r] \/ Authenticate(r, s)
  BY <1>2, <1>4 DEF Authenticate
<1>5. ASSUME NEW p \in Requests, NEW a \in Agents, AuthenticateAgent(p, a)
      PROVE  request'[r] = request[r] \/ AuthenticateAgent(r, a)
  BY <1>2, <1>5 DEF AuthenticateAgent
<1>6. CASE UNCHANGED request
  BY <1>6
<1> QED
  BY <1>3, <1>4, <1>5, <1>6
  DEF Next, vars, routingVars, Hook, CreateSession, Time, RevokeSession, AuthenticateExpires,
      ReadTabs, StoreTabs, Launch, Change, Die, HandleEvent, AgentRests, Prune

(* A session whose revocation was answered is not let in again, by any of  *)
(* the requests under way or after any number of restarts, unless the last *)
(* write of the file before a restart had failed.                          *)
THEOREM RevokedOut == Spec => RevokedStaysOut
<1>1. Init => Revoked
  BY DEF Init, StoreInit, Revoked
<1>2. ASSUME TypeOK, Revoked, [Next]_vars, NEW r \in Requests, At(r, "touch"),
             request'[r].pc = "route"
      PROVE  request[r].who \notin revoked
  <2>1. Touch(r)
    <3>1. request'[r] # request[r] /\ ~At(r, "idle")
      BY <1>2 DEF At
    <3>2. ~Restart
      BY <1>2 DEF Restart, Absent
    <3>3. RequestStep(r)
      BY <1>2, <3>1, <3>2, OwnStep DEF Authenticate, AuthenticateAgent
    <3> QED
      BY <1>2, <3>3 DEF RequestStep, At, Route, LookSession, LookAgent, Check, Fallback, Answer,
                        Bind, BindTheAgent
  <2>2. ~End(r)
    BY <1>2 DEF End, TypeOK, RoutingTypeOK, Absent
  <2>3. sessions[request[r].who] = "active"
    BY <2>1, <2>2 DEF Touch, Refresh, Valid
  <2> QED
    BY <1>2, <2>3 DEF Revoked
<1> QED
  <2> DEFINE Out == \A r \in Requests :
                      At(r, "touch") /\ request'[r].pc = "route" => request[r].who \notin revoked
  <2>1. TypeOK /\ Revoked /\ [Next]_vars => [Out]_vars
    BY <1>2
  <2>2. Spec => []TypeOK
    BY Types
  <2> QED
    BY <1>1, <2>1, <2>2, NextRevoked, PTL DEF Spec, RevokedStaysOut

----------------------------------------------------------------------------------
(* Who holds a binding, and who holds a note about it.                     *)
LEMMA NoteOther ==
  ASSUME NEW x, NEW y, NEW late, Note(x, late), x # y
  PROVE  y \in belated' <=> y \in belated
BY DEF Note

LEMMA NoteOwn ==
  ASSUME NEW x, NEW late, late, Note(x, late)
  PROVE  x \in belated'
BY DEF Note

LEMMA Disjoint ==
  /\ \A s \in Sessions : s \notin Agents /\ s \notin Instances
  /\ \A a \in Agents : a \notin Instances
BY SessionRoutingAssumption

LEMMA NextEnded == TypeOK /\ EndedUnbound /\ [Next]_vars => EndedUnbound'
<1> DEFINE E(s) == sessions[s] \in {"revoked", "expired"} /\ session[s] # None =>
                     hooks[s] > 0 \/ s \in quiet \/ s \in belated
<1> SUFFICES ASSUME TypeOK, EndedUnbound, [Next]_vars, NEW s \in Sessions PROVE E(s)'
  BY DEF EndedUnbound
<1>0. /\ E(s) /\ sessions \in [Sessions -> Statuses] /\ session \in [Sessions -> MaybeInstance]
      /\ hooks \in [Sessions -> Nat]
  BY DEF EndedUnbound, TypeOK, StoreTypeOK, BindingsTypeOK, RoutingTypeOK
<1>1. ASSUME NEW t \in Sessions, RevokeSession(t) \/ AuthenticateExpires(t) PROVE E(s)'
  <2>1. /\ hooks' = [hooks EXCEPT ![t] = @ + 1] /\ session' = session
        /\ quiet' = quiet /\ belated' = belated
        /\ s # t => sessions'[s] = sessions[s]
    BY <1>0, <1>1 DEF RevokeSession, AuthenticateExpires, Dispatch, Revoke, Expire, Mark, bindings
  <2> QED
    BY <1>0, <2>1
<1>2. ASSUME NEW t \in Sessions, CreateSession(t) PROVE E(s)'
  BY <1>0, <1>2 DEF CreateSession, Create, Mark, bindings, routingVars
<1>3. ASSUME NEW t \in Sessions, Hook(t) PROVE E(s)'
  BY <1>0, <1>3 DEF Hook, ClearSession, storeVars
<1>4. ASSUME NEW r \in Requests, Touch(r) PROVE E(s)'
  <2>1. /\ request[r].who \in Sessions
        /\ session' = session /\ hooks' = hooks /\ belated' = belated
    BY <1>4 DEF Touch, At, TypeOK, RoutingTypeOK, InHand, bindings
  <2>2. CASE sessions' = sessions /\ quiet' = quiet
    BY <1>0, <2>1, <2>2
  <2>3. CASE Expire(request[r].who) /\ quiet' = quiet \cup {request[r].who}
    BY <1>0, <2>1, <2>3 DEF Expire, Mark
  <2> QED
    BY <1>4, <2>2, <2>3 DEF Touch, Refresh, storeVars
<1>5. ASSUME NEW r \in Requests, Bind(r) PROVE E(s)'
  <2> DEFINE t == request[r].who
             late == sessions[t] # "active" \/ handled[request[r].dest] # {}
  <2>1. /\ sessions' = sessions /\ hooks' = hooks /\ quiet' = quiet
        /\ session' = [session EXCEPT ![t] = request[r].dest] /\ Note(t, late)
    BY <1>5 DEF Bind, BindSession, storeVars
  <2>2. CASE s = t
    BY <1>0, <2>1, <2>2, NoteOwn
  <2>3. CASE s # t
    BY <1>0, <2>1, <2>3, NoteOther
  <2> QED
    BY <2>2, <2>3
<1>6. ASSUME NEW r \in Requests, BindTheAgent(r) PROVE E(s)'
  <2>1. s # AgentName(r)
    BY <1>6, Disjoint, SessionRoutingAssumption
    DEF BindTheAgent, At, TypeOK, RoutingTypeOK, InHand, RequestRecord, AgentName
  <2> QED
    BY <1>0, <1>6, <2>1, NoteOther DEF BindTheAgent, BindAgent, storeVars
<1>7. CASE StoreTabs
  <2>1. s # reading
    BY <1>7, Disjoint DEF StoreTabs, TypeOK, InstancesTypeOK, MaybeInstance
  <2>2. s \in belated' <=> s \in belated
    BY <1>7, <2>1, NoteOther DEF StoreTabs
  <2> QED
    BY <1>0, <1>7, <2>2 DEF StoreTabs, storeVars, bindings
<1>8. ASSUME NEW i \in Instances, ClearInstance(i), UNCHANGED <<storeVars, hooks, quiet, belated>>
      PROVE  E(s)'
  BY <1>0, <1>8 DEF ClearInstance, Without, storeVars
<1>9. ASSUME NEW i \in Instances, NEW e \in {"stopped", "error"}, HandleEvent(i, e) PROVE E(s)'
  BY <1>8, <1>9 DEF HandleEvent, routingVars
<1>10. ASSUME NEW r \in Requests, Check(r) PROVE E(s)'
  <2>1. request[r].dest \in Instances
    BY <1>10 DEF Check, At, TypeOK, RoutingTypeOK, InHand, RequestRecord, MaybeInstance
  <2> QED
    BY <1>0, <1>8, <1>10, <2>1 DEF Check, bindings, storeVars
<1>11. CASE Restart
  BY <1>11 DEF Restart
<1>12. CASE UNCHANGED <<sessions, session, hooks, quiet, belated>>
  BY <1>0, <1>12
<1> QED
  <2> HIDE DEF E
  <2>1. UNCHANGED vars => E(s)'
    BY <1>12 DEF vars, storeVars, bindings, routingVars
  <2> QED
    BY <2>1, <1>1, <1>2, <1>3, <1>4, <1>5, <1>6, <1>7, <1>9, <1>10, <1>11, <1>12
    DEF Next, storeVars, bindings, routingVars, RequestStep, Time, Lapse, Authenticate,
        AuthenticateAgent, Route, LookSession, LookAgent, Seen, Fallback, Answer, ReadTabs, Launch,
        Change, Die, AgentRests, Rest, Prune, PruneAgents

(* An ended session is bound only while its hook has not run, when Touch   *)
(* expired it without one, or by a request that was answered after the end.*)
THEOREM EndedForgotten == Spec => []EndedUnbound
<1>1. Init => EndedUnbound
  BY DEF Init, StoreInit, EndedUnbound
<1>2. Spec => []TypeOK
  BY Types
<1> QED
  BY <1>1, <1>2, NextEnded, PTL DEF Spec

LEMMA NextForgotten == TypeOK /\ StoppedForgotten /\ [Next]_vars => StoppedForgotten'
<1> DEFINE F(i) == handled[i] # {} =>
                     /\ \A s \in Sessions : session[s] = i => s \in belated
                     /\ \A a \in Agents : agent[a] = i => a \in belated
                     /\ i \in cached => i \in belated
<1> SUFFICES ASSUME TypeOK, StoppedForgotten, [Next]_vars, NEW i \in Instances PROVE F(i)'
  BY DEF StoppedForgotten
<1>0. /\ F(i) /\ session \in [Sessions -> MaybeInstance] /\ agent \in [Agents -> MaybeInstance]
      /\ handled \in [Instances -> SUBSET {"error", "stopped"}] /\ i # None
  BY SessionRoutingAssumption DEF StoppedForgotten, TypeOK, BindingsTypeOK, InstancesTypeOK
<1>1. ASSUME NEW s \in Sessions, Hook(s) PROVE F(i)'
  BY <1>0, <1>1 DEF Hook, ClearSession, instanceVars, cacheVars
<1>2. ASSUME NEW r \in Requests, Bind(r) PROVE F(i)'
  <2> DEFINE t == request[r].who
             late == sessions[t] # "active" \/ handled[request[r].dest] # {}
  <2>1. /\ t \in Sessions /\ session' = [session EXCEPT ![t] = request[r].dest]
        /\ agent' = agent /\ cached' = cached /\ handled' = handled /\ Note(t, late)
    BY <1>2 DEF Bind, BindSession, At, TypeOK, RoutingTypeOK, InHand, instanceVars, cacheVars
  <2>2. \A x : x # t => (x \in belated' <=> x \in belated)
    BY <2>1, NoteOther
  <2>3. request[r].dest = i /\ handled[i] # {} => t \in belated'
    BY <2>1, NoteOwn
  <2> QED
    BY <1>0, <2>1, <2>2, <2>3, Disjoint
<1>3. ASSUME NEW r \in Requests, BindTheAgent(r) PROVE F(i)'
  <2> DEFINE a == AgentName(r)
             late == handled[request[r].dest] # {}
  <2>1. /\ a \in Agents /\ agent' = [agent EXCEPT ![a] = request[r].dest]
        /\ session' = session /\ cached' \subseteq cached /\ handled' = handled /\ Note(a, late)
    BY <1>3, SessionRoutingAssumption
    DEF BindTheAgent, BindAgent, At, TypeOK, RoutingTypeOK, InHand, RequestRecord, AgentName,
        instanceVars
  <2>2. \A x : x # a => (x \in belated' <=> x \in belated)
    BY <2>1, NoteOther
  <2>3. request[r].dest = i /\ handled[i] # {} => a \in belated'
    BY <2>1, NoteOwn
  <2> HIDE DEF a
  <2> QED
    BY <1>0, <2>1, <2>2, <2>3, Disjoint
<1>4. CASE StoreTabs
  <2>1. /\ session' = session /\ agent' = agent /\ handled' = handled /\ reading \in Instances
    BY <1>4 DEF StoreTabs, bindings, instanceVars, TypeOK, InstancesTypeOK, MaybeInstance
  <2>2. CASE UNCHANGED <<cached, belated>>
    BY <1>0, <2>1, <2>2
  <2>3. CASE cached' = cached \cup {reading} /\ Note(reading, handled[reading] # {})
    <3>1. \A x : x # reading => (x \in belated' <=> x \in belated)
      BY <2>3, NoteOther
    <3>2. reading = i /\ handled[i] # {} => i \in belated'
      BY <2>3, NoteOwn
    <3> QED
      BY <1>0, <2>1, <2>3, <3>1, <3>2, Disjoint
  <2> QED
    BY <1>4, <2>2, <2>3 DEF StoreTabs
<1>5. ASSUME NEW j \in Instances, ClearInstance(j), UNCHANGED <<handled, belated>>,
             cached' \subseteq cached
      PROVE  F(i)'
  BY <1>0, <1>5 DEF ClearInstance, Without
<1>6. ASSUME NEW j \in Instances, NEW e \in {"stopped", "error"}, HandleEvent(j, e) PROVE F(i)'
  <2>1. /\ handled' = [handled EXCEPT ![j] = @ \cup {e}] /\ belated' = belated
        /\ cached' = cached \ {j} /\ ClearInstance(j)
    BY <1>6 DEF HandleEvent, routingVars
  <2>2. CASE i = j
    BY <1>0, <2>1, <2>2 DEF ClearInstance, Without
  <2>3. CASE i # j
    BY <1>0, <2>1, <2>3 DEF ClearInstance, Without
  <2> QED
    BY <2>2, <2>3
<1>7. ASSUME NEW r \in Requests, Check(r) PROVE F(i)'
  <2>1. request[r].dest \in Instances
    BY <1>7 DEF Check, At, TypeOK, RoutingTypeOK, InHand, RequestRecord, MaybeInstance
  <2> QED
    BY <1>0, <1>5, <1>7, <2>1 DEF Check, bindings, instanceVars, cacheVars
<1>8. CASE Prune
  BY <1>0, <1>8 DEF Prune, PruneAgents, instanceVars, cacheVars, routingVars
<1>9. CASE Restart
  BY <1>9 DEF Restart
<1>10. CASE UNCHANGED <<session, agent, cached, handled, belated>>
  BY <1>0, <1>10
<1> QED
  <2> HIDE DEF F
  <2>1. UNCHANGED vars => F(i)'
    BY <1>10 DEF vars, instanceVars, cacheVars, bindings, routingVars
  <2> QED
    BY <2>1, <1>1, <1>2, <1>3, <1>4, <1>6, <1>7, <1>8, <1>9, <1>10
    DEF Next, instanceVars, cacheVars, bindings, routingVars, RequestStep, CreateSession, Time,
        RevokeSession, AuthenticateExpires, Authenticate, AuthenticateAgent, Touch, Route,
        LookSession, LookAgent, Seen, Fallback, Answer, ReadTabs, Launch, Change, Die, AgentRests,
        Rest

(* After the listener has handled the end of an instance, what still refers*)
(* to it was written by a request that was under way then.                 *)
THEOREM EndHandled == Spec => []StoppedForgotten
<1>1. Init => StoppedForgotten
  BY DEF Init, StoppedForgotten
<1>2. Spec => []TypeOK
  BY Types
<1> QED
  BY <1>1, <1>2, NextForgotten, PTL DEF Spec

----------------------------------------------------------------------------------
(* The binding a request found is where it goes, until an answer is booked *)
(* to another instance on the same port.                                   *)
SeenIsDest(q) ==
  /\ q.seen # None => q.seen = q.dest
  /\ q.pc \in {"idle", "touch", "route", "session", "fallback"} => q.seen = None

Faithful == ~config.shared => \A r \in Requests : SeenIsDest(request[r])

LEMMA ConfigFixed == [Next]_vars => config' = config
<1> SUFFICES ASSUME [Next]_vars PROVE config' = config
  OBVIOUS
<1>1. ASSUME NEW p \in Requests, RequestStep(p) PROVE config' = config
  BY <1>1 DEF RequestStep, Touch, Route, LookSession, LookAgent, Check, Fallback, Answer, Bind,
              BindTheAgent
<1>2. ASSUME NEW s \in Sessions, StoreStep(s) \/ Hook(s) PROVE config' = config
  BY <1>2 DEF StoreStep, CreateSession, Time, RevokeSession, AuthenticateExpires, Hook
<1>3. ASSUME NEW i \in Instances, ReadTabs(i) \/ Launch(i) \/ Change(i) \/ Die(i)
      PROVE  config' = config
  BY <1>3 DEF ReadTabs, Launch, Change, Die
<1>4. ASSUME NEW p \in Requests, NEW s \in Sessions, Authenticate(p, s) PROVE config' = config
  BY <1>4 DEF Authenticate
<1>5. ASSUME NEW p \in Requests, NEW a \in Agents, AuthenticateAgent(p, a)
      PROVE  config' = config
  BY <1>5 DEF AuthenticateAgent
<1>6. ASSUME NEW i \in Instances, NEW e \in {"stopped", "error"}, HandleEvent(i, e)
      PROVE  config' = config
  BY <1>6 DEF HandleEvent
<1>7. ASSUME NEW a \in Agents, AgentRests(a) PROVE config' = config
  BY <1>7 DEF AgentRests
<1>8. CASE StoreTabs \/ Prune \/ Restart
  BY <1>8 DEF StoreTabs, Prune, Restart
<1>9. CASE UNCHANGED vars
  BY <1>9 DEF vars
<1> QED
  BY <1>1, <1>2, <1>3, <1>4, <1>5, <1>6, <1>7, <1>8, <1>9 DEF Next, StoreStep

LEMMA AbsentFaithful == SeenIsDest(Absent)
BY DEF SeenIsDest, Absent

LEMMA NextFaithful == TypeOK /\ Faithful /\ [Next]_vars => Faithful'
<1> SUFFICES ASSUME TypeOK, Faithful, [Next]_vars, ~config.shared, NEW r \in Requests
             PROVE  SeenIsDest(request'[r])
  BY ConfigFixed DEF Faithful
<1>0. /\ request \in [Requests -> RequestRecord] /\ request[r] \in RequestRecord
      /\ SeenIsDest(request[r])
  BY DEF Faithful, TypeOK, RoutingTypeOK
<1>i. listed \subseteq Instances
  BY DEF TypeOK, InstancesTypeOK
<1>e. ASSUME End(r) PROVE SeenIsDest(request'[r])
  BY <1>0, <1>e, AbsentFaithful DEF End
<1>s. ASSUME NEW i, Send(r, i), request[r].seen \in {None, i} PROVE SeenIsDest(request'[r])
  BY <1>0, <1>s, AbsentFaithful DEF Send, SeenIsDest, RequestRecord
<1>1. CASE \E s \in Sessions : Authenticate(r, s)
  BY <1>0, <1>1 DEF Authenticate, SeenIsDest, Absent
<1>2. CASE \E a \in Agents : AuthenticateAgent(r, a)
  BY <1>0, <1>2 DEF AuthenticateAgent, SeenIsDest, Absent
<1>3. CASE Touch(r) \/ Bind(r) \/ BindTheAgent(r)
  BY <1>0, <1>3, <1>e DEF Touch, Bind, BindTheAgent, Goto, At, SeenIsDest, RequestRecord
<1>4. CASE Route(r)
  <2>1. request[r].seen = None
    BY <1>0, <1>4 DEF Route, At, SeenIsDest
  <2>2. ASSUME NEW l \in {"session", "agent"},
               \/ Goto(r, l)
               \/ \E i \in Instances :
                    request' = [request EXCEPT ![r] = [@ EXCEPT !.pc = l, !.dest = i]]
        PROVE  SeenIsDest(request'[r])
    <3>1. request'[r].seen = None
      BY <1>0, <2>1, <2>2 DEF Goto, RequestRecord
    <3> QED
      BY <3>1 DEF SeenIsDest
  <2>3. ASSUME NEW i \in Instances, Send(r, i) PROVE SeenIsDest(request'[r])
    BY <1>s, <2>1, <2>3
  <2> DEFINE look == IF request[r].who \in Sessions THEN "session" ELSE "agent"
  <2>4. \/ End(r) \/ Goto(r, look)
        \/ \E i \in Instances :
             Send(r, i) \/ request' = [request EXCEPT ![r] = [@ EXCEPT !.pc = look, !.dest = i]]
    BY <1>4, <1>i DEF Route
  <2>5. look \in {"session", "agent"}
    OBVIOUS
  <2> HIDE DEF look
  <2> QED
    BY <1>e, <2>2, <2>3, <2>4, <2>5
<1>5. CASE LookSession(r)
  <2> DEFINE bound == session[request[r].who]
  <2>1. CASE bound = None
    BY <1>0, <1>5, <2>1 DEF LookSession, At, SeenIsDest, RequestRecord
  <2>2. CASE bound # None /\ request[r].dest = None
    <3> DEFINE q == [request[r] EXCEPT !.pc = "check", !.dest = bound, !.seen = bound]
    <3>1. request'[r] = q
      BY <1>0, <1>5, <2>2 DEF LookSession
    <3>2. q.pc = "check" /\ q.dest = bound /\ q.seen = bound
      BY <1>0 DEF RequestRecord
    <3> QED
      BY <3>1, <3>2 DEF SeenIsDest
  <2>3. CASE bound # None /\ request[r].dest = bound
    <3> DEFINE q == [request[r] EXCEPT !.pc = "agent", !.seen = bound]
    <3>1. request'[r] = q
      BY <1>0, <1>5, <2>3 DEF LookSession
    <3>2. q.pc = "agent" /\ q.dest = bound /\ q.seen = bound
      BY <1>0, <2>3 DEF RequestRecord
    <3> QED
      BY <3>1, <3>2 DEF SeenIsDest
  <2>4. CASE bound # None /\ request[r].dest \notin {None, bound}
    BY <1>0, <1>5, <2>4, AbsentFaithful DEF LookSession
  <2> QED
    BY <2>1, <2>2, <2>3, <2>4
<1>6. CASE LookAgent(r)
  <2>1. CASE request[r].dest = None
    <3> DEFINE bound == agent[AgentName(r)]
    <3>1. request[r].pc = "agent" /\ request[r].seen = None
      BY <1>0, <1>6, <2>1 DEF LookAgent, At, SeenIsDest
    <3>2. \E q \in {[request[r] EXCEPT !.pc = "fallback"],
                   [request[r] EXCEPT !.pc = "check", !.dest = bound]} :
            request' = [request EXCEPT ![r] = q]
      BY <1>6, <2>1 DEF LookAgent
    <3>3. request'[r].seen = None
      <4> HIDE DEF bound
      <4> QED
        BY <1>0, <3>1, <3>2 DEF RequestRecord
    <3> QED
      BY <3>3 DEF SeenIsDest
  <2>2. CASE request[r].dest # None
    <3>1. End(r) \/ Send(r, request[r].dest)
      BY <1>6, <2>2 DEF LookAgent
    <3>2. request[r].seen \in {None, request[r].dest}
      BY <1>0 DEF SeenIsDest
    <3> QED
      BY <1>e, <1>s, <3>1, <3>2
  <2> QED
    BY <2>1, <2>2
<1>7. CASE Check(r)
  <2>1. CASE Send(r, request[r].dest)
    BY <1>0, <1>s, <2>1 DEF SeenIsDest
  <2> DEFINE q == [Absent EXCEPT !.pc = "fallback", !.who = request[r].who]
  <2>2. CASE request' = [request EXCEPT ![r] = q]
    <3>1. request'[r] = q /\ q.seen = None
      BY <1>0, <2>2 DEF Absent
    <3> QED
      BY <3>1 DEF SeenIsDest
  <2> QED
    BY <1>7, <2>1, <2>2 DEF Check
<1>8. CASE Fallback(r)
  BY <1>0, <1>8, <1>e, <1>s DEF Fallback, At, SeenIsDest
<1>9. CASE Answer(r)
  <2>1. ASSUME NEW i \in listed, i = request[r].dest,
               request' = [request EXCEPT ![r] = [@ EXCEPT !.dest = i,
                 !.pc = IF request[r].who \in Sessions THEN "bind" ELSE "bindAgent"]]
        PROVE  SeenIsDest(request'[r])
    <3> DEFINE q == [request[r] EXCEPT !.dest = i,
                     !.pc = IF request[r].who \in Sessions THEN "bind" ELSE "bindAgent"]
    <3>1. request'[r] = q
      BY <1>0, <2>1
    <3>2. q.dest = request[r].dest /\ q.seen = request[r].seen /\ q.pc \in {"bind", "bindAgent"}
      BY <1>0, <2>1 DEF RequestRecord
    <3> QED
      BY <1>0, <3>1, <3>2 DEF SeenIsDest
  <2> QED
    BY <1>9, <1>e, <2>1 DEF Answer
<1>10. CASE Restart
  BY <1>10, AbsentFaithful DEF Restart
<1>11. CASE request'[r] = request[r]
  BY <1>0, <1>11
<1> QED
  BY <1>1, <1>2, <1>3, <1>4, <1>5, <1>6, <1>7, <1>8, <1>9, <1>10, <1>11, OwnStep DEF RequestStep

(* With strict routing, a session is moved away from an instance only by a *)
(* request that had not found it bound there.                              *)
THEOREM StrictlyMoved == Spec => StrictMoves
<1> DEFINE Moves ==
      config.strict /\ ~config.shared =>
        \A s \in Sessions, r \in Requests :
          /\ At(r, "bind") /\ request[r].who = s /\ request'[r].pc = "bindAgent"
          /\ session[s] \notin {None, request[r].dest}
          => request[r].seen # session[s]
<1>1. Init => Faithful
  BY AbsentFaithful DEF Init, Faithful
<1>2. Faithful => Moves
  BY DEF Faithful, SeenIsDest
<1>3. Spec => []TypeOK
  BY Types
<1> QED
  BY <1>1, <1>2, <1>3, NextFaithful, PTL DEF Spec, StrictMoves
=============================================================================
