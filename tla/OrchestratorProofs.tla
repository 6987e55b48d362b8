---------------------------- MODULE OrchestratorProofs ----------------------------
(***************************************************************************)
(* For any number of launches, Stop calls and ports: the types, the port   *)
(* accounting and the absence of forgotten processes.                      *)
(***************************************************************************)
EXTENDS OrchestratorProperties, TLAPS

(* What a call has not chosen yet, and who may be in the table.            *)
Chosen ==
  \A l \in Launches :
    /\ launch[l] = "idle" => port[l] = NoPort
    /\ launch[l] \in {"idle", "reserved", "checked"} => cdpPort[l] = NoPort
    /\ l \in instances => launch[l] = "done"

(* A process exists from LaunchRun on.                                     *)
Spawned ==
  \A l \in Launches :
    process[l] # "none" => launch[l] \in {"spawned", "done"}

(* A Stop call works on an instance that was inserted, and comes to        *)
(* markStopped only when its process ended or was sent SIGKILL.            *)
Targets ==
  \A s \in Stoppers : stop[s] # "idle" =>
    /\ target[s] \in Launches
    /\ launch[target[s]] = "done"
    /\ stop[s] = "release" => ~Active(target[s]) \/ target[s] \in killed

Ports == NoPortLost /\ PortsExclusive

(* A monitor works on an instance that was inserted.  Without SIGKILL, an  *)
(* instance under a Stop call, or removed by one, is stopping or stopped,  *)
(* so its monitor will not register it.                                    *)
Watched ==
  \A l \in Launches :
    /\ monitor[l] # "none" => launch[l] = "done"
    /\ launch[l] # "done" => status[l] = "starting"
    /\ monitor[l] # "none" /\ l \notin instances /\ l \notin killed
         => status[l] \in {"stopping", "stopped"}

Held ==
  \A s \in Stoppers :
    /\ stop[s] = "kill" => target[s] \in killed
    /\ stop[s] \in Waits \cup {"release"} /\ target[s] \notin killed
         => status[target[s]] \in {"stopping", "stopped"}

Registry == Watched /\ Held /\ RegisteredIsTracked

(* The inductive invariant.                                                *)
IInv == TypeOK /\ Chosen /\ Spawned /\ Targets /\ Ports /\ NoOrphan /\ Registry

----------------------------------------------------------------------------------
(* The allocator.                                                          *)

(* Every attempt looks at a port of the range.                             *)
LEMMA CandidateInRange ==
  ASSUME PortTypeOK, NEW k \in Nat
  PROVE  Candidate(k) \in PortRange
<1> DEFINE a == nextCandidate - PortStart + k
           r == a % RangeSize
<1>1. RangeSize \in Nat \ {0} /\ a \in Nat
  BY PortAssumption DEF RangeSize, PortTypeOK
<1>2. r \in 0 .. RangeSize - 1
  BY <1>1
<1>3. Candidate(k) = PortStart + r
  BY DEF Candidate
<1> HIDE DEF r
<1> QED
  BY <1>2, <1>3, PortAssumption DEF PortRange, RangeSize

(* From any cursor, some attempt looks at a given port of the range.       *)
LEMMA EveryPortTried ==
  ASSUME PortTypeOK, NEW p \in PortRange
  PROVE  \E k \in Tries : Candidate(k) = p
<1> DEFINE n == RangeSize
           o == nextCandidate - PortStart
           q == p - PortStart
<1>1. n \in Nat \ {0} /\ o \in 0 .. n /\ q \in 0 .. n - 1 /\ PortStart + q = p
  BY PortAssumption DEF RangeSize, PortTypeOK, PortRange
<1>2. q % n = q /\ (q + n) % n = q
  BY <1>1
<1>3. CASE o <= q
  <2>1. q - o \in Tries /\ o + (q - o) = q
    BY <1>1, <1>3 DEF Tries
  <2>2. Candidate(q - o) = PortStart + q
    BY <1>2, <2>1 DEF Candidate
  <2> QED
    BY <1>1, <2>1, <2>2
<1>4. CASE q < o
  <2>1. q - o + n \in Tries /\ o + (q - o + n) = q + n
    BY <1>1, <1>4 DEF Tries
  <2>2. Candidate(q - o + n) = PortStart + q
    BY <1>2, <2>1 DEF Candidate
  <2> QED
    BY <1>1, <2>1, <2>2
<1> QED
  BY <1>1, <1>3, <1>4

(* What each operation does to the recorded ports; the types it keeps.     *)
LEMMA AllocateEffect ==
  ASSUME PortTypeOK, NEW usable, NEW p \in PortRange, AllocatePort(usable, p)
  PROVE  PortTypeOK' /\ p \notin allocated /\ allocated' = allocated \cup {p}
<1>1. p \notin allocated /\ allocated' = allocated \cup {p} /\ nextCandidate' = p + 1
  BY DEF AllocatePort, Hits
<1> QED
  BY <1>1, PortAssumption DEF PortTypeOK, PortRange

LEMMA FailEffect ==
  ASSUME PortTypeOK, NEW usable, AllocateFails(usable)
  PROVE  PortTypeOK' /\ allocated' = allocated
<1>1. RangeSize - 1 \in Nat
  BY PortAssumption DEF RangeSize
<1>2. Candidate(RangeSize - 1) \in PortRange
  BY <1>1, CandidateInRange
<1> QED
  BY <1>2, PortAssumption DEF AllocateFails, PortTypeOK, PortRange

LEMMA ReserveEffect ==
  ASSUME PortTypeOK, NEW p \in Nat, ReservePort(p)
  PROVE  PortTypeOK' /\ p \notin allocated /\ allocated' = allocated \cup ({p} \cap PortRange)
BY DEF PortTypeOK, ReservePort

LEMMA ReleaseEffect ==
  ASSUME PortTypeOK, NEW p, NEW q, ReleasePorts(p, q)
  PROVE  PortTypeOK' /\ allocated' = allocated \ {p, q}
<1>1. allocated' = allocated \ {p, q}
  BY DEF ReleasePorts
<1>2. nextCandidate' \in PortRange \cup {nextCandidate}
  BY DEF ReleasePorts
<1>3. nextCandidate' \in PortStart .. PortEnd + 1
  BY <1>2, PortAssumption DEF PortTypeOK, PortRange
<1> QED
  BY <1>1, <1>3 DEF PortTypeOK

----------------------------------------------------------------------------------
(* Ownership of ports: what a step may do to it.                           *)

(* Nobody gains or loses a port.                                           *)
LEMMA PortsKept ==
  ASSUME Ports, allocated' = allocated, UNCHANGED <<port, cdpPort>>,
         \A l \in Launches : Holds(l)' = Holds(l)
  PROVE  Ports'
BY DEF Ports, NoPortLost, PortsExclusive

(* One launch gains a port nobody had.                                     *)
LEMMA PortsGained ==
  ASSUME Ports, NEW l \in Launches, NEW p, p \notin allocated,
         allocated' = allocated \cup ({p} \cap PortRange),
         Holds(l)' = Holds(l) \cup ({p} \cap PortRange),
         Holds(l)' # {} => port'[l] # cdpPort'[l],
         \A m \in Launches \ {l} : /\ Holds(m)' = Holds(m)
                                   /\ port'[m] = port[m] /\ cdpPort'[m] = cdpPort[m]
  PROVE  Ports'
<1>1. \A m \in Launches : p \notin Holds(m)
  BY DEF Ports, NoPortLost
<1>2. NoPortLost'
  BY DEF Ports, NoPortLost
<1>3. PortsExclusive'
  BY <1>1 DEF Ports, PortsExclusive
<1> QED
  BY <1>2, <1>3 DEF Ports

(* One launch or entry gives back all it has.                              *)
LEMMA PortsReleased ==
  ASSUME Ports, allocated \subseteq PortRange, NEW l \in Launches,
         Holds(l) = {port[l], cdpPort[l]} \cap PortRange, Holds(l)' = {},
         allocated' = allocated \ {port[l], cdpPort[l]},
         UNCHANGED <<port, cdpPort>>,
         \A m \in Launches \ {l} : Holds(m)' = Holds(m)
  PROVE  Ports'
<1>1. allocated' = allocated \ Holds(l)
  OBVIOUS
<1>2. \A m \in Launches \ {l} : Holds(m) \cap Holds(l) = {}
  BY DEF Ports, PortsExclusive
<1>3. NoPortLost'
  BY <1>1, <1>2 DEF Ports, NoPortLost
<1>4. PortsExclusive'
  BY DEF Ports, PortsExclusive
<1> QED
  BY <1>3, <1>4 DEF Ports

----------------------------------------------------------------------------------
(* Type correctness.                                                       *)

LEMMA InitType == Init => TypeOK
<1> SUFFICES ASSUME Init PROVE TypeOK
  OBVIOUS
<1>1. PortTypeOK
  BY PortAssumption DEF Init, PortInit, PortTypeOK, PortRange
<1>2. profile \in [Launches -> Profiles]
  BY DEF Init
<1> QED
  BY <1>1, <1>2 DEF Init, TypeOK, Preparing, Statuses, NoPort

LEMMA TypeStep == IInv /\ [Next]_vars => TypeOK'
<1> SUFFICES ASSUME IInv, [Next]_vars PROVE TypeOK'
  OBVIOUS
<1> USE DEF TypeOK, Preparing, Statuses, Waits, portVars, launchVars, tableVars,
            processVars, watchVars, stopVars
<1>0. TypeOK /\ PortTypeOK
  BY DEF IInv
<1>1. ASSUME NEW l \in Launches, NEW n \in Profiles, NEW r \in Requests,
             LaunchReserve(l, n, r)
      PROVE  TypeOK'
  <2>1. r \in Nat
    BY OrchestratorAssumption
  <2>2. CASE r = NoPort /\ launch'[l] = "reserved"
    <3>1. PICK p \in PortRange : AllocatePort(Usable, p) /\ port' = [port EXCEPT ![l] = p]
      BY <1>0, <1>1, <2>2 DEF LaunchReserve, Goto
    <3>2. PortTypeOK'
      BY <1>0, <3>1, AllocateEffect
    <3>3. p \in Nat
      BY PortAssumption DEF PortRange
    <3> QED
      BY <1>0, <1>1, <3>1, <3>2, <3>3 DEF LaunchReserve, Goto
  <2>3. CASE r # NoPort /\ launch'[l] = "reserved"
    <3>1. ReservePort(r) /\ port' = [port EXCEPT ![l] = r]
      BY <1>0, <1>1, <2>3 DEF LaunchReserve, Goto
    <3>2. PortTypeOK'
      BY <1>0, <2>1, <3>1, ReserveEffect
    <3> QED
      BY <1>0, <1>1, <2>1, <3>1, <3>2 DEF LaunchReserve, Goto
  <2>4. CASE launch'[l] # "reserved"
    <3>1. (AllocateFails(Usable) \/ ReserveFails(r)) /\ UNCHANGED port
      BY <1>0, <1>1, <2>4 DEF LaunchReserve, Goto
    <3>2. PortTypeOK'
      BY <1>0, <3>1, FailEffect DEF ReserveFails, PortTypeOK
    <3> QED
      BY <1>0, <1>1, <3>1, <3>2 DEF LaunchReserve, Goto
  <2> QED
    BY <2>2, <2>3, <2>4
<1>2. ASSUME NEW l \in Launches, LaunchDebugPort(l)
      PROVE  TypeOK'
  <2>1. CASE \E p \in PortRange : AllocatePort(Usable, p) /\ cdpPort' = [cdpPort EXCEPT ![l] = p]
    <3>1. PICK p \in PortRange : AllocatePort(Usable, p) /\ cdpPort' = [cdpPort EXCEPT ![l] = p]
      BY <2>1
    <3>2. PortTypeOK'
      BY <1>0, <3>1, AllocateEffect
    <3> QED
      BY <1>0, <1>2, <3>1, <3>2 DEF LaunchDebugPort, Goto
  <2>2. CASE AllocateFails(Usable) /\ UNCHANGED cdpPort
    <3>1. PortTypeOK'
      BY <1>0, <2>2, FailEffect
    <3> QED
      BY <1>0, <1>2, <2>2, <3>1 DEF LaunchDebugPort, Goto
  <2> QED
    BY <1>2, <2>1, <2>2 DEF LaunchDebugPort
<1>3. ASSUME NEW l \in Launches, LaunchAbort(l)
      PROVE  TypeOK'
  <2>1. PortTypeOK'
    BY <1>0, <1>3, ReleaseEffect DEF LaunchAbort
  <2> QED
    BY <1>0, <1>3, <2>1 DEF LaunchAbort, Goto
<1>4. ASSUME NEW s \in Stoppers, MarkStopped(s)
      PROVE  TypeOK'
  <2>1. PortTypeOK'
    BY <1>0, <1>4, ReleaseEffect DEF MarkStopped, PortTypeOK
  <2> QED
    BY <1>0, <1>4, <2>1 DEF MarkStopped, StopGoto
<1>5. ASSUME UNCHANGED portVars
      PROVE  PortTypeOK'
  BY <1>0, <1>5 DEF PortTypeOK
<1>6. ASSUME NEW l \in Launches,
             LaunchCheck(l) \/ LaunchRun(l) \/ LaunchInsert(l)
      PROVE  TypeOK'
  BY <1>0, <1>5, <1>6 DEF LaunchCheck, LaunchRun, LaunchInsert, Goto
<1>7. ASSUME NEW l \in Launches, ProcessListen(l) \/ ProcessExit(l)
      PROVE  TypeOK'
  BY <1>0, <1>5, <1>7 DEF ProcessListen, ProcessExit
<1>8. ASSUME NEW l \in Launches, Observe(l)
      PROVE  TypeOK'
  BY <1>0, <1>5, <1>8 DEF Observe
<1>9. ASSUME NEW l \in Launches, Settle(l)
      PROVE  TypeOK'
  BY <1>0, <1>5, <1>9 DEF Settle
<1>10. ASSUME NEW l \in Launches, Reap(l)
       PROVE  TypeOK'
  BY <1>0, <1>5, <1>10 DEF Reap
<1>11. ASSUME NEW s \in Stoppers, NEW l \in Launches, StopBegin(s, l) \/ ForceShutdown(s, l)
       PROVE  TypeOK'
  BY <1>0, <1>5, <1>11 DEF StopBegin, ForceShutdown, StopGoto
<1>12. ASSUME NEW s \in Stoppers, StopExited(s)
       PROVE  TypeOK'
  BY <1>0, <1>5, <1>12 DEF StopExited, StopGoto
<1>13. ASSUME NEW s \in Stoppers, StopEscalate(s)
       PROVE  TypeOK'
  <2>1. target[s] \in Launches
    BY <1>0, <1>13 DEF StopEscalate, IInv, Targets
  <2> QED
    BY <1>0, <1>5, <1>13, <2>1 DEF StopEscalate, StopGoto
<1>14. ASSUME NEW s \in Stoppers, StopGiveUp(s) \/ Unregister(s)
       PROVE  TypeOK'
  BY <1>0, <1>5, <1>14 DEF StopGiveUp, Unregister, StopGoto
<1>15. CASE UNCHANGED vars
  BY <1>0, <1>5, <1>15 DEF vars
<1> QED
  BY <1>1, <1>2, <1>3, <1>4, <1>6, <1>7, <1>8, <1>9, <1>10, <1>11, <1>12, <1>13,
     <1>14, <1>15 DEF Next, LaunchStep, MonitorStep, StopStep

----------------------------------------------------------------------------------
(* Where launches, processes and Stop calls stand.                         *)

LEMMA InitControl == Init => Chosen /\ Spawned /\ Targets /\ Ports /\ NoOrphan
BY DEF Init, PortInit, Chosen, Spawned, Targets, Ports, NoPortLost, PortsExclusive,
       NoOrphan, Holds, Preparing, Active

LEMMA ControlStep ==
  IInv /\ [Next]_vars => Chosen' /\ Spawned' /\ Targets' /\ NoOrphan'
<1> DEFINE Control == Chosen /\ Spawned /\ Targets /\ NoOrphan
<1> SUFFICES ASSUME IInv, [Next]_vars PROVE Control'
  OBVIOUS
<1> USE DEF TypeOK, Chosen, Spawned, Targets, NoOrphan, Active, Waits,
            launchVars, tableVars, processVars, watchVars, stopVars
<1>0. TypeOK /\ Control
  BY DEF IInv
<1>1. ASSUME NEW l \in Launches, NEW n \in Profiles, NEW r \in Requests,
             LaunchReserve(l, n, r)
      PROVE  Control'
  BY <1>0, <1>1 DEF LaunchReserve, Goto
<1>2. ASSUME NEW l \in Launches, LaunchCheck(l)
      PROVE  Control'
  BY <1>0, <1>2 DEF LaunchCheck, Goto
<1>3. ASSUME NEW l \in Launches, LaunchDebugPort(l)
      PROVE  Control'
  BY <1>0, <1>3 DEF LaunchDebugPort, Goto
<1>4. ASSUME NEW l \in Launches, LaunchRun(l)
      PROVE  Control'
  BY <1>0, <1>4 DEF LaunchRun, Goto
<1>5. ASSUME NEW l \in Launches, LaunchInsert(l)
      PROVE  Control'
  BY <1>0, <1>5 DEF LaunchInsert, Goto
<1>6. ASSUME NEW l \in Launches, LaunchAbort(l)
      PROVE  Control'
  BY <1>0, <1>6 DEF LaunchAbort, Goto
<1>7. ASSUME NEW l \in Launches, ProcessListen(l) \/ ProcessExit(l)
      PROVE  Control'
  BY <1>0, <1>7 DEF ProcessListen, ProcessExit
<1>8. ASSUME NEW l \in Launches, Observe(l) \/ Settle(l) \/ Reap(l)
      PROVE  Control'
  <2>1. UNCHANGED <<launch, port, cdpPort, instances, process, killed, stop, target>>
    BY <1>8 DEF Observe, Settle, Reap
  <2> QED
    BY <1>0, <2>1
<1>9. ASSUME NEW s \in Stoppers, NEW l \in Launches, StopBegin(s, l)
      PROVE  Control'
  BY <1>0, <1>9 DEF StopBegin, StopGoto
<1>10. ASSUME NEW s \in Stoppers, NEW l \in Launches, ForceShutdown(s, l)
       PROVE  Control'
  BY <1>0, <1>10 DEF ForceShutdown, StopGoto
<1>11. ASSUME NEW s \in Stoppers, StopExited(s)
       PROVE  Control'
  BY <1>0, <1>11 DEF StopExited, StopGoto
<1>12. ASSUME NEW s \in Stoppers, StopEscalate(s)
       PROVE  Control'
  BY <1>0, <1>12 DEF StopEscalate, StopGoto
<1>13. ASSUME NEW s \in Stoppers, StopGiveUp(s) \/ Unregister(s)
       PROVE  Control'
  BY <1>0, <1>13 DEF StopGiveUp, Unregister, StopGoto
<1>14. ASSUME NEW s \in Stoppers, MarkStopped(s)
       PROVE  Control'
  BY <1>0, <1>14 DEF MarkStopped, StopGoto
<1>15. CASE UNCHANGED vars
  BY <1>0, <1>15 DEF vars
<1> QED
  BY <1>1, <1>2, <1>3, <1>4, <1>5, <1>6, <1>7, <1>8, <1>9, <1>10, <1>11, <1>12,
     <1>13, <1>14, <1>15 DEF Next, LaunchStep, MonitorStep, StopStep

----------------------------------------------------------------------------------
(* Ports.                                                                  *)

LEMMA PortsStep == IInv /\ [Next]_vars => Ports'
<1> SUFFICES ASSUME IInv, [Next]_vars PROVE Ports'
  OBVIOUS
<1> USE DEF Preparing, portVars, launchVars, tableVars, processVars, watchVars, stopVars
<1>0. TypeOK /\ PortTypeOK /\ Chosen /\ Ports /\ allocated \subseteq PortRange
  BY DEF IInv, TypeOK, PortTypeOK
<1>1. NoPort \notin PortRange
  BY PortAssumption DEF NoPort, PortRange
<1>2. ASSUME NEW l \in Launches, NEW n \in Profiles, NEW r \in Requests,
             LaunchReserve(l, n, r)
      PROVE  Ports'
  <2>1. launch[l] = "idle" /\ l \notin instances /\ Holds(l) = {}
    BY <1>0, <1>2 DEF LaunchReserve, Chosen, Holds
  <2>2. cdpPort' = cdpPort /\ cdpPort[l] = NoPort /\ instances' = instances
    BY <1>0, <1>2, <2>1 DEF LaunchReserve, Chosen
  <2>3. ASSUME NEW p \in Nat, p # NoPort, p \notin allocated,
               allocated' = allocated \cup ({p} \cap PortRange),
               port' = [port EXCEPT ![l] = p],
               launch' = [launch EXCEPT ![l] = "reserved"]
        PROVE  Ports'
    <3>1. Holds(l)' = Holds(l) \cup ({p} \cap PortRange) /\ port'[l] # cdpPort'[l]
      BY <1>0, <1>1, <2>1, <2>2, <2>3 DEF Holds, TypeOK
    <3>2. \A m \in Launches \ {l} : Holds(m)' = Holds(m) /\ port'[m] = port[m]
      BY <1>0, <2>2, <2>3 DEF Holds, TypeOK
    <3> QED
      BY <1>0, <2>2, <2>3, <3>1, <3>2, PortsGained
  <2>4. CASE r = NoPort /\ launch'[l] = "reserved"
    <3>1. PICK p \in PortRange : AllocatePort(Usable, p) /\ port' = [port EXCEPT ![l] = p]
      BY <1>0, <1>2, <2>4 DEF LaunchReserve, Goto, TypeOK
    <3>2. p \in Nat /\ p # NoPort
      BY <1>1, PortAssumption DEF PortRange
    <3>3. p \notin allocated /\ allocated' = allocated \cup {p}
      BY <1>0, <3>1, AllocateEffect
    <3>4. launch' = [launch EXCEPT ![l] = "reserved"]
      BY <1>0, <1>2, <2>4 DEF LaunchReserve, Goto, TypeOK
    <3> QED
      BY <2>3, <3>1, <3>2, <3>3, <3>4
  <2>5. CASE r # NoPort /\ launch'[l] = "reserved"
    <3>1. ReservePort(r) /\ port' = [port EXCEPT ![l] = r] /\ r \in Nat
      BY <1>0, <1>2, <2>5, OrchestratorAssumption DEF LaunchReserve, Goto, TypeOK
    <3>2. launch' = [launch EXCEPT ![l] = "reserved"]
      BY <1>0, <1>2, <2>5 DEF LaunchReserve, Goto, TypeOK
    <3> QED
      BY <1>0, <2>3, <2>5, <3>1, <3>2, ReserveEffect
  <2>6. CASE launch'[l] # "reserved"
    <3>1. (AllocateFails(Usable) \/ ReserveFails(r)) /\ UNCHANGED port
      BY <1>0, <1>2, <2>6 DEF LaunchReserve, Goto, TypeOK
    <3>2. allocated' = allocated
      BY <1>0, <3>1, FailEffect DEF ReserveFails
    <3>3. launch' = [launch EXCEPT ![l] = "done"]
      BY <1>0, <1>2, <2>6 DEF LaunchReserve, Goto, TypeOK
    <3>4. \A m \in Launches : Holds(m)' = Holds(m)
      BY <1>0, <2>1, <2>2, <3>1, <3>3 DEF Holds, TypeOK
    <3> QED
      BY <1>0, <2>2, <3>1, <3>2, <3>4, PortsKept
  <2> QED
    BY <2>4, <2>5, <2>6
<1>3. ASSUME NEW l \in Launches, LaunchDebugPort(l)
      PROVE  Ports'
  <2>1. /\ launch[l] = "checked" /\ l \notin instances /\ cdpPort[l] = NoPort
        /\ port' = port /\ instances' = instances
    BY <1>0, <1>3 DEF LaunchDebugPort, Chosen
  <2>2. Holds(l) = {port[l]} \cap PortRange
    BY <1>1, <2>1 DEF Holds
  <2>3. CASE launch' = [launch EXCEPT ![l] = "equipped"]
    <3>1. PICK p \in PortRange : AllocatePort(Usable, p) /\ cdpPort' = [cdpPort EXCEPT ![l] = p]
      BY <1>0, <1>3, <2>3 DEF LaunchDebugPort, Goto, TypeOK
    <3>2. p \notin allocated /\ allocated' = allocated \cup ({p} \cap PortRange)
      BY <1>0, <3>1, AllocateEffect
    <3>3. p \notin Holds(l)
      BY <1>0, <3>2 DEF Ports, NoPortLost
    <3>4. Holds(l)' = Holds(l) \cup ({p} \cap PortRange) /\ port'[l] # cdpPort'[l]
      BY <1>0, <2>1, <2>2, <2>3, <3>1, <3>3 DEF Holds, TypeOK
    <3>5. \A m \in Launches \ {l} : Holds(m)' = Holds(m) /\ cdpPort'[m] = cdpPort[m]
      BY <1>0, <2>1, <2>3, <3>1 DEF Holds, TypeOK
    <3> QED
      BY <1>0, <2>1, <3>2, <3>4, <3>5, PortsGained
  <2>4. CASE launch' = [launch EXCEPT ![l] = "failing"] /\ AllocateFails(Usable) /\ UNCHANGED cdpPort
    <3>1. allocated' = allocated
      BY <1>0, <2>4, FailEffect
    <3>2. \A m \in Launches : Holds(m)' = Holds(m)
      BY <1>0, <2>1, <2>4 DEF Holds, TypeOK
    <3> QED
      BY <1>0, <2>1, <2>4, <3>1, <3>2, PortsKept
  <2> QED
    BY <1>3, <2>3, <2>4 DEF LaunchDebugPort, Goto
<1>4. ASSUME NEW l \in Launches, LaunchAbort(l)
      PROVE  Ports'
  <2>1. /\ launch[l] = "failing" /\ l \notin instances
        /\ launch' = [launch EXCEPT ![l] = "done"]
        /\ UNCHANGED <<port, cdpPort, instances>>
    BY <1>0, <1>4 DEF LaunchAbort, Goto, Chosen
  <2>2. allocated' = allocated \ {port[l], cdpPort[l]}
    BY <1>0, <1>4, ReleaseEffect DEF LaunchAbort
  <2>3. Holds(l) = {port[l], cdpPort[l]} \cap PortRange /\ Holds(l)' = {}
    BY <1>0, <2>1 DEF Holds, TypeOK
  <2>4. \A m \in Launches \ {l} : Holds(m)' = Holds(m)
    BY <1>0, <2>1 DEF Holds, TypeOK
  <2> QED
    BY <1>0, <2>1, <2>2, <2>3, <2>4, PortsReleased
<1>5. ASSUME NEW s \in Stoppers, MarkStopped(s)
      PROVE  Ports'
  <2>0. PICK l \in Launches : l = target[s]
    BY <1>5 DEF IInv, Targets, MarkStopped
  <2>1. launch[l] = "done" /\ UNCHANGED <<launch, port, cdpPort>>
    BY <1>5, <2>0 DEF IInv, Targets, MarkStopped
  <2>2. CASE l \in instances
    <3>1. instances' = instances \ {l} /\ allocated' = allocated \ {port[l], cdpPort[l]}
      BY <1>0, <1>5, <2>0, <2>2, ReleaseEffect DEF MarkStopped
    <3>2. Holds(l) = {port[l], cdpPort[l]} \cap PortRange /\ Holds(l)' = {}
      BY <2>1, <2>2, <3>1 DEF Holds
    <3>3. \A m \in Launches \ {l} : Holds(m)' = Holds(m)
      BY <2>1, <3>1 DEF Holds
    <3> QED
      BY <1>0, <2>1, <3>1, <3>2, <3>3, PortsReleased
  <2>3. CASE l \notin instances
    <3>1. instances' = instances /\ allocated' = allocated
      BY <1>5, <2>0, <2>3 DEF MarkStopped
    <3>2. \A m \in Launches : Holds(m)' = Holds(m)
      BY <2>1, <3>1 DEF Holds
    <3> QED
      BY <1>0, <2>1, <3>1, <3>2, PortsKept
  <2> QED
    BY <2>2, <2>3
<1>6. ASSUME UNCHANGED <<allocated, port, cdpPort>>,
             \A l \in Launches :
               (launch[l] \in Preparing \/ l \in instances)'
                 = (launch[l] \in Preparing \/ l \in instances)
      PROVE  Ports'
  <2>1. \A m \in Launches : Holds(m)' = Holds(m)
    BY <1>6 DEF Holds
  <2> QED
    BY <1>0, <1>6, <2>1, PortsKept
<1>7. ASSUME NEW l \in Launches, LaunchCheck(l) \/ LaunchRun(l)
      PROVE  Ports'
  <2>1. /\ UNCHANGED <<allocated, port, cdpPort, instances>>
        /\ launch[l] \in Preparing
        /\ \E k \in Preparing : launch' = [launch EXCEPT ![l] = k]
    BY <1>7 DEF LaunchCheck, LaunchRun, Goto
  <2> QED
    BY <1>0, <1>6, <2>1 DEF TypeOK
<1>8. ASSUME NEW l \in Launches, LaunchInsert(l)
      PROVE  Ports'
  <2>1. /\ UNCHANGED <<allocated, port, cdpPort>>
        /\ launch[l] \in Preparing /\ instances' = instances \cup {l}
        /\ launch' = [launch EXCEPT ![l] = "done"]
    BY <1>8 DEF LaunchInsert, Goto
  <2> QED
    BY <1>0, <1>6, <2>1 DEF TypeOK
<1>9. CASE UNCHANGED <<portVars, launchVars, instances>>
  BY <1>6, <1>9
<1>10. ASSUME NEW l \in Launches, ProcessListen(l) \/ ProcessExit(l) \/ MonitorStep(l)
       PROVE  Ports'
  BY <1>9, <1>10 DEF ProcessListen, ProcessExit, MonitorStep, Observe, Settle, Reap
<1>11. ASSUME NEW s \in Stoppers, NEW l \in Launches, StopBegin(s, l) \/ ForceShutdown(s, l)
       PROVE  Ports'
  BY <1>9, <1>11 DEF StopBegin, ForceShutdown
<1>12. ASSUME NEW s \in Stoppers,
              StopExited(s) \/ StopEscalate(s) \/ StopGiveUp(s) \/ Unregister(s)
       PROVE  Ports'
  BY <1>9, <1>12 DEF StopExited, StopEscalate, StopGiveUp, Unregister
<1>13. CASE UNCHANGED vars
  BY <1>9, <1>13 DEF vars
<1> QED
  BY <1>2, <1>3, <1>4, <1>5, <1>7, <1>8, <1>10, <1>11, <1>12, <1>13
     DEF Next, LaunchStep, StopStep

----------------------------------------------------------------------------------
(* Monitors, Stop calls and the registry.                                  *)

LEMMA InitRegistry == Init => Registry
BY DEF Init, Registry, Watched, Held, RegisteredIsTracked, Waits

LEMMA RegistryStep == IInv /\ [Next]_vars => Registry'
<1> SUFFICES ASSUME IInv, [Next]_vars PROVE Registry'
  OBVIOUS
<1> USE DEF TypeOK, Registry, Watched, Held, RegisteredIsTracked, Waits,
            launchVars, tableVars, processVars, watchVars, stopVars
<1>0. TypeOK /\ Registry /\ Targets
  BY DEF IInv
<1>1. ASSUME NEW l \in Launches, NEW k,
             launch[l] # "done", launch' = [launch EXCEPT ![l] = k],
             UNCHANGED <<tableVars, killed, watchVars, stopVars>>
      PROVE  Registry'
  BY <1>0, <1>1
<1>2. ASSUME NEW l \in Launches, NEW n \in Profiles, NEW r \in Requests,
             LaunchReserve(l, n, r)
      PROVE  Registry'
  BY <1>1, <1>2 DEF LaunchReserve, Goto
<1>3. ASSUME NEW l \in Launches,
             LaunchCheck(l) \/ LaunchDebugPort(l) \/ LaunchRun(l) \/ LaunchAbort(l)
      PROVE  Registry'
  BY <1>1, <1>3 DEF LaunchCheck, LaunchDebugPort, LaunchRun, LaunchAbort, Goto
<1>4. ASSUME NEW l \in Launches, LaunchInsert(l)
      PROVE  Registry'
  <2>1. \A s \in Stoppers : stop[s] # "idle" => target[s] # l
    BY <1>0, <1>4 DEF LaunchInsert, Targets
  <2> QED
    BY <1>0, <1>4, <2>1 DEF LaunchInsert, Goto
<1>5. ASSUME NEW l \in Launches, ProcessListen(l) \/ ProcessExit(l) \/ Observe(l)
      PROVE  Registry'
  BY <1>0, <1>5 DEF ProcessListen, ProcessExit, Observe
<1>6. ASSUME NEW l \in Launches, Settle(l)
      PROVE  Registry'
  <2>1. CASE status[l] \in {"stopping", "stopped"}
    BY <1>0, <1>6, <2>1 DEF Settle
  <2>2. CASE status[l] \notin {"stopping", "stopped"}
    <3>1. l \in instances \/ l \in killed
      BY <1>0, <1>6, <2>2 DEF Settle
    <3>2. \A s \in Stoppers :
            stop[s] \in Waits \cup {"release"} /\ target[s] = l => l \in killed
      BY <1>0, <2>2
    <3>3. registry' \in {registry, registry \cup {l}}
      BY <1>6, <2>2 DEF Settle
    <3>4. \A m \in Launches \ {l} : status'[m] = status[m]
      BY <1>0, <1>6, <2>2 DEF Settle
    <3>5. Watched'
      BY <1>0, <1>6, <3>1, <3>4 DEF Settle
    <3>6. Held'
      BY <1>0, <1>6, <3>2, <3>4 DEF Settle, Targets
    <3>7. RegisteredIsTracked'
      BY <1>0, <1>6, <3>1, <3>3 DEF Settle
    <3> QED
      BY <3>5, <3>6, <3>7
  <2> QED
    BY <2>1, <2>2
<1>7. ASSUME NEW l \in Launches, Reap(l)
      PROVE  Registry'
  BY <1>0, <1>7 DEF Reap, Targets
<1>8. ASSUME NEW s \in Stoppers, NEW l \in Launches, StopBegin(s, l) \/ ForceShutdown(s, l)
      PROVE  Registry'
  <2>1. launch[l] = "done"
    BY <1>8 DEF StopBegin, ForceShutdown, IInv, Chosen
  <2> QED
    BY <1>0, <1>8, <2>1 DEF StopBegin, ForceShutdown, StopGoto, Targets
<1>9. ASSUME NEW s \in Stoppers, StopExited(s) \/ StopEscalate(s)
      PROVE  Registry'
  BY <1>0, <1>9 DEF StopExited, StopEscalate, StopGoto, Targets
<1>10. ASSUME NEW s \in Stoppers, StopGiveUp(s)
       PROVE  Registry'
  BY <1>0, <1>10 DEF StopGiveUp, StopGoto, Targets
<1>11. ASSUME NEW s \in Stoppers, MarkStopped(s)
       PROVE  Registry'
  BY <1>0, <1>11 DEF MarkStopped, StopGoto, Targets
<1>12. ASSUME NEW s \in Stoppers, Unregister(s)
       PROVE  Registry'
  BY <1>0, <1>12 DEF Unregister, StopGoto, Targets
<1>13. CASE UNCHANGED vars
  BY <1>0, <1>13 DEF vars
<1> QED
  BY <1>2, <1>3, <1>4, <1>5, <1>6, <1>7, <1>8, <1>9, <1>10, <1>11, <1>12, <1>13
     DEF Next, LaunchStep, MonitorStep, StopStep

----------------------------------------------------------------------------------
(* The results.                                                            *)

LEMMA Invariance == Spec => []IInv
<1>1. Init => IInv
  BY InitType, InitControl, InitRegistry DEF IInv
<1>2. IInv /\ [Next]_vars => IInv'
  BY TypeStep, ControlStep, PortsStep, RegistryStep DEF IInv
<1> QED
  BY <1>1, <1>2, PTL DEF Spec

(* Every variable keeps its type, whatever the calls do.                   *)
THEOREM Types == Spec => []TypeOK
<1>1. IInv => TypeOK
  BY DEF IInv
<1> QED
  BY <1>1, Invariance, PTL

(* No port is lost, or released while it is in use: AllocatePort,          *)
(* LaunchWithOptions with its error paths, and markStopped.                *)
THEOREM Accounting == Spec => []NoPortLost
<1>1. IInv => NoPortLost
  BY DEF IInv, Ports
<1> QED
  BY <1>1, Invariance, PTL

(* No two instances own one port of the range.                             *)
THEOREM Exclusion == Spec => []PortsExclusive
<1>1. IInv => PortsExclusive
  BY DEF IInv, Ports
<1> QED
  BY <1>1, Invariance, PTL

(* No living child process is out of reach of Stop and Shutdown, unless it *)
(* was sent SIGKILL.                                                       *)
THEOREM Reachable == Spec => []NoOrphan
<1>1. IInv => NoOrphan
  BY DEF IInv
<1> QED
  BY <1>1, Invariance, PTL

(* Routing finds only instances of the table, but for markStopped's second *)
(* step and instances sent SIGKILL.                                        *)
THEOREM Registration == Spec => []RegisteredIsTracked
<1>1. IInv => RegisteredIsTracked
  BY DEF IInv, Registry
<1> QED
  BY <1>1, Invariance, PTL

(* What one step does to an instance that is being stopped.                *)
Ends == \A l \in Launches :
          status[l] = "stopping" /\ status'[l] # "stopping"
            => status'[l] \in {"stopped", "error"}

LEMMA StoppingStep == IInv /\ [Next]_vars => [Ends]_vars
<1> SUFFICES ASSUME IInv, Next PROVE Ends
  OBVIOUS
<1>0. TypeOK /\ Watched /\ Targets
  BY DEF IInv, Registry
<1> USE DEF TypeOK, tableVars, Ends
<1>1. ASSUME NEW l \in Launches, NEW n \in Profiles, NEW r \in Requests,
             LaunchReserve(l, n, r)
      PROVE  Ends
  BY <1>1 DEF LaunchReserve
<1>2. ASSUME NEW l \in Launches, LaunchStep(l)
      PROVE  Ends
  BY <1>0, <1>2 DEF LaunchStep, LaunchCheck, LaunchDebugPort, LaunchRun,
                    LaunchInsert, LaunchAbort, Watched
<1>3. ASSUME NEW l \in Launches, ProcessListen(l) \/ ProcessExit(l)
      PROVE  Ends
  BY <1>3 DEF ProcessListen, ProcessExit
<1>4. ASSUME NEW l \in Launches, MonitorStep(l)
      PROVE  Ends
  BY <1>0, <1>4 DEF MonitorStep, Observe, Settle, Reap
<1>5. ASSUME NEW s \in Stoppers, NEW l \in Launches, StopBegin(s, l) \/ ForceShutdown(s, l)
      PROVE  Ends
  BY <1>0, <1>5 DEF StopBegin, ForceShutdown
<1>6. ASSUME NEW s \in Stoppers, StopStep(s)
      PROVE  Ends
  BY <1>0, <1>6 DEF StopStep, StopExited, StopEscalate, StopGiveUp, MarkStopped, Unregister
<1> QED
  BY <1>1, <1>2, <1>3, <1>4, <1>5, <1>6 DEF Next

(* The monitor does not undo a Stop: Settle, Reap and setStopError are     *)
(* what may end "stopping".                                                *)
THEOREM StopHolds == Spec => StoppingOnlyEnds
BY StoppingStep, Invariance, PTL DEF Spec, StoppingOnlyEnds, Ends

LEMMA ExhaustionFound == IInv => ExhaustionIsReal
<1> SUFFICES ASSUME PortTypeOK, NEW p \in Usable, p \notin allocated
             PROVE  Hits(Usable) # {}
  BY DEF IInv, TypeOK, ExhaustionIsReal
<1>1. PICK k \in Tries : Candidate(k) = p
  BY EveryPortTried DEF Usable
<1> QED
  BY <1>1 DEF Hits

(* A search fails only when no port of the range is free and usable:       *)
(* AllocatePort's wrap-around misses none.                                 *)
THEOREM Exhaustion == Spec => []ExhaustionIsReal
BY ExhaustionFound, Invariance, PTL

----------------------------------------------------------------------------------
(* The refinement.                                                         *)

(* A monitor announces in order, each instance of the table has one, and   *)
(* an instance is stopped only when its process has ended.                 *)
Paced ==
  \A l \in Launches :
    /\ monitor[l] \notin {"waiting", "done"} => announced[l] = {} /\ status[l] # "running"
    /\ l \in instances => monitor[l] # "none"
    /\ launch[l] # "done" => monitor[l] = "none"
    /\ status[l] = "stopped" => process[l] = "exited"

LEMMA PacedStep == IInv /\ Paced /\ [Next]_vars => Paced'
<1> SUFFICES ASSUME IInv, Paced, [Next]_vars PROVE Paced'
  OBVIOUS
<1>0. TypeOK /\ Watched /\ Targets /\ Chosen
  BY DEF IInv, Registry
<1> USE <1>0 DEF TypeOK, Paced, Watched, Waits, launchVars, tableVars, processVars, watchVars
<1>1. ASSUME NEW l \in Launches, NEW k, launch[l] # "done", launch' = [launch EXCEPT ![l] = k],
             \/ UNCHANGED process
             \/ process' = [process EXCEPT ![l] = "spawned"],
             UNCHANGED <<tableVars, watchVars>>
      PROVE  Paced'
  BY <1>1
<1>2. ASSUME NEW l \in Launches, NEW n \in Profiles, NEW r \in Requests, LaunchReserve(l, n, r)
      PROVE  Paced'
  BY <1>1, <1>2 DEF LaunchReserve, Goto
<1>3. ASSUME NEW l \in Launches,
             LaunchCheck(l) \/ LaunchDebugPort(l) \/ LaunchRun(l) \/ LaunchAbort(l)
      PROVE  Paced'
  BY <1>1, <1>3 DEF LaunchCheck, LaunchDebugPort, LaunchRun, LaunchAbort, Goto
<1>4. ASSUME NEW l \in Launches, LaunchInsert(l) PROVE Paced'
  BY <1>4 DEF LaunchInsert, Goto
<1>5. ASSUME NEW l \in Launches, ProcessListen(l) \/ ProcessExit(l) \/ Observe(l) PROVE Paced'
  BY <1>5 DEF ProcessListen, ProcessExit, Observe, Active
<1>6. ASSUME NEW l \in Launches, Settle(l) PROVE Paced'
  BY <1>6 DEF Settle
<1>7. ASSUME NEW l \in Launches, Reap(l) PROVE Paced'
  BY <1>7 DEF Reap
<1>8. ASSUME NEW s \in Stoppers, NEW l \in Launches, StopBegin(s, l) \/ ForceShutdown(s, l)
      PROVE  Paced'
  BY <1>8 DEF StopBegin, ForceShutdown
<1>9. ASSUME NEW s \in Stoppers,
             StopExited(s) \/ StopEscalate(s) \/ MarkStopped(s) \/ Unregister(s)
      PROVE  Paced'
  BY <1>9 DEF StopExited, StopEscalate, MarkStopped, Unregister
<1>10. ASSUME NEW s \in Stoppers, StopGiveUp(s) PROVE Paced'
  BY <1>10 DEF StopGiveUp
<1>11. CASE UNCHANGED vars
  BY <1>11 DEF vars
<1> QED
  BY <1>2, <1>3, <1>4, <1>5, <1>6, <1>7, <1>8, <1>9, <1>10, <1>11
     DEF Next, LaunchStep, MonitorStep, StopStep

(* The status listeners see.                                               *)
Seen == [l \in Launches |-> IF monitor[l] = "none" THEN "absent" ELSE status[l]]

LEMMA LifecycleStep ==
  IInv /\ Paced /\ [Next]_vars => [Lifecycle!LifecycleNext]_(Lifecycle!lifecycleVars)
<1> SUFFICES ASSUME IInv, Paced, [Next]_vars
             PROVE  [Lifecycle!LifecycleNext]_(Lifecycle!lifecycleVars)
  OBVIOUS
<1> DEFINE Same == UNCHANGED <<Seen, instances, announced>>
           Does == Same \/ \E l \in Launches : Lifecycle!LifecycleStep(l)
<1>0. TypeOK /\ Watched /\ Targets /\ Chosen /\ Paced
  BY DEF IInv, Registry
<1> USE DEF TypeOK, Seen, Lifecycle!Become, Lifecycle!Announce
<1>1. ASSUME NEW l \in Launches, LaunchInsert(l) PROVE Lifecycle!Launched(l)
  BY <1>0, <1>1 DEF LaunchInsert, Lifecycle!Launched, Paced
<1>2. ASSUME NEW l \in Launches, Settle(l)
      PROVE  Lifecycle!Ready(l) \/ Lifecycle!Failed(l) \/ Same
  <2>1. announced[l] = {} /\ Seen[l] = status[l] /\ status[l] # "running"
    BY <1>0, <1>2 DEF Settle, Paced
  <2>2. CASE status[l] \in {"stopping", "stopped"}
    BY <1>0, <1>2, <2>2 DEF Settle
  <2>3. CASE status[l] \notin {"stopping", "stopped"}
    BY <1>0, <1>2, <2>1, <2>3 DEF Settle, Lifecycle!Ready, Lifecycle!Failed, Lifecycle!Unsettled, Statuses
  <2> QED
    BY <2>2, <2>3
<1>3. ASSUME NEW l \in Launches, Reap(l) PROVE Lifecycle!Exited(l) \/ Same
  BY <1>0, <1>3 DEF Reap, Lifecycle!Exited
<1>4. ASSUME NEW s \in Stoppers, NEW l \in Launches, StopBegin(s, l)
      PROVE  Lifecycle!StopAsked(l) \/ Same
  BY <1>0, <1>4 DEF StopBegin, Paced, Active, watchVars, Lifecycle!StopAsked, Lifecycle!Present
<1>5. ASSUME NEW s \in Stoppers, NEW l \in Launches, l = target[s], StopGiveUp(s)
      PROVE  Lifecycle!StopFailed(l) \/ Same
  BY <1>0, <1>5 DEF StopGiveUp, Paced, Active, watchVars, Lifecycle!StopFailed, Lifecycle!Present
<1>6. ASSUME NEW s \in Stoppers, MarkStopped(s) PROVE Lifecycle!Removed(target[s]) \/ Same
  BY <1>0, <1>6 DEF MarkStopped, watchVars, Lifecycle!Removed
<1>7. ASSUME NEW s \in Stoppers, StopGiveUp(s) \/ MarkStopped(s) PROVE target[s] \in Launches
  BY <1>0, <1>7 DEF StopGiveUp, MarkStopped, Targets
<1>8. ASSUME NEW l \in Launches, Observe(l) PROVE Same
  BY <1>0, <1>8 DEF Observe, tableVars
<1>9. ASSUME UNCHANGED <<tableVars, monitor, announced>> PROVE Same
  BY <1>0, <1>9 DEF tableVars
<1>10. ASSUME NEW l \in Launches,
              \/ \E n \in Profiles, r \in Requests : LaunchReserve(l, n, r)
              \/ LaunchCheck(l) \/ LaunchDebugPort(l) \/ LaunchRun(l) \/ LaunchAbort(l)
              \/ ProcessListen(l) \/ ProcessExit(l)
       PROVE  UNCHANGED <<tableVars, monitor, announced>>
  BY <1>0, <1>10 DEF LaunchReserve, LaunchCheck, LaunchDebugPort, LaunchRun, LaunchAbort,
     ProcessListen, ProcessExit, watchVars
<1>11. ASSUME NEW s \in Stoppers,
              \/ \E l \in Launches : ForceShutdown(s, l)
              \/ StopExited(s) \/ StopEscalate(s) \/ Unregister(s)
       PROVE  UNCHANGED <<tableVars, monitor, announced>>
  BY <1>0, <1>11 DEF ForceShutdown, StopExited, StopEscalate, Unregister, watchVars
<1>12. ASSUME UNCHANGED vars PROVE Same
  BY <1>0, <1>9, <1>12 DEF vars, watchVars
<1> HIDE DEF Same
<1>13. ASSUME NEW l \in Launches,
              \/ Lifecycle!Launched(l) \/ Lifecycle!Ready(l) \/ Lifecycle!Failed(l)
              \/ Lifecycle!Exited(l) \/ Lifecycle!StopAsked(l) \/ Lifecycle!StopFailed(l)
              \/ Lifecycle!Removed(l)
       PROVE  Does
  BY <1>13 DEF Lifecycle!LifecycleStep
<1>14. Same => Does
  OBVIOUS
<1>15. Does
  <2> HIDE DEF Does
  <2>1. \A l \in Launches : MonitorStep(l) \/ LaunchStep(l) \/ ProcessListen(l) \/ ProcessExit(l) => Does
    BY <1>1, <1>2, <1>3, <1>8, <1>9, <1>10, <1>13, <1>14 DEF LaunchStep, MonitorStep
  <2>2. \A s \in Stoppers : StopStep(s) => Does
    <3> SUFFICES ASSUME NEW s \in Stoppers, StopStep(s) PROVE Does
      OBVIOUS
    <3>1. CASE StopGiveUp(s)
      <4>1. PICK l \in Launches : l = target[s]
        BY <1>7, <3>1
      <4>2. Lifecycle!StopFailed(l) \/ Same
        BY <1>5, <3>1, <4>1
      <4> QED
        BY <1>13, <1>14, <4>2
    <3>2. CASE MarkStopped(s)
      <4>1. Lifecycle!Removed(target[s]) \/ Same
        BY <1>6, <3>2
      <4>2. target[s] \in Launches
        BY <1>7, <3>2
      <4> QED
        BY <1>13, <1>14, <4>1, <4>2
    <3>3. CASE StopExited(s) \/ StopEscalate(s) \/ Unregister(s)
      BY <1>9, <1>11, <1>14, <3>3
    <3> QED
      BY <3>1, <3>2, <3>3 DEF StopStep
  <2>3. \A s \in Stoppers, l \in Launches : StopBegin(s, l) \/ ForceShutdown(s, l) => Does
    BY <1>4, <1>9, <1>11, <1>13, <1>14
  <2> QED
    BY <2>1, <2>2, <2>3, <1>9, <1>10, <1>12, <1>14 DEF Next
<1> QED
  BY <1>15 DEF Lifecycle!LifecycleNext, Lifecycle!lifecycleVars, Same

(* The orchestrator implements the lifecycle its listeners rely on, for    *)
(* any number of launches, Stop calls and ports.                           *)
THEOREM Refinement == Spec => ImplementsLifecycle
<1>1. Init => Paced /\ Lifecycle!LifecycleInit
  BY DEF Init, Paced, Lifecycle!LifecycleInit
<1> QED
  BY <1>1, LifecycleStep, PacedStep, Invariance, PTL
     DEF Spec, ImplementsLifecycle, Lifecycle!LifecycleSpec

==================================================================================
