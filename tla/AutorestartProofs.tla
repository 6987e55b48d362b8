---------------------------- MODULE AutorestartProofs ----------------------------
(***************************************************************************)
(* For any number of instances and any restart limit: the types, that one  *)
(* goroutine restarts at a time, the budget of restarts, that restarts     *)
(* wait while the doublings fit the integer, and that no live instance is  *)
(* left behind.                                                            *)
(***************************************************************************)
EXTENDS AutorestartProperties, FiniteSetTheorems, TLAPS

Handling == Busy \cup {"crash", "backoff"}

(* Who may be in the strategy's code: launchInitial until an instance is   *)
(* managed, and then only the monitor of the managed instance.             *)
Owner ==
  /\ handler[Starter] \in {"none", "launch", "record"}
  /\ handler[Starter] # "none" => managed = NoInstance
  /\ \A i \in Instances : handler[i] \in Handling => managed = i

(* A monitor in the handler announces nothing: its instance has ended.     *)
Ended ==
  \A i \in Instances : handler[i] # "none" =>
    status[i] \in {"stopping", "error", "stopped"} /\ announced[i] # {}

(* An instance that runs, or may still come to run, is managed or about to *)
(* be recorded: one may run after a Stop that failed.                      *)
Attached ==
  \A i \in Instances :
    /\ status[i] \in {"absent", "starting"} => announced[i] = {}
    /\ i \in listed => status[i] # "absent"
    /\ status[i] = "running" \/ (status[i] # "absent" /\ announced[i] = {}) =>
         i = managed \/ \E g \in Goroutines : fresh[g] = i

(* A launched instance is remembered until it is recorded.                 *)
Remembered ==
  /\ \A g \in Goroutines : handler[g] = "record" <=> fresh[g] # NoInstance
  /\ \A i \in Instances : old[i] # NoInstance <=> handler[i] = "stopping"

(* Every recorded restart was counted before, but for one whose count a    *)
(* reset has taken back; the count was looked at when the restart began.   *)
Counted ==
  /\ relaunches <= restartCount
  /\ \A i \in Instances :
       /\ handler[i] = "backoff" => attempt[i] >= 1
       /\ restartCount > 0 =>
            /\ handler[i] \in Busy \cup {"backoff"} => relaunches < restartCount
            /\ handler[i] = "backoff" => relaunches < attempt[i]
            /\ handler[i] \in Busy /\ HasRestartLimit => relaunches < MaxRestarts

IInv == TypeOK /\ Owner /\ Ended /\ Remembered /\ Attached /\ Counted /\ RestartBudget

----------------------------------------------------------------------------------
LEMMA NewIdUnused ==
  ASSUME Unused # {}
  PROVE  NewId \in Instances /\ status[NewId] = "absent"
BY DEF Unused, NewId

LEMMA InitIInv == Init => IInv
<1> SUFFICES ASSUME Init PROVE IInv
  OBVIOUS
<1> USE AutorestartAssumption DEF Init, LifecycleInit, Goroutines
<1>1. TypeOK
  BY DEF TypeOK, LifecycleTypeOK, CountTypeOK, CallTypeOK, Busy
<1>2. Owner /\ Ended /\ Attached
  BY DEF Owner, Ended, Attached, Busy, Handling
<1>3. Remembered
  BY DEF Remembered
<1>4. Counted /\ RestartBudget
  BY DEF Counted, RestartBudget, Busy, HasRestartLimit
<1> QED
  BY <1>1, <1>2, <1>3, <1>4 DEF IInv

(* The strategy takes only the steps of the lifecycle.                     *)
LEMMA LifecycleKept ==
  IInv /\ [Next]_vars => [LifecycleNext]_lifecycleVars
<1> SUFFICES ASSUME IInv, [Next]_vars
             PROVE  [LifecycleNext]_lifecycleVars
  OBVIOUS
<1> USE DEF LifecycleStep
<1>1. ASSUME NEW i \in Instances, Settles(i) \/ UserStop(i) PROVE LifecycleStep(i)
  BY <1>1 DEF Settles, UserStop
<1>2. ASSUME NEW i \in Instances, RestartBegin(i)
      PROVE  (LifecycleStep(managed) /\ managed \in Instances) \/ UNCHANGED lifecycleVars
  BY <1>2 DEF RestartBegin, IInv, TypeOK, LifecycleTypeOK
<1>3. ASSUME NEW i \in Instances, RestartStopped(i)
      PROVE  (LifecycleStep(old[i]) /\ old[i] \in Instances) \/ UNCHANGED lifecycleVars
  BY <1>3 DEF RestartStopped, IInv, TypeOK, LifecycleTypeOK, Removed, StopFailed, Present
<1>4. ASSUME NEW g \in Goroutines, Launch(g) PROVE LifecycleStep(NewId) /\ NewId \in Instances
  BY <1>4, NewIdUnused DEF Launch
<1>5. CASE UNCHANGED lifecycleVars
  BY <1>5
<1>6. ASSUME NEW i \in Instances, HandleEvent(i) \/ HandleCrash(i) \/ GiveUp(i) \/ BackoffEnds(i)
      PROVE  UNCHANGED lifecycleVars
  BY <1>6 DEF HandleEvent, HandleCrash, GiveUp, BackoffEnds
<1>7. ASSUME NEW g \in Goroutines, LaunchFails(g) \/ Record(g) PROVE UNCHANGED lifecycleVars
  BY <1>7 DEF LaunchFails, Record
<1> QED
  BY <1>1, <1>2, <1>3, <1>4, <1>5, <1>6, <1>7
     DEF Next, HandlerStep, LauncherStep, vars, LaunchInitialSkipped, ResetCount, StrategyStop,
         LifecycleNext

LEMMA TypeStep == IInv /\ [Next]_vars => TypeOK'
<1> SUFFICES ASSUME IInv, [Next]_vars PROVE TypeOK'
  OBVIOUS
<1>0. TypeOK
  BY DEF IInv
<1> USE <1>0, AutorestartAssumption DEF TypeOK, Goto, Become, Announce, Goroutines, Busy,
    stateVars, callVars, lifecycleVars
<1>1. LifecycleTypeOK'
  <2> USE DEF LifecycleTypeOK
  <2>1. ASSUME NEW i \in Instances, LifecycleStep(i) PROVE LifecycleTypeOK'
    BY <2>1 DEF LifecycleStep, Launched, Ready, Failed, Exited, StopAsked, StopFailed, Removed
  <2>2. CASE UNCHANGED lifecycleVars
    BY <2>2
  <2> QED
    BY <2>1, <2>2, LifecycleKept DEF LifecycleNext
<1>2. CountTypeOK'
  <2> USE DEF CountTypeOK
  <2>1. ASSUME NEW i \in Instances, HandleCrash(i) PROVE CountTypeOK'
    BY <2>1 DEF HandleCrash
  <2>2. ASSUME NEW g \in Goroutines, Record(g) PROVE CountTypeOK'
    BY <2>2 DEF Record
  <2>3. CASE ResetCount
    BY <2>3 DEF ResetCount
  <2>4. CASE UNCHANGED <<restartCount, relaunches>>
    BY <2>4
  <2> QED
    BY <2>1, <2>2, <2>3, <2>4 DEF Next, vars, Settles, UserStop, HandlerStep, HandleEvent,
       GiveUp, BackoffEnds, RestartBegin, RestartStopped, LauncherStep, Launch, LaunchFails,
       LaunchInitialSkipped, StrategyStop
<1>3. CallTypeOK' /\ (managed \in Instances \cup {NoInstance})'
                 /\ (restarting \in BOOLEAN /\ deliberate \in BOOLEAN)'
  <2> DEFINE T == CallTypeOK /\ managed \in Instances \cup {NoInstance}
                  /\ restarting \in BOOLEAN /\ deliberate \in BOOLEAN
  <2> USE DEF CallTypeOK
  <2>1. ASSUME NEW i \in Instances, Settles(i) PROVE T'
    BY <2>1 DEF Settles
  <2>2. ASSUME NEW i \in Instances, HandleEvent(i) \/ GiveUp(i) \/ BackoffEnds(i) PROVE T'
    <3>1. CASE HandleEvent(i)
      BY <3>1 DEF HandleEvent
    <3>2. CASE GiveUp(i)
      BY <3>2 DEF GiveUp
    <3>3. CASE BackoffEnds(i)
      BY <3>3 DEF BackoffEnds
    <3> QED
      BY <2>2, <3>1, <3>2, <3>3
  <2>3. ASSUME NEW i \in Instances, HandleCrash(i) PROVE T'
    <3>1. restartCount + 1 \in Nat
      BY DEF CountTypeOK
    <3>2. UNCHANGED <<managed, deliberate, old, fresh>>
      BY <2>3 DEF HandleCrash
    <3>3. CASE Goto(i, "none") /\ UNCHANGED <<restarting, attempt>>
      BY <3>2, <3>3
    <3> DEFINE n == restartCount + 1
    <3>4. CASE restarting' = TRUE /\ attempt' = [attempt EXCEPT ![i] = n] /\ Goto(i, "backoff")
      <4>1. n \in Nat
        BY <3>1
      <4> HIDE DEF n
      <4> QED
        BY <3>2, <3>4, <4>1
    <3> QED
      BY <2>3, <3>3, <3>4 DEF HandleCrash
  <2>4. ASSUME NEW i \in Instances, RestartBegin(i) PROVE T'
    <3>1. PICK l \in {"none", "launch", "stopping"} : Goto(i, l)
      BY <2>4 DEF RestartBegin
    <3>2. restarting' \in BOOLEAN
      BY <2>4 DEF RestartBegin
    <3>3. UNCHANGED <<managed, deliberate, attempt, fresh>>
      BY <2>4 DEF RestartBegin
    <3>4. old' \in [Instances -> Instances \cup {NoInstance}]
      BY <2>4 DEF RestartBegin
    <3> QED
      BY <3>1, <3>2, <3>3, <3>4
  <2>5. ASSUME NEW i \in Instances, RestartStopped(i) PROVE T'
    BY <2>5 DEF RestartStopped
  <2>6. ASSUME NEW g \in Goroutines, Launch(g) PROVE T'
    BY <2>6, NewIdUnused DEF Launch
  <2>7. ASSUME NEW g \in Goroutines, LaunchFails(g) PROVE T'
    BY <2>7 DEF LaunchFails
  <2>8. ASSUME NEW g \in Goroutines, Record(g) PROVE T'
    BY <2>8 DEF Record
  <2>9. CASE LaunchInitialSkipped \/ ResetCount \/ StrategyStop
    BY <2>9 DEF LaunchInitialSkipped, ResetCount, StrategyStop
  <2>10. CASE UNCHANGED <<stateVars, callVars>>
    BY <2>10
  <2>11. ASSUME NEW i \in Instances, UserStop(i) PROVE T'
    BY <2>11 DEF UserStop
  <2> QED
    BY <2>1, <2>2, <2>3, <2>4, <2>5, <2>6, <2>7, <2>8, <2>9, <2>10, <2>11
       DEF Next, HandlerStep, LauncherStep, vars
<1> QED
  BY <1>1, <1>2, <1>3

----------------------------------------------------------------------------------
LEMMA OwnerStep == IInv /\ [Next]_vars => Owner'
<1> SUFFICES ASSUME IInv, [Next]_vars PROVE Owner'
  OBVIOUS
<1>0. CallTypeOK /\ Owner /\ managed \in Instances \cup {NoInstance}
  BY DEF IInv, TypeOK
<1> USE <1>0, AutorestartAssumption
    DEF CallTypeOK, Owner, Goto, Goroutines, Busy, Handling, stateVars, callVars
<1>1. ASSUME NEW i \in Instances, Settles(i) PROVE Owner'
  BY <1>1 DEF Settles
<1>2. ASSUME NEW i \in Instances, UserStop(i) PROVE Owner'
  BY <1>2 DEF UserStop
<1>3. ASSUME NEW i \in Instances, HandleEvent(i) PROVE Owner'
  BY <1>3 DEF HandleEvent, Ignored
<1>4. ASSUME NEW i \in Instances, HandleCrash(i) PROVE Owner'
  BY <1>4 DEF HandleCrash
<1>5. ASSUME NEW i \in Instances, GiveUp(i) \/ BackoffEnds(i) PROVE Owner'
  BY <1>5 DEF GiveUp, BackoffEnds
<1>6. ASSUME NEW i \in Instances, RestartBegin(i) PROVE Owner'
  BY <1>6 DEF RestartBegin
<1>7. ASSUME NEW i \in Instances, RestartStopped(i) PROVE Owner'
  BY <1>7 DEF RestartStopped
<1>8. ASSUME NEW g \in Goroutines, Launch(g) PROVE Owner'
  BY <1>8 DEF Launch
<1>9. ASSUME NEW g \in Goroutines, LaunchFails(g) PROVE Owner'
  BY <1>9 DEF LaunchFails
<1>10. ASSUME NEW g \in Goroutines, Record(g) PROVE Owner'
  <2>1. \A h \in Goroutines : h # g => handler[h] \notin Handling
    BY <1>10 DEF Record
  <2> QED
    BY <1>10, <2>1 DEF Record
<1>11. CASE LaunchInitialSkipped \/ ResetCount \/ StrategyStop
  BY <1>11 DEF LaunchInitialSkipped, ResetCount, StrategyStop
<1>12. CASE UNCHANGED vars
  BY <1>12 DEF vars
<1> QED
  BY <1>1, <1>2, <1>3, <1>4, <1>5, <1>6, <1>7, <1>8, <1>9, <1>10, <1>11, <1>12
     DEF Next, HandlerStep, LauncherStep

LEMMA EndedStep == IInv /\ [Next]_vars => Ended'
<1> SUFFICES ASSUME IInv, [Next]_vars, NEW i \in Instances, handler'[i] # "none"
             PROVE  status'[i] \in {"stopping", "error", "stopped"} /\ announced'[i] # {}
  BY DEF Ended
<1>0. CallTypeOK /\ LifecycleTypeOK /\ Ended
  BY DEF IInv, TypeOK
<1> USE <1>0, AutorestartAssumption
    DEF CallTypeOK, LifecycleTypeOK, Ended, Goto, Become, Announce, Goroutines, callVars,
        lifecycleVars
<1>1. ASSUME NEW j \in Instances, Settles(j)
      PROVE  status'[i] \in {"stopping", "error", "stopped"} /\ announced'[i] # {}
  BY <1>1 DEF Settles, Ready, Failed, Exited
<1>2. ASSUME handler[i] # "none",
             UNCHANGED lifecycleVars \/
             \E j \in Instances : Launched(j) \/ StopAsked(j) \/ StopFailed(j) \/ Removed(j)
      PROVE  status'[i] \in {"stopping", "error", "stopped"} /\ announced'[i] # {}
  BY <1>2 DEF Launched, StopAsked, StopFailed, Removed
<1>3. CASE \E j \in Instances : UserStop(j)
  BY <1>3, <1>2 DEF UserStop
<1>4. ASSUME NEW j \in Instances, RestartBegin(j)
      PROVE  status'[i] \in {"stopping", "error", "stopped"} /\ announced'[i] # {}
  <2>1. handler[i] # "none" /\ (UNCHANGED lifecycleVars \/ Removed(managed) \/ StopAsked(managed))
    BY <1>4 DEF RestartBegin
  <2> QED
    BY <1>2, <2>1 DEF Removed, StopAsked, Present
<1>5. ASSUME NEW j \in Instances, RestartStopped(j)
      PROVE  status'[i] \in {"stopping", "error", "stopped"} /\ announced'[i] # {}
  <2>1. handler[i] # "none" /\ (UNCHANGED lifecycleVars \/ Removed(old[j]) \/ StopFailed(old[j]))
    BY <1>5 DEF RestartStopped
  <2> QED
    BY <1>2, <2>1 DEF Removed, StopFailed, Present
<1>6. ASSUME NEW g \in Goroutines, Launch(g)
      PROVE  status'[i] \in {"stopping", "error", "stopped"} /\ announced'[i] # {}
  BY <1>2, <1>6, NewIdUnused DEF Launch
<1>7. CASE \/ \E j \in Instances : HandleEvent(j) \/ HandleCrash(j) \/ GiveUp(j) \/ BackoffEnds(j)
           \/ \E g \in Goroutines : LaunchFails(g) \/ Record(g)
           \/ LaunchInitialSkipped \/ ResetCount \/ StrategyStop \/ UNCHANGED vars
  <2>1. handler[i] # "none" /\ UNCHANGED lifecycleVars
    BY <1>7 DEF HandleEvent, HandleCrash, GiveUp, BackoffEnds, LaunchFails, Record,
       LaunchInitialSkipped, ResetCount, StrategyStop, vars
  <2> QED
    BY <1>2, <2>1
<1> QED
  BY <1>1, <1>3, <1>4, <1>5, <1>6, <1>7 DEF Next, HandlerStep, LauncherStep

LEMMA RememberedStep == IInv /\ [Next]_vars => Remembered'
<1> SUFFICES ASSUME IInv, [Next]_vars PROVE Remembered'
  OBVIOUS
<1>0. CallTypeOK /\ Owner /\ Remembered /\ managed \in Instances \cup {NoInstance}
  BY DEF IInv, TypeOK
<1> USE <1>0, AutorestartAssumption
    DEF CallTypeOK, Remembered, Goto, Goroutines, Busy, stateVars, callVars
<1>1. ASSUME NEW i \in Instances, Settles(i) PROVE Remembered'
  BY <1>1 DEF Settles
<1>2. ASSUME NEW i \in Instances, UserStop(i) PROVE Remembered'
  BY <1>2 DEF UserStop
<1>3. ASSUME NEW i \in Instances, HandleEvent(i) PROVE Remembered'
  BY <1>3 DEF HandleEvent
<1>4. ASSUME NEW i \in Instances, HandleCrash(i) PROVE Remembered'
  BY <1>4 DEF HandleCrash
<1>5. ASSUME NEW i \in Instances, GiveUp(i) \/ BackoffEnds(i) PROVE Remembered'
  BY <1>5 DEF GiveUp, BackoffEnds
<1>6. ASSUME NEW i \in Instances, RestartBegin(i) PROVE Remembered'
  <2>1. managed = i
    BY <1>6 DEF RestartBegin, Owner, Handling
  <2> QED
    BY <1>6, <2>1 DEF RestartBegin
<1>7. ASSUME NEW i \in Instances, RestartStopped(i) PROVE Remembered'
  BY <1>7 DEF RestartStopped
<1>8. ASSUME NEW g \in Goroutines, Launch(g) PROVE Remembered'
  BY <1>8, NewIdUnused DEF Launch
<1>9. ASSUME NEW g \in Goroutines, LaunchFails(g) PROVE Remembered'
  BY <1>9 DEF LaunchFails
<1>10. ASSUME NEW g \in Goroutines, Record(g) PROVE Remembered'
  BY <1>10 DEF Record
<1>11. CASE LaunchInitialSkipped \/ ResetCount \/ StrategyStop
  BY <1>11 DEF LaunchInitialSkipped, ResetCount, StrategyStop
<1>12. CASE UNCHANGED vars
  BY <1>12 DEF vars
<1> QED
  BY <1>1, <1>2, <1>3, <1>4, <1>5, <1>6, <1>7, <1>8, <1>9, <1>10, <1>11, <1>12
     DEF Next, HandlerStep, LauncherStep

(* Only Launch makes an instance live, and only Record changes managed.    *)
LEMMA AttachedStep == IInv /\ [Next]_vars => Attached'
<1> DEFINE Live(i) == status[i] = "running" \/ (status[i] # "absent" /\ announced[i] = {})
           Kept(i) == i = managed \/ \E g \in Goroutines : fresh[g] = i
           Clean(i) == /\ status[i] \in {"absent", "starting"} => announced[i] = {}
                       /\ i \in listed => status[i] # "absent"
<1> SUFFICES ASSUME IInv, [Next]_vars, NEW i \in Instances
             PROVE  Clean(i)' /\ (Live(i)' => Kept(i)')
  BY DEF Attached
<1>0. /\ CallTypeOK /\ LifecycleTypeOK /\ Owner /\ Ended /\ Remembered
      /\ Clean(i) /\ (Live(i) => Kept(i))
  BY DEF IInv, TypeOK, Attached
<1> USE <1>0, AutorestartAssumption DEF CallTypeOK, LifecycleTypeOK, Become, Announce
<1>1. ASSUME NEW g \in Goroutines, Launch(g) PROVE Clean(i)' /\ (Live(i)' => Kept(i)')
  <2>1. CASE i = NewId
    BY <1>1, <2>1, NewIdUnused DEF Launch, Launched, Goroutines
  <2>2. CASE i # NewId
    <3>1. /\ status'[i] = status[i] /\ announced'[i] = announced[i] /\ managed' = managed
          /\ i \in listed' => i \in listed
          /\ fresh[g] = NoInstance /\ fresh' = [fresh EXCEPT ![g] = NewId]
      BY <1>1, <2>2, NewIdUnused DEF Launch, Launched, Remembered, stateVars
    <3> QED
      BY <3>1
  <2> QED
    BY <2>1, <2>2
<1>2. ASSUME UNCHANGED <<managed, fresh>>, Clean(i)', Live(i)' => Live(i)
      PROVE  Clean(i)' /\ (Live(i)' => Kept(i)')
  BY <1>2
<1>3. ASSUME NEW g \in Goroutines, Record(g) PROVE Clean(i)' /\ (Live(i)' => Kept(i)')
  <2>1. UNCHANGED lifecycleVars
    BY <1>3 DEF Record
  <2>2. ASSUME Live(i) PROVE i # managed
    BY <1>3, <2>2 DEF Record, Owner, Ended, Goroutines, Handling, Busy
  <2>3. ASSUME Live(i) PROVE Kept(i)'
    <3>1. PICK h \in Goroutines : fresh[h] = i
      BY <2>2, <2>3
    <3> QED
      BY <1>3, <3>1 DEF Record
  <2> QED
    BY <2>1, <2>3 DEF lifecycleVars
<1>4. ASSUME NEW j \in Instances, Settles(j) PROVE Clean(i)' /\ (Live(i)' => Kept(i)')
  <2>1. UNCHANGED <<managed, fresh>> /\ (Ready(j) \/ Failed(j) \/ Exited(j))
    BY <1>4 DEF Settles, stateVars
  <2>2. Clean(i)' /\ (Live(i)' => Live(i))
    BY <2>1 DEF Ready, Failed, Exited, Unsettled
  <2> QED
    BY <1>2, <2>1, <2>2
<1>5. ASSUME NEW j \in Instances, StopAsked(j) \/ StopFailed(j) \/ Removed(j)
      PROVE  Clean(i)' /\ (Live(i)' => Live(i))
  <2>1. CASE Removed(j)
    BY <2>1 DEF Removed
  <2>2. CASE StopAsked(j)
    BY <2>2 DEF StopAsked, Present
  <2>3. CASE StopFailed(j)
    BY <2>3 DEF StopFailed, Present
  <2> QED
    BY <1>5, <2>1, <2>2, <2>3
<1>6. CASE \E j \in Instances : UserStop(j)
  BY <1>2, <1>5, <1>6 DEF UserStop, stateVars, callVars
<1>7. CASE UNCHANGED lifecycleVars /\ UNCHANGED <<managed, fresh>>
  BY <1>2, <1>7 DEF lifecycleVars
<1>8. ASSUME NEW j \in Instances, RestartBegin(j) PROVE Clean(i)' /\ (Live(i)' => Kept(i)')
  <2>1. /\ UNCHANGED <<managed, fresh>>
        /\ (UNCHANGED lifecycleVars \/ Removed(managed) \/ StopAsked(managed))
    BY <1>8 DEF RestartBegin
  <2>2. Removed(managed) \/ StopAsked(managed) => managed \in Instances
    BY DEF Removed, StopAsked, Present
  <2> QED
    BY <1>2, <1>5, <1>7, <2>1, <2>2
<1>9. ASSUME NEW j \in Instances, RestartStopped(j) PROVE Clean(i)' /\ (Live(i)' => Kept(i)')
  <2>1. /\ UNCHANGED <<managed, fresh>>
        /\ (UNCHANGED lifecycleVars \/ Removed(old[j]) \/ StopFailed(old[j]))
    BY <1>9 DEF RestartStopped, stateVars
  <2>2. Removed(old[j]) \/ StopFailed(old[j]) => old[j] \in Instances
    BY DEF Removed, StopFailed, Present
  <2> QED
    BY <1>2, <1>5, <1>7, <2>1, <2>2
<1>10. CASE \/ \E j \in Instances : HandleEvent(j) \/ HandleCrash(j) \/ GiveUp(j) \/ BackoffEnds(j)
            \/ \E g \in Goroutines : LaunchFails(g)
            \/ LaunchInitialSkipped \/ ResetCount \/ StrategyStop \/ UNCHANGED vars
  BY <1>7, <1>10 DEF HandleEvent, HandleCrash, GiveUp, BackoffEnds, LaunchFails,
     LaunchInitialSkipped, ResetCount, StrategyStop, vars, stateVars, callVars
<1> QED
  BY <1>1, <1>3, <1>4, <1>6, <1>8, <1>9, <1>10 DEF Next, HandlerStep, LauncherStep

LEMMA CountedStep == IInv /\ [Next]_vars => Counted' /\ RestartBudget'
<1> SUFFICES ASSUME IInv, [Next]_vars PROVE Counted' /\ RestartBudget'
  OBVIOUS
<1>0. CallTypeOK /\ CountTypeOK /\ Owner /\ Counted /\ RestartBudget
  BY DEF IInv, TypeOK
<1> USE <1>0, AutorestartAssumption
    DEF CallTypeOK, CountTypeOK, Counted, RestartBudget, HasRestartLimit, Goto, Goroutines, Busy
<1>1. ASSUME NEW i \in Instances, Settles(i) PROVE Counted' /\ RestartBudget'
  BY <1>1 DEF Settles, stateVars
<1>2. ASSUME NEW i \in Instances, HandleEvent(i) PROVE Counted' /\ RestartBudget'
  BY <1>2 DEF HandleEvent, stateVars
<1>3. ASSUME NEW i \in Instances, HandleCrash(i) PROVE Counted' /\ RestartBudget'
  <2>1. \A j \in Instances : j # i => handler[j] \notin Busy \cup {"backoff"}
    BY <1>3 DEF HandleCrash, Owner, Handling
  <2>2. CASE deliberate
    BY <1>3, <2>2 DEF HandleCrash
  <2>3. CASE ~deliberate
    <3>1. /\ restartCount' = restartCount + 1 /\ relaunches' = relaunches
          /\ handler' = [handler EXCEPT ![i] = "backoff"] /\ attempt'[i] = restartCount + 1
      BY <1>3, <2>3 DEF HandleCrash
    <3>2. \A j \in Instances : j # i => handler'[j] \notin Busy \cup {"backoff"}
      BY <2>1, <3>1
    <3>3. handler'[i] = "backoff"
      BY <3>1
    <3>4. \A j \in Instances : j # i => handler'[j] = handler[j] /\ attempt'[j] = attempt[j]
      BY <1>3, <2>3 DEF HandleCrash
    <3>5. Counted'
      BY <3>1, <3>2, <3>3, <3>4
    <3> QED
      BY <3>1, <3>5
  <2> QED
    BY <2>2, <2>3
<1>4. ASSUME NEW i \in Instances, GiveUp(i) PROVE Counted' /\ RestartBudget'
  BY <1>4 DEF GiveUp
<1>5. ASSUME NEW i \in Instances, BackoffEnds(i) PROVE Counted' /\ RestartBudget'
  BY <1>5 DEF BackoffEnds, Exhausted, stateVars
<1>6. ASSUME NEW i \in Instances, RestartBegin(i) PROVE Counted' /\ RestartBudget'
  BY <1>6 DEF RestartBegin
<1>7. ASSUME NEW i \in Instances, RestartStopped(i) PROVE Counted' /\ RestartBudget'
  BY <1>7 DEF RestartStopped, stateVars
<1>8. ASSUME NEW g \in Goroutines, Launch(g) PROVE Counted' /\ RestartBudget'
  BY <1>8 DEF Launch, stateVars
<1>9. ASSUME NEW g \in Goroutines, LaunchFails(g) PROVE Counted' /\ RestartBudget'
  BY <1>9 DEF LaunchFails
<1>10. ASSUME NEW g \in Goroutines, Record(g) PROVE Counted' /\ RestartBudget'
  <2>1. \A j \in Instances : j # g => handler[j] \notin Busy \cup {"backoff"}
    BY <1>10 DEF Record, Owner, Handling
  <2> QED
    BY <1>10, <2>1 DEF Record
<1>11. CASE LaunchInitialSkipped \/ ResetCount \/ StrategyStop \/ UNCHANGED vars
  BY <1>11 DEF LaunchInitialSkipped, ResetCount, StrategyStop, vars, stateVars, callVars
<1>12. ASSUME NEW i \in Instances, UserStop(i) PROVE Counted' /\ RestartBudget'
  BY <1>12 DEF UserStop, stateVars, callVars
<1> QED
  BY <1>1, <1>2, <1>3, <1>4, <1>5, <1>6, <1>7, <1>8, <1>9, <1>10, <1>11, <1>12
     DEF Next, HandlerStep, LauncherStep

----------------------------------------------------------------------------------
(* The arithmetic of the backoff.                                          *)

(* 2 ^ n as the number of subsets of a set of n elements; from it follows *)
(* what is needed of powers, without an induction.                         *)
LEMMA PowerCounts ==
  ASSUME NEW n \in Nat
  PROVE  IsFiniteSet(SUBSET (1 .. n)) /\ Cardinality(SUBSET (1 .. n)) = 2 ^ n
<1>1. IsFiniteSet(1 .. n) /\ Cardinality(1 .. n) = n
  BY FS_Interval
<1> QED
  BY <1>1, FS_SUBSET

(* Powers of two are positive, ...                                         *)
LEMMA PowerType == \A n \in Nat : 2 ^ n \in Nat /\ 2 ^ n >= 1
<1> SUFFICES ASSUME NEW n \in Nat PROVE 2 ^ n \in Nat /\ 2 ^ n >= 1
  OBVIOUS
<1>1. 2 ^ n \in Nat
  BY PowerCounts, FS_CardinalityType
<1>2. {} \in SUBSET (1 .. n)
  OBVIOUS
<1>3. 2 ^ n # 0
  BY <1>2, PowerCounts, FS_EmptySet
<1> QED
  BY <1>1, <1>3

(* ... grow with the exponent, ...                                         *)
LEMMA PowerMonotone == \A m, n \in Nat : m <= n => 2 ^ m <= 2 ^ n
<1> SUFFICES ASSUME NEW m \in Nat, NEW n \in Nat, m <= n PROVE 2 ^ m <= 2 ^ n
  OBVIOUS
<1>1. SUBSET (1 .. m) \in SUBSET (SUBSET (1 .. n))
  OBVIOUS
<1>2. Cardinality(SUBSET (1 .. m)) <= Cardinality(SUBSET (1 .. n))
  BY <1>1, PowerCounts, FS_Subset
<1> QED
  BY <1>2, PowerCounts

(* ... and at least double with each.                                      *)
LEMMA PowerDoubles == \A n \in Nat : 2 ^ n + 2 ^ n <= 2 ^ (n + 1)
<1> SUFFICES ASSUME NEW n \in Nat PROVE 2 ^ n + 2 ^ n <= 2 ^ (n + 1)
  OBVIOUS
<1> DEFINE S == SUBSET (1 .. n)
           T == {s \cup {n + 1} : s \in S}
           f == [s \in S |-> s \cup {n + 1}]
<1>1. IsFiniteSet(S) /\ Cardinality(S) = 2 ^ n
  BY PowerCounts
<1>2. \A s \in S : n + 1 \notin s
  OBVIOUS
<1>3. f \in Bijection(S, T)
  <2>1. f \in [S -> T] /\ \A t \in T : \E s \in S : f[s] = t
    OBVIOUS
  <2>2. ASSUME NEW r \in S, NEW s \in S, f[r] = f[s] PROVE r = s
    <3>1. r \cup {n + 1} = s \cup {n + 1}
      BY <2>2
    <3> QED
      BY <1>2, <3>1
  <2> QED
    BY <2>1, <2>2 DEF Bijection, Injection, Surjection, IsInjective
<1>4. IsFiniteSet(T) /\ Cardinality(T) = 2 ^ n
  BY <1>1, <1>3, FS_Bijection DEF ExistsBijection
<1>5. S \cap T = {}
  BY <1>2
<1>6. S \cup T \in SUBSET (SUBSET (1 .. n + 1))
  <2>1. \A i \in 1 .. n : i \in 1 .. n + 1
    OBVIOUS
  <2>2. n + 1 \in 1 .. n + 1
    OBVIOUS
  <2>3. \A s \in S : s \subseteq 1 .. n + 1 /\ s \cup {n + 1} \subseteq 1 .. n + 1
    BY <2>1, <2>2
  <2>4. ASSUME NEW x \in S \cup T PROVE x \subseteq 1 .. n + 1
    <3>1. CASE x \in S
      BY <2>3, <3>1
    <3>2. CASE x \in T
      <4>1. PICK s \in S : x = s \cup {n + 1}
        BY <3>2
      <4> QED
        BY <2>3, <4>1
    <3> QED
      BY <3>1, <3>2
  <2> HIDE DEF S, T
  <2> QED
    BY <2>4
<1>7. 2 ^ n \in Nat
  BY PowerType
<1> HIDE DEF S, T
<1>8. Cardinality(S \cup T) = 2 ^ n + 2 ^ n
  BY <1>1, <1>4, <1>5, <1>7, FS_Union, FS_EmptySet
<1>9. Cardinality(S \cup T) <= Cardinality(SUBSET (1 .. n + 1))
  BY <1>6, PowerCounts, FS_Subset
<1>10. \A m \in Nat : Cardinality(SUBSET (1 .. m)) = 2 ^ m
  BY PowerCounts
<1>11. Cardinality(SUBSET (1 .. n + 1)) = 2 ^ (n + 1)
  BY <1>10
<1> QED
  BY <1>8, <1>9, <1>11

(* Below the sign bit nothing wraps.                                       *)
LEMMA WrapKeeps ==
  ASSUME NEW n \in Nat, n < 2 ^ (Width - 1)
  PROVE  Wrap(n) = n
<1> DEFINE half == 2 ^ (Width - 1)
           whole == 2 ^ Width
<1>1. Width - 1 \in Nat /\ (Width - 1) + 1 = Width
  BY AutorestartAssumption
<1>2. half \in Nat /\ whole \in Nat
  BY <1>1, AutorestartAssumption, PowerType
<1>3. half + half <= whole
  BY <1>1, PowerDoubles
<1> HIDE DEF half, whole
<1>4. \A a, m \in Nat : a < m => a % m = a
  OBVIOUS
<1>5. n + half \in Nat /\ n + half < whole
  BY <1>2, <1>3 DEF half
<1>6. (n + half) % whole = n + half
  BY <1>2, <1>4, <1>5
<1> QED
  BY <1>2, <1>6 DEF Wrap, half, whole

(* The n-th doubling of the initial backoff does not reach the sign bit.   *)
Fits(n) == InitBackoff * 2 ^ (n - 1) < 2 ^ (Width - 1)

(* Then the code's shift and product are the exponential backoff.          *)
LEMMA BackoffFits ==
  ASSUME NEW n \in Nat \ {0}, Fits(n)
  PROVE  LET doubled == InitBackoff * 2 ^ (n - 1)
         IN  /\ doubled \in Nat /\ InitBackoff <= doubled
             /\ Backoff(n) = IF doubled > MaxBackoff THEN MaxBackoff ELSE doubled
<1> DEFINE power == 2 ^ (n - 1)
           half == 2 ^ (Width - 1)
<1>1. n - 1 \in Nat /\ Width - 1 \in Nat
  BY AutorestartAssumption
<1>2. power \in Nat /\ power >= 1 /\ half \in Nat
  BY <1>1, PowerType
<1> HIDE DEF power, half
<1>3. \A a, b \in Nat : a >= 1 /\ b >= 1 => a * b \in Nat /\ a <= a * b /\ b <= a * b
  OBVIOUS
<1>4. InitBackoff * power \in Nat /\ InitBackoff <= InitBackoff * power /\ power <= InitBackoff * power
  BY <1>2, <1>3, AutorestartAssumption
<1>5. InitBackoff * power < half
  BY DEF Fits, power, half
<1>6. power < half
  BY <1>2, <1>4, <1>5
<1>7. ~(n - 1 >= Width)
  <2> SUFFICES ASSUME n - 1 >= Width PROVE FALSE
    OBVIOUS
  <2>1. half <= power
    BY <1>1, PowerMonotone, AutorestartAssumption DEF half, power
  <2> QED
    BY <1>2, <1>6, <2>1
<1>8. ShiftOne(n - 1) = power
  BY <1>2, <1>6, <1>7, WrapKeeps DEF ShiftOne, power, half
<1>9. Wrap(InitBackoff * power) = InitBackoff * power
  BY <1>4, <1>5, WrapKeeps DEF half
<1> QED
  BY <1>4, <1>8, <1>9 DEF Backoff, power

LEMMA BackoffInRange ==
  ASSUME InitBackoff <= MaxBackoff, NEW n \in Nat \ {0}, Fits(n)
  PROVE  Backoff(n) \in InitBackoff .. MaxBackoff
<1> DEFINE doubled == InitBackoff * 2 ^ (n - 1)
<1>1. /\ doubled \in Nat /\ InitBackoff <= doubled
      /\ Backoff(n) = IF doubled > MaxBackoff THEN MaxBackoff ELSE doubled
  BY BackoffFits
<1> HIDE DEF doubled
<1> QED
  BY <1>1, AutorestartAssumption

(* What fits for a later attempt fits for the ones before it.              *)
LEMMA FitsBefore ==
  ASSUME NEW n \in Nat \ {0}, Fits(n), NEW m \in Nat \ {0}, m <= n
  PROVE  Fits(m)
<1> DEFINE a == 2 ^ (m - 1)
           b == 2 ^ (n - 1)
           half == 2 ^ (Width - 1)
<1>1. a \in Nat /\ b \in Nat /\ a <= b
  BY PowerType, PowerMonotone
<1>2. half \in Nat
  BY PowerType, AutorestartAssumption
<1> HIDE DEF a, b, half
<1>3. \A x, y, k \in Nat : x <= y => k * x \in Nat /\ k * y \in Nat /\ k * x <= k * y
  OBVIOUS
<1>4. InitBackoff * a \in Nat /\ InitBackoff * b \in Nat /\ InitBackoff * a <= InitBackoff * b
  BY <1>1, <1>3, AutorestartAssumption
<1>5. InitBackoff * b < half
  BY DEF Fits, b, half
<1> QED
  BY <1>2, <1>4, <1>5 DEF Fits, a, half

----------------------------------------------------------------------------------
LEMMA Invariance == Spec => []IInv
<1>1. IInv /\ [Next]_vars => IInv'
  BY TypeStep, OwnerStep, EndedStep, RememberedStep, AttachedStep, CountedStep DEF IInv
<1> QED
  BY <1>1, InitIInv, PTL DEF Spec

(* The types hold in every state of the strategy.                          *)
THEOREM Types == Spec => []TypeOK
<1>1. IInv => TypeOK
  BY DEF IInv
<1> QED
  BY <1>1, Invariance, PTL

(* handleEvent lets one goroutine through at a time, without the help of   *)
(* its look at restarting: the events of one instance come one by one, and *)
(* only those of the managed instance pass.                                *)
THEOREM Alone == Spec => []OneRestart
<1>1. IInv => OneRestart
  <2> SUFFICES ASSUME IInv PROVE Cardinality(Restarters) <= 1
    BY DEF OneRestart
  <2>1. \A g, h \in Restarters : g = h
    BY AutorestartAssumption DEF IInv, Owner, TypeOK, CallTypeOK, Restarters,
       Goroutines, Busy, Handling
  <2>2. CASE Restarters = {}
    BY <2>2, FS_EmptySet
  <2>3. CASE Restarters # {}
    <3>1. PICK g : Restarters = {g}
      BY <2>1, <2>3
    <3>2. Cardinality({g}) = 1
      BY FS_Singleton
    <3> QED
      BY <3>1, <3>2
  <2> QED
    BY <2>2, <2>3
<1> QED
  BY <1>1, Invariance, PTL

(* The number of restarts a crash loop gets is bounded by the limit, for   *)
(* every limit, whenever the stability loop resets the counter.            *)
THEOREM Budget == Spec => []RestartBudget
<1>1. IInv => RestartBudget
  BY DEF IInv
<1> QED
  BY <1>1, Invariance, PTL

(* While the doublings fit the integer, no restart comes without a wait of *)
(* at least InitBackoff and at most MaxBackoff: with any limit, and for    *)
(* the first restarts in a row when there is none.  The configuration is   *)
(* checked for InitBackoff <= MaxBackoff.                                  *)
THEOREM Waits ==
  ASSUME InitBackoff <= MaxBackoff
  PROVE  Spec => [][\A i \in Instances :
                      handler[i] = "backoff" /\ handler'[i] = "restart" /\ Fits(attempt[i]) =>
                        Backoff(attempt[i]) \in InitBackoff .. MaxBackoff]_vars
<1>1. ASSUME IInv, NEW i \in Instances, handler[i] = "backoff", Fits(attempt[i])
      PROVE  Backoff(attempt[i]) \in InitBackoff .. MaxBackoff
  <2>1. attempt[i] \in Nat /\ attempt[i] >= 1
    BY <1>1 DEF IInv, TypeOK, CallTypeOK, Counted
  <2> QED
    BY <1>1, <2>1, BackoffInRange
<1>2. IInv /\ [Next]_vars =>
        [\A i \in Instances :
           handler[i] = "backoff" /\ handler'[i] = "restart" /\ Fits(attempt[i]) =>
             Backoff(attempt[i]) \in InitBackoff .. MaxBackoff]_vars
  BY <1>1
<1> QED
  BY <1>2, Invariance, PTL DEF Spec

(* With a restart limit whose doublings fit, every restart waits, for the  *)
(* attempt that waits is within the limit.                                 *)
THEOREM WaitsWithinLimit ==
  ASSUME HasRestartLimit, InitBackoff <= MaxBackoff, Fits(MaxRestarts)
  PROVE  Spec => WaitsBeforeRestart
<1>1. ASSUME IInv, [Next]_vars, NEW i \in Instances, handler[i] = "backoff", handler'[i] = "restart"
      PROVE  Backoff(attempt[i]) \in InitBackoff .. MaxBackoff
  <2>1. /\ attempt[i] \in Nat /\ attempt[i] >= 1
        /\ handler \in [Goroutines -> Busy \cup {"none", "event", "crash", "backoff"}]
    BY <1>1 DEF IInv, TypeOK, CallTypeOK, Counted
  <2>2. ~Exhausted(i)
    BY <1>1, <2>1, AutorestartAssumption
    DEF Next, Settles, UserStop, HandlerStep, LauncherStep, HandleEvent, HandleCrash, GiveUp,
        BackoffEnds, RestartBegin, RestartStopped, Launch, LaunchFails, LaunchInitialSkipped,
        Record, ResetCount, StrategyStop, Goto, Goroutines, vars, callVars
  <2>3. attempt[i] <= MaxRestarts
    BY <2>1, <2>2, AutorestartAssumption DEF Exhausted, HasRestartLimit
  <2>4. Fits(attempt[i])
    BY <2>1, <2>3, FitsBefore, AutorestartAssumption DEF HasRestartLimit
  <2> QED
    BY <2>1, <2>4, BackoffInRange
<1>2. IInv /\ [Next]_vars =>
        [\A i \in Instances :
           handler[i] = "backoff" /\ handler'[i] = "restart" =>
             Backoff(attempt[i]) \in InitBackoff .. MaxBackoff]_vars
  BY <1>1
<1> QED
  BY <1>2, Invariance, PTL DEF Spec, WaitsBeforeRestart

(* No instance runs that neither the strategy manages nor is recording.    *)
THEOREM Ownership == Spec => []NoneAbandoned
<1>1. IInv => NoneAbandoned
  BY DEF IInv, Attached, NoneAbandoned
<1> QED
  BY <1>1, Invariance, PTL

==================================================================================
