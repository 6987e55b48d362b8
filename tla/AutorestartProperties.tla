-------------------------- MODULE AutorestartProperties --------------------------
(***************************************************************************)
(* What the restart strategies promise.                                    *)
(***************************************************************************)
EXTENDS Autorestart, FiniteSets

Busy == {"restart", "stopping", "launch", "record"}

LifecycleTypeOK ==
  /\ status \in [Instances -> {"absent", "starting", "running", "stopping", "error", "stopped"}]
  /\ listed \subseteq Instances
  /\ announced \in [Instances -> SUBSET {"started", "error", "stopped"}]

CountTypeOK == restartCount \in Nat /\ relaunches \in Nat

CallTypeOK ==
  /\ handler \in [Goroutines -> Busy \cup {"none", "event", "crash", "backoff"}]
  /\ attempt \in [Instances -> Nat]
  /\ old \in [Instances -> Instances \cup {NoInstance}]
  /\ fresh \in [Goroutines -> Instances \cup {NoInstance}]

(* The types of all variables: every goroutine is at a place of the code,  *)
(* and the ids the strategy keeps are those of instances it launched.      *)
TypeOK ==
  /\ LifecycleTypeOK /\ CountTypeOK /\ CallTypeOK
  /\ managed \in Instances \cup {NoInstance}
  /\ restarting \in BOOLEAN /\ deliberate \in BOOLEAN

Restarters == {g \in Goroutines : handler[g] \in Busy \cup {"crash", "backoff"}}

(* handleEvent looks at restarting in one critical section and handleCrash *)
(* sets it in another; yet no two goroutines are ever past the look, since *)
(* each instance announces one event at a time and only events of the      *)
(* managed instance pass.                                                  *)
OneRestart == Cardinality(Restarters) <= 1

(* A crash loop ends: not more than MaxRestarts restarts follow one        *)
(* another without a reset of the counter.  A restart under way when the   *)
(* reset comes, which it takes back the count of, is not among them.       *)
RestartBudget == HasRestartLimit => relaunches <= MaxRestarts

(* No live instance of the strategy is left behind by another: one that is *)
(* starting or running is the managed one, or is about to be recorded.     *)
NoneAbandoned ==
  \A i \in Instances : status[i] \in {"starting", "running"} =>
    i = managed \/ \E g \in Goroutines : fresh[g] = i

(* No restart begins without a wait of at least InitBackoff, nor after     *)
(* more than MaxBackoff (config: "Initial backoff between restarts" and    *)
(* "Maximum backoff cap"): the exponential backoff holds for every attempt *)
(* that a run of crashes can reach.                                        *)
WaitsBeforeRestart ==
  [][\A i \in Instances :
       handler[i] = "backoff" /\ handler'[i] = "restart" =>
         Backoff(attempt[i]) \in InitBackoff .. MaxBackoff]_vars

(* A restart under way ends: the strategy is ready for the next crash,     *)
(* whether it launched, failed to launch or gave up.                       *)
RestartSettles == restarting ~> (~restarting \/ deliberate)

==================================================================================
