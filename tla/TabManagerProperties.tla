-------------------------- MODULE TabManagerProperties --------------------------
(***************************************************************************)
(* What the tab manager keeps true however its calls, timers, purges and   *)
(* the browser's pages interleave.                                         *)
(***************************************************************************)
EXTENDS TabManager

Pcs == {"unborn", "resolve", "adopt", "count", "choose", "list", "lookup", "close", "find",
        "drop", "make", "setup", "attach", "insert", "reread", "use", "end", "click",
        "clear", "shut", "done"}

TypeOK ==
  /\ config \in Configs
  /\ page \in [Targets -> {"none", "open", "gone"}]
  /\ opener \in [Targets -> Targets \cup {None}]
  /\ purging \in [Targets -> {"no", "due", "found", "done"}]
  /\ opens \in [Targets -> Nat]
  /\ live \in [Targets -> SUBSET (Nat \ {0})]
  /\ entry \in [Targets -> Nat]
  /\ gen \in [Targets -> Nat]
  /\ armed \subseteq [tab : Targets, gen : Nat, of : Nat]
  /\ fired \subseteq [tab : Targets, gen : Nat, of : Nat]
  /\ slot \in [Targets -> Calls \cup {None}]
  /\ captured \in [Calls -> Targets \cup {None}]
  /\ claimed \subseteq Targets
  /\ call \in [Calls -> [pc : Pcs, tab : Targets \cup {None}, page : Targets \cup {None},
                         victim : Targets \cup {None}, ctx : Nat, seen : BOOLEAN,
                         then : {"done", "make", "insert", "reread"}]]
  /\ covered \subseteq Calls
  /\ excess \in Nat

(* CreateTab and enforceAdoptTabLimit count, evict and insert in separate  *)
(* steps: the tabs above MaxTabs never outnumber the insertions that no    *)
(* count of their own covered, because another call inserted in between or *)
(* because TabContext adopted a page, which is not subject to the limit.   *)
ExcessCovered == Cardinality(Tracked) <= config.maxTabs + excess

(* Every open context, which keeps a page's event listeners and network    *)
(* capture going, belongs to a tracked tab or to the call that is about to *)
(* track it, unless two calls opened a context for the same page: then one *)
(* entry replaces the other, or a purge removes an entry it did not cancel.*)
ContextsOwned ==
  \A t \in Targets : opens[t] = 1 /\ live[t] # {} =>
    \/ entry[t] = 1
    \/ \E c \in Calls : call[c].page = t /\ call[c].pc \in {"setup", "insert"}

(* A tab that was used again after its idle timer expired, or whose entry  *)
(* is gone, is not closed by that timer: of the timers of a page that one  *)
(* call tracked, at most one runs or has a callback that would close it,   *)
(* and it is that of the tracked entry.                                    *)
OneIdleTimer ==
  \A t \in Targets : opens[t] = 1 =>
    LET closing == {a \in armed : a.tab = t} \cup {f \in fired : f.tab = t /\ Current(f)}
    IN Cardinality(closing) <= 1 /\ (closing # {} => IsTracked(t))

(* A popup that was kept from the guard is in the hands of the click it was*)
(* kept for until it is tracked or its closing was tried; the code drops   *)
(* one only in ClearAfterPopup and for a displaced click.                  *)
PopupsInHand ==
  \A p \in claimed :
    \E c \in Calls : \/ captured[c] = p /\ call[c].pc \in {"click", "clear"}
                     \/ call[c].page = p /\ call[c].pc \notin {"unborn", "use", "end", "done"}
=============================================================================
