------------------------------ MODULE MCTabManager ------------------------------
EXTENDS TabManagerProperties

(* The limit that rejects; the limit that evicts, with idle timers; the    *)
(* popup guard, with two calls and one popup that may go away.             *)
Features ==
  {[maxTabs |-> 1, evicts |-> FALSE, closeIdle |-> FALSE, guarded |-> FALSE,
    calls |-> 1..3, pages |-> 0..3, mortal |-> 0..3],
   [maxTabs |-> 1, evicts |-> TRUE, closeIdle |-> TRUE, guarded |-> FALSE,
    calls |-> 1..3, pages |-> 0..3, mortal |-> 0..3],
   [maxTabs |-> 2, evicts |-> FALSE, closeIdle |-> FALSE, guarded |-> TRUE,
    calls |-> 1..2, pages |-> 0..2, mortal |-> {1}]}
=============================================================================
