---------------------------- MODULE MCSessionRouting ----------------------------
EXTENDS SessionRoutingProperties

CONSTANTS s1, a1, i1, i2, r1, r2

OneAgent == [s \in Sessions |-> a1]

(* One request at a time, with sessions that end, and with two instances on*)
(* one port; two requests, with strict routing between two instances, and  *)
(* with one instance whose tab lists are read.                             *)
Features ==
  {[strict |-> FALSE, shared |-> FALSE, managed |-> {i1}, asked |-> {r1},
    happens |-> {"ends", "rests", "agents"}],
   [strict |-> FALSE, shared |-> TRUE, managed |-> {i1, i2}, asked |-> {r1},
    happens |-> {"agents"}],
   [strict |-> TRUE, shared |-> FALSE, managed |-> {i1, i2}, asked |-> {r1, r2},
    happens |-> {}],
   [strict |-> FALSE, shared |-> FALSE, managed |-> {i1}, asked |-> {r1, r2},
    happens |-> {"polls", "rests", "agents"}]}
=============================================================================
