------------------------------ MODULE PortAllocator ------------------------------
(***************************************************************************)
(* The port allocator of the orchestrator (internal/orchestrator/ports.go):*)
(* which ports of the configured range are handed out, and where the next  *)
(* search starts.  Every operation holds the allocator's lock throughout,  *)
(* so each is one step.                                                    *)
(*                                                                         *)
(* Whether the operating system would let a port be opened is the caller's *)
(* to say: "usable" is the set of ports it would.  NoPort stands for a     *)
(* port that was never chosen; it lies outside every range.  A definition  *)
(* named ...Slip is a mistaken form of the one below it.                   *)
(***************************************************************************)
EXTENDS Integers, FiniteSets

CONSTANTS PortStart, PortEnd

ASSUME PortAssumption ==
  /\ PortStart \in Nat \ {0} /\ PortEnd \in Nat
  /\ PortStart <= PortEnd

VARIABLES allocated, nextCandidate

portVars == <<allocated, nextCandidate>>

NoPort == 0
PortRange == PortStart .. PortEnd
RangeSize == PortEnd - PortStart + 1

PortInit == allocated = {} /\ nextCandidate = PortStart

TriesSlip == 0 .. RangeSize - 2

(* The attempts of one search, and the port each looks at: the search      *)
(* wraps round at the end of the range, where the cursor may stand.        *)
Tries == 0 .. RangeSize - 1

CandidateSlip(k) == nextCandidate + k

Candidate(k) == PortStart + ((nextCandidate - PortStart + k) % RangeSize)

Hits(usable) ==
  {k \in Tries : Candidate(k) \notin allocated /\ Candidate(k) \in usable}

AllocatePort(usable, p) ==
  \E k \in Hits(usable) :
    /\ \A j \in Hits(usable) : k <= j
    /\ p = Candidate(k)
    /\ allocated' = allocated \cup {p}
    /\ nextCandidate' = p + 1

(* A failed search has moved the cursor all the same.                      *)
AllocateFails(usable) ==
  /\ Hits(usable) = {}
  /\ nextCandidate' = Candidate(RangeSize - 1) + 1
  /\ UNCHANGED allocated

ReservePortSlip(p) ==
  /\ allocated' = allocated \cup ({p} \cap PortRange)
  /\ UNCHANGED nextCandidate

(* A port outside the range is granted without being recorded.             *)
ReservePort(p) ==
  /\ p \notin allocated
  /\ allocated' = allocated \cup ({p} \cap PortRange)
  /\ UNCHANGED nextCandidate

ReserveFails(p) == p \in allocated /\ UNCHANGED portVars

(* ReleasePort of a first and then of a second port; releasing a port that *)
(* was never chosen, or lies outside the range, changes nothing.           *)
ReleasePorts(first, second) ==
  /\ allocated' = allocated \ {first, second}
  /\ nextCandidate' = IF second \in PortRange THEN second
                      ELSE IF first \in PortRange THEN first ELSE nextCandidate

==================================================================================
