------------------------------ MODULE MCOrchestrator ------------------------------
(***************************************************************************)
(* Small instances of the orchestrator for TLC.                            *)
(***************************************************************************)
EXTENDS OrchestratorProperties, TLC

(* Launch calls are interchangeable, and so are Stop calls and profiles.   *)
Symmetry ==
  Permutations(Launches) \cup Permutations(Stoppers) \cup Permutations(Profiles)

==================================================================================
