------------------------------ MODULE MCAutorestart ------------------------------
(***************************************************************************)
(* The instances of the restart strategies that TLC checks.  NewId chooses *)
(* among the ids, so no symmetry is used.                                  *)
(***************************************************************************)
EXTENDS AutorestartProperties

(* -1 is the configuration for no limit.                                   *)
Unlimited == -1

==================================================================================
