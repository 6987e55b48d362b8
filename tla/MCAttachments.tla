------------------------------ MODULE MCAttachments ------------------------------
(***************************************************************************)
(* Small instances of the orchestrator's table for TLC.                    *)
(***************************************************************************)
EXTENDS AttachmentsProperties

CONSTANTS l1, s1, s2, b1, b2, c1, d1

(* A managed instance and two Stop calls; two calls for bridges and a Stop;*)
(* a bridge, a browser and a Stop; a launch and a browser of one name.     *)
Calls == {{l1, s1, s2}, {b1, b2, d1}, {b1, c1, d1}, {l1, c1}}

==================================================================================
