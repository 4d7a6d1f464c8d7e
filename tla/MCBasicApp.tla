------------------------------ MODULE MCBasicApp ------------------------------
(***************************************************************************)
(* Two devices, one report each and two runs: the second run can start in  *)
(* the moment between the end of the first worker and the next poll.       *)
(***************************************************************************)
EXTENDS BasicApp

CONSTANTS d1, d2
MCDevices == {d1, d2}
===============================================================================
