-------------------------- MODULE MCScanOrchestrator --------------------------
(***************************************************************************)
(* Four targets over a pool of two: every slot is refilled once, so a       *)
(* target waits for a free slot, a queued future can be withdrawn, a        *)
(* target can remain unsubmitted, and progress is made in several rounds.  *)
(***************************************************************************)
EXTENDS ScanOrchestrator

MCFailures == {"EVALUATION_FAILED"}
MCInFlight == {"COLLECTING"}
===============================================================================
