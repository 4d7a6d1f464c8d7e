---------------------------- MODULE MCAuditService ----------------------------
(***************************************************************************)
(* Two devices over a pool of two, two commands each: both workers run at  *)
(* once and the event can be set before, between and after the commands.   *)
(***************************************************************************)
EXTENDS AuditService

MCFailures == {"CONNECT_FAILED", "COLLECTION_FAILED", "EVALUATION_FAILED"}
===============================================================================
