----------------------------- MODULE MCRunStore -----------------------------
(***************************************************************************)
(* Two devices with two outputs each, and up to two failing calls, the     *)
(* second one where the first is handled.                                  *)
(***************************************************************************)
EXTENDS RunStore

OwnDirs == [t \in 1..2 |-> t]

\* 2001:db8::1 and 2001:db8:1:: are both stored under 2001_db8_1.
SharedDir == [t \in 1..2 |-> 1]

MCFailures == {"CONNECT_FAILED"}
=============================================================================
