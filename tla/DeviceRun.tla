------------------------------ MODULE DeviceRun ------------------------------
(***************************************************************************)
(* What a caller of ScanOrchestrator.run may rely on, without threads,     *)
(* futures or queues: every target is decided exactly once, CANCELLED only *)
(* after a cancellation, and the run concludes once, when every target is  *)
(* decided, with the status that folds the decisions.                      *)
(*                                                                         *)
(* ScanOrchestrator is shown to implement this specification; BasicApp     *)
(* uses it as the contract of the collection stage.                        *)
(***************************************************************************)
EXTENDS ScanTypes

CONSTANT Targets

VARIABLES outcome, cancelled, final

runVars == <<outcome, cancelled, final>>

Undecided == {t \in Targets : outcome[t] = None}

RunInit ==
    /\ outcome = [t \in Targets |-> None]
    /\ cancelled = FALSE
    /\ final = None

Cancel ==
    /\ final = None
    /\ cancelled' = TRUE
    /\ UNCHANGED <<outcome, final>>

\* One device answers, or the remaining ones are written off together.
Decide ==
    /\ \E S \in (SUBSET Undecided) \ {{}}, verdict \in PossibleOutcomes(Targets, cancelled) :
          outcome' = [t \in Targets |-> IF t \in S THEN verdict[t] ELSE outcome[t]]
    /\ UNCHANGED <<cancelled, final>>

Conclude ==
    /\ final = None /\ Undecided = {}
    /\ final' = RunStatusOf(outcome, cancelled)
    /\ UNCHANGED <<outcome, cancelled>>

RunNext == Cancel \/ Decide \/ Conclude

RunSpec == RunInit /\ [][RunNext]_runVars

\* Every target is decided and the run concludes.
FairRun == RunSpec /\ WF_runVars(Decide) /\ WF_runVars(Conclude)
==============================================================================
