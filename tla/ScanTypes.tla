------------------------------ MODULE ScanTypes ------------------------------
(***************************************************************************)
(* The status vocabulary of one audit run (core/models.py DeviceStatus and *)
(* RunStatus) and the pure functions that fold the outcomes of the devices *)
(* into counts and into the status of the run.  An outcome map is a        *)
(* function from target indexes to terminal statuses, or None for a target *)
(* whose outcome is not known yet.                                         *)
(***************************************************************************)
EXTENDS Integers, FiniteSets

None == "NONE"

InFlightStatuses == {"CONNECTING", "COLLECTING", "PARSING", "EVALUATING"}

FailureStatuses ==
    {"AUTH_FAILED", "CONNECT_FAILED", "COLLECTION_FAILED", "EVALUATION_FAILED"}

TerminalStatuses == FailureStatuses \cup {"COMPLETE", "CANCELLED"}

DeviceStatuses == {"QUEUED"} \cup InFlightStatuses \cup TerminalStatuses

FinalRunStatuses == {"COMPLETE", "PARTIAL", "FAILED", "CANCELLED"}

WithStatus(outcome, S) == {t \in DOMAIN outcome : outcome[t] \in S}

\* The contract between the orchestrator and its callers: a finished run has
\* a terminal status for every target, CANCELLED only after a cancellation.
PossibleOutcomes(T, cancelled) ==
    [T -> IF cancelled THEN TerminalStatuses ELSE TerminalStatuses \ {"CANCELLED"}]

\* ScanSummary: the three counts of a summary always add up to the outcomes.
SuccessCount(outcome)   == Cardinality(WithStatus(outcome, {"COMPLETE"}))
CancelledCount(outcome) == Cardinality(WithStatus(outcome, {"CANCELLED"}))
FailureCount(outcome)   == Cardinality(DOMAIN outcome)
                             - SuccessCount(outcome) - CancelledCount(outcome)

\* Mutant of RunStatusOf: partial success is decided by the failures alone.
RunStatusByFailures(outcome, cancelled) ==
    IF FailureCount(outcome) > 0 /\ SuccessCount(outcome) > 0 THEN "PARTIAL"
    ELSE IF FailureCount(outcome) > 0 THEN "FAILED"
    ELSE IF cancelled THEN "CANCELLED"
    ELSE "COMPLETE"

\* ScanOrchestrator._run_status, the early returns in the order of the code.
\* "cancelled" is the flag of the event, read after the last outcome is known.
RunStatusOf(outcome, cancelled) ==
    LET total      == Cardinality(DOMAIN outcome)
        successful == SuccessCount(outcome)
        stopped    == CancelledCount(outcome)
        failed     == FailureCount(outcome)
    IN  IF total = 0
        THEN IF cancelled THEN "CANCELLED" ELSE "COMPLETE"
        ELSE IF cancelled /\ successful = 0 /\ failed = 0 THEN "CANCELLED"
        ELSE IF successful = total THEN "COMPLETE"
        ELSE IF successful > 0 THEN "PARTIAL"
        ELSE IF stopped = total THEN "CANCELLED"
        ELSE "FAILED"
==============================================================================
