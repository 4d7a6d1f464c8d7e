--------------------------- MODULE ScanOrchestrator ---------------------------
(***************************************************************************)
(* application/scan_orchestrator.py: one call of ScanOrchestrator.run.     *)
(*                                                                         *)
(* Three kinds of actors interleave:                                       *)
(*   - the thread that called run (the "main" loop: fill the pool, wait,   *)
(*     collect, refill, withdraw queued futures after a cancellation);     *)
(*   - the threads of the ThreadPoolExecutor, each inside execute();       *)
(*   - whoever holds the shared cancel_event (the operator).               *)
(*                                                                         *)
(* Targets are the indexes 1..NTargets, so next_index of the code is nxt   *)
(* (the number of targets submitted so far) and the target submitted next  *)
(* is nxt + 1.  The event queue is FIFO and has one reader, so what it     *)
(* tells the reader is represented by the fold of the events put so far:   *)
(* shown[t] is the last device status put for t, progress the completed    *)
(* count of the last PROGRESS event, final the status of the closing       *)
(* RUN_STATUS event.                                                       *)
(*                                                                         *)
(* The worker is a parameter of run; here it is any callable that keeps    *)
(* the contract both workers of AuditService keep: it reports in-flight    *)
(* statuses and returns or raises, and returns CANCELLED only when the     *)
(* event is set.  AuditService.tla puts the real workers in its place.     *)
(***************************************************************************)
EXTENDS ScanTypes

CONSTANTS NTargets,     \* len(target_list)
          Concurrency,  \* self.concurrency
          Failures,     \* the failure statuses a worker may return
          InFlight      \* the statuses a worker may report

ASSUME NTargetsAssumption == NTargets \in Nat

\* The constructor raises ValueError outside MIN_CONCURRENCY..MAX_CONCURRENCY.
ASSUME ConcurrencyAssumption == Concurrency \in 1..20

ASSUME StatusAssumption ==
    /\ Failures \subseteq FailureStatuses
    /\ "EVALUATION_FAILED" \in Failures
    /\ InFlight \subseteq InFlightStatuses

VARIABLES
    phase,     \* where the main thread is
    admitted,  \* the guard of a submit loop has been passed, submit has not run
    nxt,       \* next_index
    pending,   \* the targets whose futures are in the pending dict
    batch,     \* what the for-loop in progress still has to visit
    fut,       \* per target, the state of its future and of execute()
    ret,       \* per target, what execute() returned
    outcome,   \* outcomes_by_index
    cancel,    \* cancellation.is_set()
    shown,     \* per target, the last DEVICE_STATUS put on the queue
    progress,  \* completed of the last PROGRESS put on the queue
    final,     \* status of the closing RUN_STATUS, and of the summary
    atCancel   \* history: nxt and the cleared targets when cancel was set

mainVars   == <<phase, admitted, nxt, batch>>
workerVars == <<fut, ret>>
eventVars  == <<shown, progress, final>>
vars == <<phase, admitted, nxt, pending, batch, fut, ret, outcome, cancel,
          shown, progress, final, atCancel>>

Targets == 1..NTargets

\* A future is queued in the executor until a thread picks it up (entered);
\* execute() then reads the event (cleared), reports CONNECTING and runs the
\* worker (working).  withdrawn is a future whose cancel() succeeded.
Executing == {"entered", "cleared", "working"}
FutureStates == {"none", "queued", "withdrawn", "done"} \cup Executing

InPool == {t \in Targets : fut[t] \in Executing}
\* Past its own look at the event: the worker of such a target runs or ran
\* (a worker that stopped because of the event is not counted any more).
Cleared == {t \in Targets : \/ fut[t] \in {"cleared", "working"}
                            \/ fut[t] = "done" /\ ret[t] # "CANCELLED"}

Init ==
    /\ phase = "begin"
    /\ admitted = FALSE
    /\ nxt = 0
    /\ pending = {}
    /\ batch = {}
    /\ fut = [t \in Targets |-> "none"]
    /\ ret = [t \in Targets |-> None]
    /\ outcome = [t \in Targets |-> None]
    /\ cancel = FALSE
    /\ shown = [t \in Targets |-> None]
    /\ progress = 0
    /\ final = None
    /\ atCancel = [nxt |-> 0, cleared |-> {}]

-------------------------------------------------------------------------------
(* The main thread *)

\* RUN_STATUS RUNNING and one QUEUED event per target; no worker exists yet.
Begin ==
    /\ phase = "begin"
    /\ phase' = "prime"
    /\ shown' = [t \in Targets |-> "QUEUED"]
    /\ UNCHANGED <<admitted, nxt, pending, batch, workerVars, outcome, cancel,
                   progress, final, atCancel>>

\* Mutant of MayAdmit: one future too many.
AdmitPastTheBound   == nxt < NTargets /\ Cardinality(pending) <= Concurrency /\ ~cancel

\* The guard shared by both submit loops.
MayAdmit == nxt < NTargets /\ Cardinality(pending) < Concurrency /\ ~cancel

Admit ==
    /\ phase \in {"prime", "refill"} /\ ~admitted
    /\ MayAdmit
    /\ admitted' = TRUE
    /\ UNCHANGED <<phase, nxt, pending, batch, workerVars, outcome, cancel,
                   eventVars, atCancel>>

\* The body of a submit loop: the event is not read again here.
Submit ==
    /\ admitted
    /\ admitted' = FALSE
    /\ nxt' = nxt + 1
    /\ fut' = [fut EXCEPT ![nxt + 1] = "queued"]
    /\ pending' = pending \cup {nxt + 1}
    /\ UNCHANGED <<phase, batch, ret, outcome, cancel, eventVars, atCancel>>

\* The first loop falls into "while pending", the refill loop into the test
\* for cancellation.
LeaveLoop ==
    /\ phase \in {"prime", "refill"} /\ ~admitted
    /\ ~MayAdmit
    /\ phase' = IF phase = "prime" THEN "wait" ELSE "purge"
    /\ UNCHANGED <<admitted, nxt, pending, batch, workerVars, outcome, cancel,
                   eventVars, atCancel>>

\* wait(..., FIRST_COMPLETED) returns the futures that are done by then.
WaitDone ==
    /\ phase = "wait" /\ \E t \in pending : fut[t] = "done"
    /\ batch' = {t \in pending : fut[t] = "done"}
    /\ phase' = "collect"
    /\ UNCHANGED <<admitted, nxt, pending, workerVars, outcome, cancel,
                   eventVars, atCancel>>

\* One turn of "for future in done": done is a set, its order is arbitrary.
Collect(t) ==
    /\ phase = "collect" /\ t \in batch
    /\ pending' = pending \ {t}
    /\ outcome' = [outcome EXCEPT ![t] = ret[t]]
    /\ shown' = [shown EXCEPT ![t] = ret[t]]
    /\ progress' = Cardinality({u \in Targets : outcome'[u] # None})
    /\ batch' = batch \ {t}
    /\ phase' = IF batch = {t} THEN "refill" ELSE "collect"
    /\ UNCHANGED <<admitted, nxt, workerVars, cancel, final, atCancel>>

\* "if cancellation.is_set()": the loop runs over a copy of pending.
Purge ==
    /\ phase = "purge"
    /\ IF cancel /\ pending # {}
       THEN phase' = "withdraw" /\ batch' = pending
       ELSE phase' = "wait" /\ UNCHANGED batch
    /\ UNCHANGED <<admitted, nxt, pending, workerVars, outcome, cancel,
                   eventVars, atCancel>>

\* Mutant of Withdraw: the answer of future.cancel() is ignored.
WithdrawRegardless(t) ==
    /\ phase = "withdraw" /\ t \in batch
    /\ \A u \in batch : t <= u
    /\ fut' = [fut EXCEPT ![t] = IF @ = "queued" THEN "withdrawn" ELSE @]
    /\ pending' = pending \ {t}
    /\ outcome' = [outcome EXCEPT ![t] = "CANCELLED"]
    /\ batch' = batch \ {t}
    /\ phase' = IF batch = {t} THEN "wait" ELSE "withdraw"
    /\ UNCHANGED <<admitted, nxt, ret, cancel, eventVars, atCancel>>

\* future.cancel() succeeds exactly for a future no thread has picked up.
\* The outcome is recorded; no event is put on the queue.
Withdraw(t) ==
    /\ phase = "withdraw" /\ t \in batch
    /\ \A u \in batch : t <= u
    /\ IF fut[t] = "queued"
       THEN /\ fut' = [fut EXCEPT ![t] = "withdrawn"]
            /\ pending' = pending \ {t}
            /\ outcome' = [outcome EXCEPT ![t] = "CANCELLED"]
       ELSE UNCHANGED <<fut, pending, outcome>>
    /\ batch' = batch \ {t}
    /\ phase' = IF batch = {t} THEN "wait" ELSE "withdraw"
    /\ UNCHANGED <<admitted, nxt, ret, cancel, eventVars, atCancel>>

\* Mutant of RepresentUnsubmitted: no event is put.
RepresentSilently ==
    /\ phase = "wait" /\ pending = {}
    /\ outcome' = [t \in Targets |-> IF t > nxt THEN "CANCELLED" ELSE outcome[t]]
    /\ phase' = "summarise"
    /\ UNCHANGED <<admitted, nxt, pending, batch, workerVars, cancel,
                   eventVars, atCancel>>

\* "while pending" ends, the executor is shut down (no future is left), and
\* every target that was never submitted gets its outcome and its event.
RepresentUnsubmitted ==
    /\ phase = "wait" /\ pending = {}
    /\ outcome' = [t \in Targets |-> IF t > nxt THEN "CANCELLED" ELSE outcome[t]]
    /\ shown' = [t \in Targets |-> IF t > nxt THEN "CANCELLED" ELSE shown[t]]
    /\ phase' = "summarise"
    /\ UNCHANGED <<admitted, nxt, pending, batch, workerVars, cancel,
                   progress, final, atCancel>>

\* Mutant of Return: a set event always means a cancelled run.
ReturnCancelled ==
    /\ phase = "summarise"
    /\ final' = IF cancel THEN "CANCELLED" ELSE RunStatusOf(outcome, cancel)
    /\ phase' = "returned"
    /\ UNCHANGED <<admitted, nxt, pending, batch, workerVars, outcome, cancel,
                   shown, progress, atCancel>>

Return ==
    /\ phase = "summarise"
    /\ final' = RunStatusOf(outcome, cancel)
    /\ phase' = "returned"
    /\ UNCHANGED <<admitted, nxt, pending, batch, workerVars, outcome, cancel,
                   shown, progress, atCancel>>

MainStep ==
    \/ Begin \/ Admit \/ Submit \/ LeaveLoop \/ WaitDone \/ Purge
    \/ RepresentUnsubmitted \/ Return
    \/ \E t \in Targets : Collect(t) \/ Withdraw(t)

-------------------------------------------------------------------------------
(* The threads of the pool, inside execute(index) *)

\* An idle thread takes the oldest queued future.
PickUp(t) ==
    /\ fut[t] = "queued"
    /\ Cardinality(InPool) < Concurrency
    /\ \A u \in Targets : fut[u] = "queued" => t <= u
    /\ fut' = [fut EXCEPT ![t] = "entered"]
    /\ UNCHANGED <<mainVars, pending, ret, outcome, cancel, eventVars, atCancel>>

\* Mutant of LookAtEvent: execute() does not look.
NoLookAtEvent(t) ==
    /\ fut[t] = "entered"
    /\ fut' = [fut EXCEPT ![t] = "cleared"]
    /\ UNCHANGED <<mainVars, pending, ret, outcome, cancel, eventVars, atCancel>>

\* "if cancellation.is_set()" at the top of execute.
LookAtEvent(t) ==
    /\ fut[t] = "entered"
    /\ IF cancel
       THEN /\ fut' = [fut EXCEPT ![t] = "done"]
            /\ ret' = [ret EXCEPT ![t] = "CANCELLED"]
       ELSE fut' = [fut EXCEPT ![t] = "cleared"] /\ UNCHANGED ret
    /\ UNCHANGED <<mainVars, pending, outcome, cancel, eventVars, atCancel>>

ReportConnecting(t) ==
    /\ fut[t] = "cleared"
    /\ fut' = [fut EXCEPT ![t] = "working"]
    /\ shown' = [shown EXCEPT ![t] = "CONNECTING"]
    /\ UNCHANGED <<mainVars, pending, ret, outcome, cancel, progress, final, atCancel>>

\* The report callback handed to the worker.
Report(t, s) ==
    /\ fut[t] = "working"
    /\ shown' = [shown EXCEPT ![t] = s]
    /\ UNCHANGED <<mainVars, pending, workerVars, outcome, cancel, progress,
                   final, atCancel>>

\* The worker returns an outcome; an exception, a result of another type or
\* for another target becomes EVALUATION_FAILED.
Finish(t, s) ==
    /\ fut[t] = "working"
    /\ fut' = [fut EXCEPT ![t] = "done"]
    /\ ret' = [ret EXCEPT ![t] = s]
    /\ UNCHANGED <<mainVars, pending, outcome, cancel, eventVars, atCancel>>

\* What a worker that keeps its contract may return in this state.
Returnable == Failures \cup {"COMPLETE"} \cup (IF cancel THEN {"CANCELLED"} ELSE {})

PoolStep(t)   == PickUp(t) \/ LookAtEvent(t) \/ ReportConnecting(t)
WorkerStep(t) == \/ \E s \in InFlight : Report(t, s)
                 \/ \E s \in Returnable : Finish(t, s)

-------------------------------------------------------------------------------
(* The holder of the cancel event *)

RequestCancel ==
    /\ ~cancel /\ phase # "returned"
    /\ cancel' = TRUE
    /\ atCancel' = [nxt |-> nxt, cleared |-> Cleared]
    /\ UNCHANGED <<mainVars, pending, workerVars, outcome, eventVars>>

\* run has returned; the terminated system stutters.
Done == phase = "returned" /\ UNCHANGED vars

Next ==
    \/ MainStep
    \/ \E t \in Targets : PoolStep(t) \/ WorkerStep(t)
    \/ RequestCancel
    \/ Done

Spec == Init /\ [][Next]_vars

\* The main thread and the pool threads are scheduled by the interpreter;
\* a worker returns because every blocking call it makes has a timeout.
\* Nothing obliges anybody to cancel.
Fairness ==
    /\ WF_vars(MainStep)
    /\ \A t \in Targets : /\ WF_vars(PoolStep(t))
                          /\ WF_vars(\E s \in Returnable : Finish(t, s))

FairSpec == Spec /\ Fairness

-------------------------------------------------------------------------------
(* Properties *)

\* Types of the variables of one run.
TypeOK ==
    /\ phase \in {"begin", "prime", "refill", "wait", "collect", "purge",
                  "withdraw", "summarise", "returned"}
    /\ admitted \in BOOLEAN
    /\ nxt \in 0..NTargets
    /\ pending \subseteq Targets
    /\ batch \subseteq Targets
    /\ fut \in [Targets -> FutureStates]
    /\ ret \in [Targets -> TerminalStatuses \cup {None}]
    /\ outcome \in [Targets -> TerminalStatuses \cup {None}]
    /\ cancel \in BOOLEAN
    /\ shown \in [Targets -> DeviceStatuses \cup {None}]
    /\ progress \in 0..NTargets
    /\ final \in FinalRunStatuses \cup {None}
    /\ atCancel \in [nxt : 0..NTargets, cleared : SUBSET Targets]

\* "Execute independent device workers with a strict concurrency bound": the
\* submitted, uncollected targets never exceed the bound, and no device is
\* being worked on behind the back of that account.
StrictConcurrencyBound ==
    /\ Cardinality(pending) <= Concurrency
    /\ InPool \subseteq pending

\* The contract of DeviceRun: the summary has a terminal outcome for every
\* target, whichever way completion, cancellation and the pool raced
\* (outcomes_by_index is filled from three different places of run), and no
\* target is forgotten by the submit loops and written off unasked.
ReturnsPossibleOutcomes ==
    phase = "returned" => outcome \in PossibleOutcomes(Targets, cancel)

\* The submit loops test the event and submit in two steps, so a request may
\* be overtaken by one submission, never by two.
CancelBoundsSubmission == cancel => nxt <= atCancel.nxt + 1

\* A device whose worker had not passed execute()'s own look at the event
\* when cancellation was requested is never contacted.
CancelStopsContact == cancel => Cleared \subseteq atCancel.cleared

\* The status of the summary says what the outcomes say (_run_status): in
\* particular a run with a success is never FAILED or CANCELLED, and a run
\* cancelled too late to stop anything is COMPLETE.
StatusReflectsOutcomes ==
    phase = "returned" /\ Targets # {} =>
        LET all(S)  == \A t \in Targets : outcome[t] \in S
            some(S) == \E t \in Targets : outcome[t] \in S
        IN  /\ final = "COMPLETE"  <=> all({"COMPLETE"})
            /\ final = "PARTIAL"   <=> some({"COMPLETE"}) /\ ~all({"COMPLETE"})
            /\ final = "CANCELLED" <=> all({"CANCELLED"})
            /\ final = "FAILED"    <=> ~some({"COMPLETE"}) /\ some(FailureStatuses)

\* When run returns, the reader of the queue has been told every outcome,
\* except those of targets withdrawn from the executor before they started.
ReaderIsTold ==
    phase = "returned" =>
        \A t \in Targets : shown[t] = outcome[t] \/ fut[t] = "withdrawn"

\* The docstring of run: "all remaining targets receive a CANCELLED
\* outcome/event" (scan_orchestrator.py:114-117).
CancelledTargetsAreAnnounced ==
    phase = "returned" =>
        \A t \in Targets : outcome[t] = "CANCELLED" => shown[t] = "CANCELLED"

\* Once an outcome is recorded it is never replaced, and no event of that
\* device follows: a worker cannot report after its future was collected.
DecidedIsQuiet ==
    [][\A t \in Targets : outcome[t] # None =>
          outcome'[t] = outcome[t] /\ shown'[t] = shown[t]]_vars

\* The run as its caller sees it.
Run == INSTANCE DeviceRun WITH cancelled <- cancel

ImplementsDeviceRun == Run!FairRun
===============================================================================
