------------------------------- MODULE BasicApp -------------------------------
(***************************************************************************)
(* basic_app.py: the life of an audit run in the Basic application.        *)
(*                                                                         *)
(* Three actors share the object: the Tk thread (start, cancel, close,     *)
(* import of a license, and the poll callback that drains the event        *)
(* queue), the worker thread _run of the current run, and the world that   *)
(* lets the license expire or be replaced.  The Tk thread runs one         *)
(* callback at a time, but the worker runs between any two queue           *)
(* operations of poll; so poll is three kinds of steps and every other     *)
(* callback is one.                                                        *)
(*                                                                         *)
(* Collection is the contract of DeviceRun, which ScanOrchestrator is      *)
(* shown to implement: an outcome for every device, CANCELLED only after a *)
(* cancellation.  Only the number of outcomes of each kind matters here.   *)
(* Of the queue only the completion events are kept; a scan event only     *)
(* adds text to the log box.  Runs are numbered in the order of start;     *)
(* run 0 stands for the empty values a fresh window or a start sets.       *)
(***************************************************************************)
EXTENDS ScanTypes, Sequences

CONSTANTS Devices,      \* the selected devices of every run
          FilesPerDevice, \* protected reports requested per assessed device
          MaxRuns       \* bound on the number of runs started

ASSUME BasicAppAssumption ==
    /\ IsFiniteSet(Devices) /\ Devices # {}
    /\ FilesPerDevice \in Nat \ {0}
    /\ MaxRuns \in Nat \ {0}

VARIABLES
    started,    \* the number of runs started; the last one is the current run
    worker,     \* where the worker thread of the current run is
    tally,      \* outcome counts of the current run, once it was collected
    written,    \* written: the reports saved by the current run
    cancel,     \* cancel_event
    licensed,   \* the installed license permits the selected batch
    queue,      \* the completion events put and not yet drained
    gui,        \* what the Tk thread is executing
    polls,      \* scheduled poll callbacks
    card,       \* the result card: run, state and file count it was set from
    summaryRun, \* last_run_id: the run whose results the Summary tab covers
    closed,     \* the window was destroyed
    onDisk,     \* history: per run, the protected files it has created
    applied,    \* history: the runs whose completion reached the card
    permitted   \* history: the license permitted the batch since collection

workerState == <<worker, tally, written, onDisk>>
guiState    == <<gui, polls, card, summaryRun, closed, applied>>
vars == <<started, worker, tally, written, cancel, licensed, queue, gui, polls,
          card, summaryRun, closed, onDisk, applied, permitted>>

Runs == 1..MaxRuns
NoTally == [complete |-> 0, failed |-> 0, cancelled |-> 0]

Tally(o) == [complete  |-> SuccessCount(o),
             failed    |-> FailureCount(o),
             cancelled |-> CancelledCount(o)]

\* self.thread and self.thread.is_alive()
Alive == worker \notin {"none", "dead"}

Init ==
    /\ started = 0
    /\ worker = "none"
    /\ tally = NoTally
    /\ written = 0
    /\ cancel = FALSE
    /\ licensed \in BOOLEAN
    /\ queue = <<>>
    /\ gui = "idle"
    /\ polls = 0
    /\ card = [run |-> 0, state |-> "READY", files |-> 0]
    /\ summaryRun = 0
    /\ closed = FALSE
    /\ onDisk = [r \in Runs |-> 0]
    /\ applied = {}
    /\ permitted = FALSE

-------------------------------------------------------------------------------
(* Callbacks of the Tk thread *)

Callback == gui = "idle" /\ ~closed

\* Mutant of Start: the event of the previous run is not cleared.
StartKeepsEvent ==
    /\ Callback /\ ~Alive
    /\ started < MaxRuns
    /\ licensed
    /\ started' = started + 1
    /\ worker' = "validate"
    /\ tally' = NoTally
    /\ written' = 0
    /\ card' = [run |-> started + 1, state |-> "RUNNING", files |-> 0]
    /\ summaryRun' = 0
    /\ polls' = polls + 1
    /\ permitted' = FALSE
    /\ UNCHANGED <<cancel, licensed, queue, gui, closed, onDisk, applied>>

\* Every early return of start leaves the run state alone; the license check
\* is the one that depends on the state.  The queue is not touched.
Start ==
    /\ Callback /\ ~Alive
    /\ started < MaxRuns
    /\ licensed
    /\ started' = started + 1
    /\ worker' = "validate"
    /\ tally' = NoTally
    /\ written' = 0
    /\ cancel' = FALSE
    /\ card' = [run |-> started + 1, state |-> "RUNNING", files |-> 0]
    /\ summaryRun' = 0
    /\ polls' = polls + 1
    /\ permitted' = FALSE
    /\ UNCHANGED <<licensed, queue, gui, closed, onDisk, applied>>

CancelRun ==
    /\ Callback /\ Alive
    /\ cancel' = TRUE
    /\ UNCHANGED <<started, workerState, licensed, queue, guiState, permitted>>

\* Mutant of OnClose: the window goes at once.
CloseAtOnce ==
    /\ Callback
    /\ closed' = TRUE
    /\ cancel' = (cancel \/ Alive)
    /\ UNCHANGED <<started, workerState, licensed, queue, gui, polls, card,
                   summaryRun, applied, permitted>>

\* on_close: a request during a run cancels; otherwise the window goes.
OnClose ==
    /\ Callback
    /\ IF Alive
       THEN cancel' = TRUE /\ UNCHANGED closed
       ELSE closed' = TRUE /\ UNCHANGED cancel
    /\ UNCHANGED <<started, workerState, licensed, queue, gui, polls, card,
                   summaryRun, applied, permitted>>

\* import_license_file refuses while the worker is alive.
ImportLicense ==
    /\ Callback /\ ~Alive
    /\ licensed' = ~licensed
    /\ UNCHANGED <<started, workerState, cancel, queue, guiState, permitted>>

PollFires ==
    /\ Callback /\ polls > 0
    /\ gui' = "drain"
    /\ polls' = polls - 1
    /\ UNCHANGED <<started, workerState, cancel, licensed, queue, card,
                   summaryRun, closed, applied, permitted>>

\* One turn of the get_nowait loop: _apply_run_completion, then the summary
\* fields if the event carries them.  The event is not matched with the run.
Drain ==
    /\ gui = "drain" /\ queue # <<>>
    /\ LET e == Head(queue)
       IN  /\ card' = [run |-> e.run, state |-> e.state, files |-> e.files]
           /\ summaryRun' = IF e.hasSummary THEN e.run ELSE summaryRun
           /\ applied' = applied \cup {e.run}
    /\ queue' = Tail(queue)
    /\ UNCHANGED <<started, workerState, cancel, licensed, gui, polls, closed,
                   permitted>>

DrainEmpty ==
    /\ gui = "drain" /\ queue = <<>>
    /\ gui' = "look"
    /\ UNCHANGED <<started, workerState, cancel, licensed, queue, polls, card,
                   summaryRun, closed, applied, permitted>>

Rearm ==
    /\ gui' = "idle"
    /\ polls' = polls + 1
    /\ UNCHANGED <<started, workerState, cancel, licensed, queue, card,
                   summaryRun, closed, applied, permitted>>

\* Mutant of LookAtThread: poll goes on only while the thread is alive.
LookAtThreadOnly ==
    /\ gui = "look"
    /\ \/ Alive /\ Rearm
       \/ /\ ~Alive
          /\ gui' = "idle"
          /\ UNCHANGED <<started, workerState, cancel, licensed, queue, polls,
                         card, summaryRun, closed, applied, permitted>>

\* "alive or not empty": the thread is asked first, the queue afterwards.
LookAtThread ==
    /\ gui = "look"
    /\ \/ Alive /\ Rearm
       \/ /\ ~Alive
          /\ gui' = "lookAtQueue"
          /\ UNCHANGED <<started, workerState, cancel, licensed, queue, polls,
                         card, summaryRun, closed, applied, permitted>>

LookAtQueue ==
    /\ gui = "lookAtQueue"
    /\ \/ queue # <<>> /\ Rearm
       \/ /\ queue = <<>>
          /\ gui' = "idle"
          /\ UNCHANGED <<started, workerState, cancel, licensed, queue, polls,
                         card, summaryRun, closed, applied, permitted>>

PollStep == PollFires \/ Drain \/ DrainEmpty \/ LookAtThread \/ LookAtQueue

-------------------------------------------------------------------------------
(* The worker thread _run *)

Completion(state, withSummary) ==
    [run |-> started, state |-> state, files |-> written, hasSummary |-> withSummary]

\* The except clause: the event carries no summary fields.
Fail ==
    /\ queue' = Append(queue,
                       Completion(IF written > 0 THEN "PARTIAL" ELSE "FAILED", FALSE))
    /\ worker' = "exiting"
    /\ UNCHANGED <<started, tally, written, onDisk, cancel, licensed, guiState,
                   permitted>>

Proceed(to) ==
    /\ worker' = to
    /\ UNCHANGED <<started, cancel, licensed, queue, guiState>>

Validate ==
    /\ worker = "validate"
    /\ \/ licensed /\ Proceed("collect") /\ UNCHANGED <<tally, written, onDisk, permitted>>
       \/ ~licensed /\ Fail

\* run_live or run_offline; it raises when no command plan can be made.
CollectDevices ==
    /\ worker = "collect"
    /\ \/ /\ Proceed("revalidate")
          /\ \E o \in PossibleOutcomes(Devices, cancel) :
                tally' = Tally(o)
          /\ permitted' = licensed
          /\ UNCHANGED <<written, onDisk>>
       \/ Fail

\* Mutant of Revalidate: the license is not looked at again.
RevalidateNothing ==
    /\ worker = "revalidate"
    /\ Proceed("save") /\ UNCHANGED <<tally, written, onDisk, permitted>>

Revalidate ==
    /\ worker = "revalidate"
    /\ \/ licensed /\ Proceed("save") /\ UNCHANGED <<tally, written, onDisk, permitted>>
       \/ ~licensed /\ Fail

\* One protected report; the reports of a device exist only if it completed.
SaveReport ==
    /\ worker = "save" /\ written < tally.complete * FilesPerDevice
    /\ \/ /\ Proceed("save")
          /\ written' = written + 1
          /\ onDisk' = [onDisk EXCEPT ![started] = @ + 1]
          /\ UNCHANGED <<tally, permitted>>
       \/ Fail

\* Mutant of FinishedState: cancelled devices are not counted as missing.
FinishedIgnoringCancelled ==
    IF written > 0
    THEN IF tally.failed = 0 THEN "COMPLETED" ELSE "PARTIAL"
    ELSE IF tally.cancelled > 0 /\ tally.failed = 0 THEN "CANCELLED" ELSE "FAILED"

\* The state of a run that raised nothing.
FinishedState ==
    LET failed == tally.failed + tally.cancelled
    IN  IF written > 0
        THEN IF failed = 0 THEN "COMPLETED" ELSE "PARTIAL"
        ELSE IF tally.cancelled > 0 /\ tally.failed = 0 THEN "CANCELLED" ELSE "FAILED"

Conclude ==
    /\ worker = "save" /\ written = tally.complete * FilesPerDevice
    /\ queue' = Append(queue, Completion(FinishedState, TRUE))
    /\ worker' = "exiting"
    /\ UNCHANGED <<started, tally, written, onDisk, cancel, licensed, guiState,
                   permitted>>

Exit ==
    /\ worker = "exiting"
    /\ Proceed("dead")
    /\ UNCHANGED <<tally, written, onDisk, permitted>>

WorkerStep ==
    Validate \/ CollectDevices \/ Revalidate \/ SaveReport \/ Conclude \/ Exit

-------------------------------------------------------------------------------
(* The world: the license expires, or the installed file is replaced *)

LicenseChanges ==
    /\ licensed' = ~licensed
    /\ permitted' = (permitted \/ licensed')
    /\ UNCHANGED <<started, workerState, cancel, queue, guiState>>

Next ==
    \/ Start \/ CancelRun \/ OnClose \/ ImportLicense
    \/ PollStep \/ WorkerStep \/ LicenseChanges

Spec == Init /\ [][Next]_vars

\* Tk runs due timers and the interpreter schedules the worker, whose blocking
\* calls have timeouts.  The operator and the license are not fair.
Fairness == WF_vars(PollStep) /\ WF_vars(WorkerStep)

FairSpec == Spec /\ Fairness

-------------------------------------------------------------------------------
(* Properties *)

\* "Wait for the current device and report save to finish, then close the
\* window" (on_close): once the window, and with it the process, is gone no
\* report is being saved and no completion is on its way.
QuietAfterClose == [][closed => onDisk' = onDisk /\ queue' = queue]_vars

\* "Export is a separate licensed operation; expiry or replacement may have
\* occurred while collecting" (_run): no report is saved unless the license
\* permitted the batch at some moment after collection ended.
ExportIsLicensed == written > 0 => permitted

\* The card never claims files that do not exist, nor hides existing ones
\* ("actual protected-file count"), whatever run it was set from.  COMPLETED is
\* said only of a run with every requested report of every selected device,
\* FAILED and CANCELLED only of one without files, and the Summary tab covers
\* only a run whose completion was shown.
CardIsHonest ==
    LET full == Cardinality(Devices) * FilesPerDevice
    IN  /\ card.state \notin {"READY", "RUNNING"} => card.files = onDisk[card.run]
        /\ card.state = "COMPLETED" => onDisk[card.run] = full
        /\ card.state = "PARTIAL" => onDisk[card.run] > 0
        /\ card.state \in {"FAILED", "CANCELLED"} => onDisk[card.run] = 0
        /\ summaryRun \in {0} \cup applied

\* docs/08_Report_Output_Troubleshooting.md:5, "The Run & Review card shows
\* the current state": a card that shows a result shows the current run's.
CardShowsCurrentRun == card.run = started

\* docs/06_Overall_Summary_Reporting.txt:4, "Summary covers devices selected
\* for the current audit run. It does not combine earlier runs."
SummaryCoversCurrentRun == ~Alive /\ queue = <<>> => summaryRun \in {0, started}

\* A cancellation is never lost while its run lives, and never leaks into the
\* next run: the shared event is cleared only between two workers.
CancelBelongsToRun ==
    [][/\ cancel /\ ~cancel' => ~Alive /\ started' = started + 1
       /\ started' # started => ~cancel']_vars

\* Every run started is eventually reported on the card (poll asks the thread
\* before the queue, so the last event is never left behind), unless the
\* window was closed after the worker had ended.
EveryRunIsReported ==
    \A r \in Runs : (started = r) ~> (r \in applied \/ closed)
===============================================================================
