------------------------------ MODULE RunStore ------------------------------
(***************************************************************************)
(* application/run_service.py over its two stores: the audit database      *)
(* (infrastructure/persistence/repositories.py) and the evidence store     *)
(* (infrastructure/evidence/evidence_store.py).  They share no             *)
(* transaction, so the life of one audit run is a sequence of single       *)
(* writes:                                                                 *)
(*                                                                         *)
(*   begin_run:  record, bundle, draft, (device record, directory)*,       *)
(*               RUNNING, activity;                                        *)
(*   the sink:   per device, the files and records of its outputs;         *)
(*   persist:    (device record, result, links, results.json)*, counts,    *)
(*               status, manifest, activity;                               *)
(*   abort_run:  (device record)*, counts, status, manifest, activity.     *)
(*                                                                         *)
(* Each write may fail, the process may end between any two of them, and   *)
(* the operator may purge or delete the run from the History tab.  A       *)
(* database operation is one transaction; a file appears by a rename.      *)
(* A result stands for all results of its device.                          *)
(***************************************************************************)
EXTENDS ScanTypes

CONSTANTS NTargets,    \* len(context.device_ids)
          NCommands,   \* commands with an output, per device
          DirOf,       \* _safe_name of each target: its directory
          Failures,    \* failures of a device before its outputs are complete
          MaxFaults    \* bound: failing writes

Targets == 1..NTargets
Commands == 1..NCommands
Dirs == {DirOf[t] : t \in Targets}

ASSUME SizeAssumption == NTargets \in Nat \ {0} /\ NCommands \in Nat \ {0} /\ MaxFaults \in Nat
ASSUME DirAssumption == DOMAIN DirOf = Targets
ASSUME FailuresAssumption == Failures \subseteq FailureStatuses

VARIABLES
    kind,        \* live (_live_scan_worker), checklist (_checklist_scan_worker)
                 \* or import (import_offline)
    pc, at,      \* the worker: its next write, and the device of a loop
    begun,       \* begin_run has returned a context
    aborts,      \* calls of abort_run so far
    cancel,      \* _scan_cancel_event
    sink,        \* per device, its call of the evidence sink
    known,       \* context.artifacts_by_device: commands with an artifact id
    outcome,     \* per device, the outcome of its worker
    summary,     \* summary.status
    run, dev,    \* database: status of the run record and of the device records
    counts,      \* database: device_count, success_count, ...
    rows,        \* database: per device, commands with an artifact record
    result,      \* database: devices with a result record
    links,       \* database: per device, the artifacts its result is linked to
    log,         \* database: activities recorded for the run
    bundle,      \* files: the run directory: absent, made, drafted (run.json)
    owner,       \* files: per directory, the target of its device.json (0: none)
    files,       \* files: per device, commands with an output file
    listed,      \* files: per device, commands listed in device.json
    resultsFile, \* files: directories with a results.json
    manifest,    \* files: manifest.json, with status None when there is none
    scanning,    \* the window: _scan_in_progress
    current,     \* the window: current_run_id is this run (while scanning)
    deleting,    \* the window: inside delete_run, between files and record
    removed,     \* history: the operator has removed files of the run
    removedLive, \* history: ... while the window said it was running
    faults       \* history: writes that have failed

memory == <<kind, begun, aborts, sink, known, outcome, summary>>
records == <<run, dev, counts, rows, result, links, log>>
tree == <<bundle, owner, files, listed, resultsFile, manifest>>
window == <<cancel, scanning, current, deleting, removed, removedLive>>
vars == <<pc, at, memory, records, tree, window, faults>>

Imported == kind = "import"
Checklist == kind = "checklist"

Absent == "absent"
Final == FinalRunStatuses
NoManifest == [status |-> None, listed |-> [t \in Targets |-> {}]]
Finalized == manifest.status # None
NoCounts == [device |-> 0, success |-> 0, failure |-> 0, cancelled |-> 0]

Init ==
    /\ kind \in {"live", "checklist", "import"}
    /\ pc = "create" /\ at = 1 /\ begun = FALSE /\ aborts = 0 /\ cancel = FALSE
    /\ sink = [t \in Targets |-> "collect"]
    /\ known = [t \in Targets |-> {}]
    /\ outcome = [t \in Targets |-> None]
    /\ summary = None
    /\ run = Absent /\ dev = [t \in Targets |-> Absent] /\ counts = NoCounts
    /\ rows = [t \in Targets |-> {}]
    /\ result = {} /\ links = [t \in Targets |-> {}]
    /\ log = {}
    /\ bundle = Absent /\ owner = [d \in Dirs |-> 0]
    /\ files = [t \in Targets |-> {}] /\ listed = [t \in Targets |-> {}]
    /\ resultsFile = {} /\ manifest = NoManifest
    /\ scanning = TRUE /\ current = FALSE /\ deleting = FALSE
    /\ removed = FALSE /\ removedLive = FALSE
    /\ faults = 0

-------------------------------------------------------------------------------
(* The worker: what it writes next, what a write needs, where an exception *)
(* leads                                                                   *)

BeginSteps == {"create", "mkdir", "draft", "device", "directory", "running", "started"}
UndoSteps == {"undo record", "undo files"}
PersistSteps == {"outcome", "result", "link", "results", "counts", "status",
                 "manifest", "completed"}
AbortSteps == {"close device", "close counts", "close status", "close manifest",
               "close log"}
Ended == {"over", "exited"}

\* Mutant of Writable: only the directory is looked for.
WritableExisting == bundle # Absent

\* _existing_run and _writable_run.
Writable == bundle # Absent /\ ~Finalized

\* What the write itself insists on; without it the call raises.
Possible ==
    CASE pc \in {"device", "running", "counts", "status", "close counts", "close status"}
            -> run # Absent
      [] pc \in {"outcome", "result", "link"} -> dev[at] # Absent
      [] pc \in {"directory", "manifest", "close manifest"} -> Writable
      [] pc = "draft" -> bundle # Absent
      [] pc = "results" -> Writable /\ DirOf[at] \notin resultsFile
      [] OTHER -> TRUE

\* _checklist_scan_worker aborts the run a second time: the exception of its
\* inner call, which has aborted it, is raised again.
AfterAbort == IF Checklist /\ aborts = 1 THEN "abort" ELSE "over"

\* Mutants of Handler: a failed export relabels a finished run; a persist that
\* fails is not aborted.
HandlerForgetsFinalized(p) ==
    CASE p \in BeginSteps \ {"create"} -> "undo record"
      [] p \in PersistSteps \cup {"audit", "export"} -> "abort"
      [] p = "close manifest" -> "close log"
      [] p \in AbortSteps -> AfterAbort
      [] OTHER -> "over"

HandlerForgetsAbort(p) ==
    CASE p \in BeginSteps \ {"create"} -> "undo record"
      [] p = "audit" -> "abort"
      [] p = "close manifest" -> "close log"
      [] p \in AbortSteps -> AfterAbort
      [] OTHER -> "over"

\* Where the exception of a call is handled: begin_run undoes (its first write
\* is outside the try block), the workers abort unless run_finalized, abort_run
\* tolerates a manifest it cannot write, _abort_persistent_run everything.
Handler(p) ==
    CASE p \in BeginSteps \ {"create"} -> "undo record"
      [] p \in PersistSteps \cup {"audit"} -> "abort"
      [] p = "close manifest" -> "close log"
      [] p \in AbortSteps -> AfterAbort
      [] OTHER -> "over"

FaultBound == IF pc \in UndoSteps \cup AbortSteps THEN MaxFaults + 1 ELSE MaxFaults

CallFails ==
    /\ pc \notin Ended \cup {"abort"}
    /\ pc = "audit" => \A t \in Targets : sink[t] = "collect" /\ outcome[t] = None
    /\ IF Possible THEN faults < FaultBound /\ faults' = faults + 1
                   ELSE UNCHANGED faults
    /\ pc' = Handler(pc) /\ at' = 1
    /\ UNCHANGED <<memory, records, tree, window>>

Step(from, to) == pc = from /\ Possible /\ pc' = to /\ UNCHANGED <<window, faults>>

\* Mutant of Loop: one round too many.
LoopPastTheEnd(from, again, after) ==
    /\ Step(from, IF at <= NTargets THEN again ELSE after)
    /\ at' = IF at <= NTargets THEN at + 1 ELSE 1

\* A step in a loop over the devices that ends the body for device at.
Loop(from, again, after) ==
    /\ Step(from, IF at < NTargets THEN again ELSE after)
    /\ at' = IF at < NTargets THEN at + 1 ELSE 1

-------------------------------------------------------------------------------
(* begin_run *)

CreateRecord ==
    /\ Step("create", "mkdir") /\ run' = "CREATED"
    /\ counts' = [counts EXCEPT !.device = NTargets]
    /\ UNCHANGED <<at, memory, dev, rows, result, links, log, tree>>

MakeBundle ==
    /\ Step("mkdir", "draft") /\ bundle' = "made"
    /\ UNCHANGED <<at, memory, records, owner, files, listed, resultsFile, manifest>>

\* The snapshots of checks and profile, and run.json.
WriteDraft ==
    /\ Step("draft", "device") /\ bundle' = "drafted"
    /\ UNCHANGED <<at, memory, records, owner, files, listed, resultsFile, manifest>>

AddDevice ==
    /\ Step("device", "directory") /\ dev' = [dev EXCEPT ![at] = "QUEUED"]
    /\ UNCHANGED <<at, memory, run, counts, rows, result, links, log, tree>>

\* prepare_device with the target_ip as metadata: a directory of that name, if
\* there is one, is taken for the device's own, and its target_ip replaced.
PrepareDirectory ==
    /\ Loop("directory", "device", "running")
    /\ owner' = [owner EXCEPT ![DirOf[at]] = at]
    /\ UNCHANGED <<memory, records, bundle, files, listed, resultsFile, manifest>>

SetRunning ==
    /\ Step("running", "started") /\ run' = "RUNNING"
    /\ UNCHANGED <<at, memory, dev, counts, rows, result, links, log, tree>>

\* The activity; begin_run returns, and the window makes the run its current one
\* (an import does so only when it is complete).
RecordStarted ==
    /\ pc = "started" /\ pc' = "audit" /\ begun' = TRUE
    /\ log' = log \cup {"AUDIT_STARTED"}
    /\ current' = ~Imported
    /\ UNCHANGED <<at, kind, aborts, sink, known, outcome, summary, run, dev, counts, rows,
                   result, links, tree, cancel, scanning, deleting, removed, removedLive, faults>>

\* repository.delete_run: the records of devices, artifacts and results go with
\* the run by cascade.
NoRecords ==
    /\ run' = Absent /\ dev' = [t \in Targets |-> Absent] /\ counts' = NoCounts
    /\ rows' = [t \in Targets |-> {}] /\ result' = {}
    /\ links' = [t \in Targets |-> {}]
    /\ UNCHANGED log

NoTree ==
    /\ bundle' = Absent /\ owner' = [d \in Dirs |-> 0]
    /\ files' = [t \in Targets |-> {}] /\ listed' = [t \in Targets |-> {}]
    /\ resultsFile' = {} /\ manifest' = NoManifest

\* Mutant of UndoRecord: the bundle is left behind.
UndoRecordOnly ==
    /\ Step("undo record", "over") /\ NoRecords
    /\ UNCHANGED <<at, memory, tree>>

UndoRecord ==
    /\ Step("undo record", "undo files") /\ NoRecords
    /\ UNCHANGED <<at, memory, tree>>

UndoFiles ==
    /\ Step("undo files", "over") /\ NoTree
    /\ UNCHANGED <<at, memory, records>>

Begin == CreateRecord \/ MakeBundle \/ WriteDraft \/ AddDevice \/ PrepareDirectory
            \/ SetRunning \/ RecordStarted \/ UndoRecord \/ UndoFiles

-------------------------------------------------------------------------------
(* The audit: one worker per device, each with one call of the sink *)

StoreLock == {"list", "row", "id"}
ContextLock == {"update", "prepare", "file"} \cup StoreLock

\* The lock the sink of t needs for its next step is free: evidence_sink holds
\* context.lock throughout, imported_sink has only the lock of the store.
Turn(t) ==
    \A u \in Targets \ {t} : sink[u] \notin (IF Imported THEN StoreLock ELSE ContextLock)

SinkPossible(t) ==
    CASE sink[t] \in {"update", "row"} -> dev[t] # Absent
      [] sink[t] \in {"prepare", "file"} -> Writable
      [] OTHER -> TRUE

SinkStep(t, from, to) ==
    /\ pc = "audit" /\ sink[t] = from /\ outcome[t] = None
    /\ Turn(t) /\ SinkPossible(t)
    /\ sink' = [sink EXCEPT ![t] = to]
    /\ UNCHANGED <<pc, at, kind, begun, aborts, outcome, summary, run, counts, result, links, log,
                   bundle, owner, resultsFile, manifest, window, faults>>

\* The command whose output the sink of t is storing.
Command(t) == Cardinality(known[t]) + 1

CallSink(t) ==
    /\ SinkStep(t, "collect", IF Imported THEN "prepare" ELSE "update")
    /\ UNCHANGED <<known, dev, rows, files, listed>>

SetCollecting(t) ==
    /\ SinkStep(t, "update", "prepare") /\ dev' = [dev EXCEPT ![t] = "COLLECTING"]
    /\ UNCHANGED <<known, rows, files, listed>>

\* prepare_device again: the directory is there, the facts are added.
Describe(t) ==
    /\ SinkStep(t, "prepare", "file")
    /\ UNCHANGED <<known, dev, rows, files, listed>>

\* Mutant of WriteOutput: the record is added before the file is written.
WriteOutputLast(t) ==
    /\ SinkStep(t, "file", "row")
    /\ UNCHANGED <<known, dev, rows, files, listed>>

\* write_evidence, under the lock of the store: the file ...
WriteOutput(t) ==
    /\ SinkStep(t, "file", "list")
    /\ files' = [files EXCEPT ![t] = @ \cup {Command(t)}]
    /\ UNCHANGED <<known, dev, rows, listed>>

\* ... its entry in device.json ...
ListOutput(t) ==
    /\ SinkStep(t, "list", "row")
    /\ listed' = [listed EXCEPT ![t] = @ \cup {Command(t)}]
    /\ UNCHANGED <<known, dev, rows, files>>

\* ... its record ...
AddArtifact(t) ==
    /\ SinkStep(t, "row", "id")
    /\ rows' = [rows EXCEPT ![t] = @ \cup {Command(t)}]
    /\ UNCHANGED <<known, dev, files, listed>>

\* ... and the id of the record, in device.json and in artifacts_by_device.
AddArtifactId(t) ==
    /\ SinkStep(t, "id", IF Command(t) < NCommands THEN "file" ELSE "stored")
    /\ known' = [known EXCEPT ![t] = @ \cup {Command(t)}]
    /\ UNCHANGED <<dev, rows, files, listed>>

WorkerEnds(t, s) ==
    /\ pc = "audit" /\ outcome[t] = None
    /\ outcome' = [outcome EXCEPT ![t] = s]
    /\ UNCHANGED <<pc, at, kind, begun, aborts, known, summary, records, tree, window>>

\* Mutant of SinkFails: the worker evaluates what it could not store.
SinkFailsQuietly(t) ==
    /\ sink[t] \in ContextLock
    /\ Turn(t)
    /\ IF SinkPossible(t) THEN faults < FaultBound /\ faults' = faults + 1
                          ELSE UNCHANGED faults
    /\ sink' = [sink EXCEPT ![t] = "collect"]
    /\ WorkerEnds(t, "COMPLETE")

\* An exception of the sink is EVALUATION_FAILED (audit_service.py); the locks
\* are released.
SinkFails(t) ==
    /\ sink[t] \in ContextLock
    /\ Turn(t)
    /\ IF SinkPossible(t) THEN faults < FaultBound /\ faults' = faults + 1
                          ELSE UNCHANGED faults
    /\ sink' = [sink EXCEPT ![t] = "collect"]
    /\ WorkerEnds(t, "EVALUATION_FAILED")

\* The worker ends without evidence, or after it.
WorkerStops(t) ==
    /\ sink[t] = "collect"
    /\ \E s \in Failures \cup (IF cancel THEN {"CANCELLED"} ELSE {}) : WorkerEnds(t, s)
    /\ UNCHANGED <<sink, faults>>

WorkerJudges(t) ==
    /\ sink[t] = "stored"
    /\ \E s \in {"COMPLETE", "EVALUATION_FAILED"} : WorkerEnds(t, s)
    /\ UNCHANGED <<sink, faults>>

Worker(t) ==
    \/ CallSink(t) \/ SetCollecting(t) \/ Describe(t)
    \/ WriteOutput(t) \/ ListOutput(t) \/ AddArtifact(t) \/ AddArtifactId(t)
    \/ SinkFails(t) \/ WorkerStops(t) \/ WorkerJudges(t)

\* The orchestrator returns its summary when every outcome is known.
AuditReturns ==
    /\ \A t \in Targets : outcome[t] # None
    /\ Step("audit", "outcome")
    /\ summary' = RunStatusOf(outcome, cancel)
    /\ UNCHANGED <<at, kind, begun, aborts, sink, known, outcome, records, tree>>
-------------------------------------------------------------------------------
(* persist_result *)

\* The window adds a DEVICE-SCAN result for a device that was not evaluated;
\* an import does not.
HasResult(t) == ~Imported \/ outcome[t] = "COMPLETE"

RecordOutcome ==
    /\ Step("outcome", IF HasResult(at) THEN "result" ELSE "results")
    /\ dev' = [dev EXCEPT ![at] = outcome[at]]
    /\ UNCHANGED <<at, memory, run, counts, rows, result, links, log, tree>>

AddResult ==
    /\ Step("result", IF known[at] # {} THEN "link" ELSE "results")
    /\ result' = result \cup {at}
    /\ UNCHANGED <<at, memory, run, dev, counts, rows, links, log, tree>>

LinkEvidence ==
    /\ Step("link", "results") /\ links' = [links EXCEPT ![at] = known[at]]
    /\ UNCHANGED <<at, memory, run, dev, counts, rows, result, log, tree>>

WriteResults ==
    /\ Loop("results", "outcome", "counts")
    /\ resultsFile' = resultsFile \cup {DirOf[at]}
    /\ UNCHANGED <<memory, records, bundle, owner, files, listed, manifest>>

CountsOf(d) ==
    [device    |-> Cardinality({t \in Targets : d[t] # Absent}),
     success   |-> Cardinality(WithStatus(d, {"COMPLETE"})),
     failure   |-> Cardinality(WithStatus(d, FailureStatuses)),
     cancelled |-> Cardinality(WithStatus(d, {"CANCELLED"}))]

RefreshCounts(from, to) ==
    /\ Step(from, to) /\ counts' = CountsOf(dev)
    /\ UNCHANGED <<at, memory, run, dev, rows, result, links, log, tree>>

SetStatus(from, to) ==
    /\ Step(from, to) /\ run' = summary
    /\ UNCHANGED <<at, memory, dev, counts, rows, result, links, log, tree>>

\* Mutant of Finalize: the manifest takes its list from the database.
FinalizeFromRecords(from, to) ==
    /\ Step(from, to) /\ manifest' = [status |-> summary, listed |-> known]
    /\ UNCHANGED <<at, memory, records, bundle, owner, files, listed, resultsFile>>

\* finalize_run: the list of artifacts is that of the device.json files.
Finalize(from, to) ==
    /\ Step(from, to) /\ manifest' = [status |-> summary, listed |-> listed]
    /\ UNCHANGED <<at, memory, records, bundle, owner, files, listed, resultsFile>>

RecordActivity(from, to, activity) ==
    /\ Step(from, to) /\ log' = log \cup {activity}
    /\ UNCHANGED <<at, memory, run, dev, counts, rows, result, links, tree>>

\* The checklist files and the text report, which are not part of the run.
Export ==
    /\ Step("export", "over")
    /\ UNCHANGED <<at, memory, records, tree>>

Persist ==
    \/ RecordOutcome \/ AddResult \/ LinkEvidence \/ WriteResults
    \/ RefreshCounts("counts", "status")
    \/ SetStatus("status", "manifest")
    \/ Finalize("manifest", "completed")
    \/ RecordActivity("completed", IF Checklist THEN "export" ELSE "over", "AUDIT_COMPLETED")
    \/ Export

-------------------------------------------------------------------------------
(* abort_run *)

\* The event is read when the run is aborted.
StartAbort ==
    /\ Step("abort", "close device") /\ at' = 1 /\ aborts' = aborts + 1
    /\ summary' = IF cancel THEN "CANCELLED" ELSE "FAILED"
    /\ UNCHANGED <<kind, begun, sink, known, outcome, records, tree>>

\* Mutant of CloseDevice: every device gets the status of the abort.
CloseEveryDevice ==
    /\ Loop("close device", "close device", "close counts")
    /\ dev' = [dev EXCEPT ![at] =
                 IF @ = Absent THEN @
                 ELSE IF summary = "CANCELLED" THEN "CANCELLED" ELSE "EVALUATION_FAILED"]
    /\ UNCHANGED <<memory, run, counts, rows, result, links, log, tree>>

\* Mutant of CloseDevice: only devices that have been contacted are closed.
CloseContactedDevice ==
    /\ Loop("close device", "close device", "close counts")
    /\ dev' = [dev EXCEPT ![at] =
                 IF @ # "COLLECTING" THEN @
                 ELSE IF summary = "CANCELLED" THEN "CANCELLED" ELSE "EVALUATION_FAILED"]
    /\ UNCHANGED <<memory, run, counts, rows, result, links, log, tree>>

\* A device with a terminal status keeps it.
CloseDevice ==
    /\ Loop("close device", "close device", "close counts")
    /\ dev' = [dev EXCEPT ![at] =
                 IF @ \in TerminalStatuses \cup {Absent} THEN @
                 ELSE IF summary = "CANCELLED" THEN "CANCELLED" ELSE "EVALUATION_FAILED"]
    /\ UNCHANGED <<memory, run, counts, rows, result, links, log, tree>>

Abort ==
    \/ StartAbort \/ CloseDevice
    \/ RefreshCounts("close counts", "close status")
    \/ SetStatus("close status", "close manifest")
    \/ Finalize("close manifest", "close log")
    \/ RecordActivity("close log", AfterAbort,
                      IF summary = "CANCELLED" THEN "AUDIT_CANCELLED" ELSE "AUDIT_FAILED")

-------------------------------------------------------------------------------
(* The window: callbacks of the Tk thread, which begins a live or checklist  *)
(* run itself, and an import in a thread                                     *)

TkFree == /\ Imported \/ pc \notin BeginSteps \cup UndoSteps
          /\ ~deleting /\ pc # "exited"

Callback == UNCHANGED <<pc, at, memory>>

FinishScan ==
    /\ TkFree /\ pc = "over" /\ scanning
    /\ scanning' = FALSE /\ current' = FALSE
    /\ UNCHANGED <<cancel, deleting, removed, removedLive, records, tree, faults>>
    /\ Callback

\* The event is not given to an import.
CancelScan ==
    /\ TkFree /\ scanning /\ ~cancel /\ ~Imported
    /\ cancel' = TRUE
    /\ UNCHANGED <<scanning, current, deleting, removed, removedLive, records, tree, faults>>
    /\ Callback

\* open_historical_run, of this run or of another one.
OpenRun ==
    /\ TkFree /\ scanning
    /\ \/ run # Absent /\ current' = TRUE
       \/ current' = FALSE
    /\ UNCHANGED <<cancel, scanning, deleting, removed, removedLive, records, tree, faults>>
    /\ Callback

\* The guard of purge_historical_evidence and delete_historical_run.
Offered == TkFree /\ ~(scanning /\ current)

StoreFree == \A t \in Targets : sink[t] \notin StoreLock

Remove ==
    /\ removed' = TRUE
    /\ removedLive' = (removedLive \/ scanning)
    /\ UNCHANGED <<cancel, scanning, current>>

Purge ==
    /\ Offered /\ bundle # Absent /\ StoreFree
    /\ \E t \in Targets : files[t] # {}
    /\ files' = [t \in Targets |-> {}]
    /\ Remove
    /\ UNCHANGED <<records, deleting, bundle, owner, listed, resultsFile, manifest, faults>>
    /\ Callback

\* delete_run: the files, then the record; either may fail.
DeleteFiles ==
    /\ Offered /\ (bundle # Absent \/ run # Absent) /\ StoreFree
    /\ NoTree /\ deleting' = TRUE
    /\ Remove
    /\ UNCHANGED <<records, faults>>
    /\ Callback

DeleteRecord ==
    /\ deleting /\ deleting' = FALSE /\ current' = FALSE
    /\ NoRecords
    /\ UNCHANGED <<cancel, scanning, removed, removedLive, tree, faults>>
    /\ Callback

DeleteRecordFails ==
    /\ deleting /\ deleting' = FALSE
    /\ faults < FaultBound /\ faults' = faults + 1
    /\ UNCHANGED <<cancel, scanning, current, removed, removedLive, records, tree>>
    /\ Callback

\* The process ends: the threads are daemons, and no later start looks for runs
\* that were left open.
Exit ==
    /\ pc # "exited"
    /\ pc' = "exited" /\ at' = 1
    /\ sink' = [t \in Targets |-> "collect"]
    /\ known' = [t \in Targets |-> {}]
    /\ outcome' = [t \in Targets |-> None]
    /\ summary' = None
    /\ scanning' = FALSE /\ current' = FALSE /\ deleting' = FALSE
    /\ UNCHANGED <<kind, begun, aborts, cancel, removed, removedLive, records, tree, faults>>

Operator == CancelScan \/ OpenRun \/ Purge \/ DeleteFiles \/ DeleteRecord
                \/ DeleteRecordFails

Main == Begin \/ AuditReturns \/ Persist \/ Abort \/ CallFails

Done == pc \in Ended /\ UNCHANGED vars

Next ==
    \/ Main
    \/ \E t \in Targets : Worker(t)
    \/ FinishScan \/ Operator \/ Exit \/ Done

Spec == Init /\ [][Next]_vars

\* The worker goes on; a device worker ends (see ScanOrchestrator); Tk runs the
\* callback of a worker that is over.
Fairness ==
    /\ WF_vars(Main)
    /\ \A t \in Targets : WF_vars(Worker(t))
    /\ WF_vars(FinishScan)

FairSpec == Spec /\ Fairness

-------------------------------------------------------------------------------
(* Properties *)

WorkerType ==
    /\ kind \in {"live", "checklist", "import"}
    /\ pc \in BeginSteps \cup UndoSteps \cup PersistSteps \cup AbortSteps
                \cup {"audit", "export", "abort"} \cup Ended
    /\ at \in Targets /\ begun \in BOOLEAN /\ aborts \in 0..2
    /\ sink \in [Targets -> {"collect", "stored"} \cup ContextLock]
    /\ known \in [Targets -> SUBSET Commands]
    /\ outcome \in [Targets -> TerminalStatuses \cup {None}]
    /\ summary \in Final \cup {None}

DatabaseType ==
    /\ run \in {Absent, "CREATED", "RUNNING"} \cup Final
    /\ dev \in [Targets -> {Absent, "QUEUED", "COLLECTING"} \cup TerminalStatuses]
    /\ counts \in [{"device", "success", "failure", "cancelled"} -> 0..NTargets]
    /\ rows \in [Targets -> SUBSET Commands]
    /\ result \subseteq Targets /\ links \in [Targets -> SUBSET Commands]
    /\ log \subseteq {"AUDIT_STARTED", "AUDIT_COMPLETED", "AUDIT_FAILED", "AUDIT_CANCELLED"}

FilesType ==
    /\ bundle \in {Absent, "made", "drafted"}
    /\ owner \in [Dirs -> 0..NTargets]
    /\ files \in [Targets -> SUBSET Commands] /\ listed \in [Targets -> SUBSET Commands]
    /\ resultsFile \subseteq Dirs
    /\ manifest \in [status : Final \cup {None}, listed : [Targets -> SUBSET Commands]]

WindowType ==
    /\ cancel \in BOOLEAN /\ scanning \in BOOLEAN /\ current \in BOOLEAN
    /\ deleting \in BOOLEAN /\ removed \in BOOLEAN /\ removedLive \in BOOLEAN
    /\ faults \in 0..MaxFaults + 1

\* Types of the variables: of the worker, of both stores, of the window.
TypeOK == WorkerType /\ DatabaseType /\ FilesType /\ WindowType

\* Crash consistency of the evidence: at every instant, also after the process
\* has ended, a record points to a listed artifact and a listed artifact to a
\* file, unless the operator has removed them.
EvidenceIsBacked ==
    ~removed => \A t \in Targets : rows[t] \subseteq listed[t] /\ listed[t] \subseteq files[t]

\* verify_evidence goes by the manifest once there is one: everything the
\* History and Evidence tabs show for the run is then in its list, even after a
\* device failed half way.
HistoryIsVerifiable ==
    Finalized => \A t \in Targets : rows[t] \subseteq manifest.listed[t]

\* "Create the run manifest last, making the evidence bundle read-only"
\* (evidence_store.py:326): after it the bundle can only lose raw outputs or go.
BundleIsFrozen ==
    [][Finalized => bundle' = Absent \/ UNCHANGED <<owner, listed, resultsFile, manifest>>]_vars

\* A run with a final status has no open device, and its counts are those of
\* its devices, on the regular path and on the one of abort_run.
ClosedRunIsSettled ==
    run \in Final =>
        /\ \A t \in Targets : dev[t] \in TerminalStatuses
        /\ counts.device = NTargets
        /\ counts.success + counts.failure + counts.cancelled = NTargets
        /\ counts.success = Cardinality(WithStatus(dev, {"COMPLETE"}))

\* begin_run leaves all of a run or, when one call in it fails, nothing of it
\* (when undoing fails as well, or the operator interferes, something may stay).
BeginIsAllOrNothing ==
    pc = "over" /\ ~begun /\ faults <= 1 /\ ~removed => run = Absent /\ bundle = Absent

\* The outcome recorded for a device is never replaced, whatever fails later.
OutcomesStay ==
    [][\A t \in Targets : dev[t] \in TerminalStatuses => dev'[t] \in {dev[t], Absent}]_vars

\* A device that counts as evaluated has all its outputs on record, and in a
\* run that went through its result is linked to all of them.
CompleteIsTraceable ==
    \A t \in Targets : dev[t] = "COMPLETE" =>
        /\ rows[t] = Commands
        /\ run \in {"COMPLETE", "PARTIAL"} => t \in result /\ links[t] = Commands

\* "Subsequent CKL/TXT export failures must not relabel that completed
\* assessment" (gui/main_window.py:2332): once the completion is on record the
\* two stores agree about the run.
CompletedIsNotRelabelled ==
    "AUDIT_COMPLETED" \in log /\ run # Absent /\ Finalized => run = manifest.status

\* While the process lives, at most one call fails and nobody removes the run
\* under its worker, a run does not stay RUNNING: it is finished or aborted.
EveryRunCloses ==
    run = "RUNNING" ~> run # "RUNNING" \/ pc = "exited" \/ faults > 1 \/ removedLive

\* Claims of the code that do not hold.

\* abort_run (run_service.py:537): "... so history never remains falsely
\* RUNNING".
HistoryIsNotFalselyRunning == run = "RUNNING" => scanning

\* delete_historical_run and purge_historical_evidence
\* (gui/main_window.py:944, 959): "The active audit run cannot be deleted."
ActiveRunIsKept == ~removedLive

\* _evaluate_device (audit_service.py:156): "The stable target IP identifies
\* the device directory".
TargetIdentifiesDirectory ==
    begun /\ bundle # Absent => \A t \in Targets : owner[DirOf[t]] = t
===============================================================================
