---------------------------- MODULE RunStoreProofs ----------------------------
(***************************************************************************)
(* Theorems about RunStore, for every number of devices and outputs, every *)
(* naming of the directories and every bound on the failing calls.         *)
(***************************************************************************)
EXTENDS RunStore, FiniteSetTheorems, TLAPS

-------------------------------------------------------------------------------
(* The inductive invariant *)

Starting == BeginSteps \cup UndoSteps
Started == {"audit", "export", "abort"} \cup PersistSteps \cup AbortSteps

\* The records of a run may be gone: the operator deletes it at any point.
Recorded == run # Absent

\* What the worker knows where it stands.
ControlInv ==
    /\ pc \in PersistSteps \cup {"audit", "export"} => aborts = 0
    /\ pc \in Starting => aborts = 0 /\ begun = FALSE
    /\ pc \in Started => begun = TRUE
    /\ pc = "abort" => aborts \in 0..1
    /\ pc \in AbortSteps => aborts \in 1..2 /\ summary \in {"CANCELLED", "FAILED"}
    /\ pc \in PersistSteps =>
          summary \in Final /\ \A t \in Targets : outcome[t] \in TerminalStatuses

\* Nothing is stored before the audit.
StartInv ==
    pc \in Starting =>
        /\ \A t \in Targets : /\ sink[t] = "collect" /\ outcome[t] = None
                              /\ known[t] = {} /\ rows[t] = {}
                              /\ files[t] = {} /\ listed[t] = {}
                              /\ dev[t] \in {Absent, "QUEUED"}
        /\ ~Finalized
        /\ run \in {Absent, "CREATED", "RUNNING"}

\* The sink stores the outputs of a device one after the other.
SinkInv ==
    \A t \in Targets :
        /\ \E k \in 0..NCommands : known[t] = 1..k
        /\ sink[t] \in {"file"} \cup StoreLock => known[t] # Commands
        /\ sink[t] = "stored" => known[t] = Commands
        /\ sink[t] \in {"collect", "update", "prepare"} /\ outcome[t] = None => known[t] = {}
        /\ outcome[t] = "COMPLETE" => known[t] = Commands

\* Each write of the sink is backed by the one before it.
EvidenceInv ==
    \A t \in Targets :
        /\ ~removed => listed[t] \subseteq files[t]
        /\ ~removed \/ bundle # Absent => rows[t] \subseteq listed[t]
        /\ sink[t] = "list" => Command(t) \in files[t]
        /\ sink[t] \in {"row", "id"} => Command(t) \in listed[t]

\* A bundle with a manifest is past its last write.
ManifestInv ==
    Finalized => /\ pc \notin Starting \cup {"audit"}
                 /\ bundle # Absent
                 /\ manifest.listed = listed

\* How far the outcomes have been recorded.
OutcomeInv ==
    /\ pc \in {"create", "mkdir", "draft", "running", "started", "audit"} => at = 1
    /\ pc = "audit" => \A t \in Targets : dev[t] \notin TerminalStatuses
    /\ pc = "outcome" =>
          \A t \in Targets : IF t < at THEN Recorded => dev[t] \in TerminalStatuses
                                       ELSE dev[t] \notin TerminalStatuses
    /\ pc \in {"result", "link", "results"} =>
          \A t \in Targets : IF t <= at THEN Recorded => dev[t] \in TerminalStatuses
                                        ELSE dev[t] \notin TerminalStatuses

\* The device records come and go with the record of the run.
RecordInv ==
    /\ ~Recorded => \A t \in Targets : dev[t] = Absent
    /\ Recorded /\ pc \in Started \cup {"running", "started"}
          => \A t \in Targets : dev[t] # Absent
    /\ Recorded /\ pc = "device" => \A t \in Targets : t < at => dev[t] # Absent
    /\ Recorded /\ pc = "directory" => \A t \in Targets : t <= at => dev[t] # Absent

Unfinished == {"audit", "outcome", "result", "link", "results", "counts", "status"}

\* How far a run is from a final status.
ClosingInv ==
    /\ pc \in Unfinished => run \notin Final
    /\ Recorded /\ pc \in {"counts", "status", "close counts", "close status"}
          => \A t \in Targets : dev[t] \in TerminalStatuses
    /\ Recorded /\ pc = "close device"
          => \A t \in Targets : t < at => dev[t] \in TerminalStatuses
    /\ Recorded /\ pc \in {"status", "close status"} => counts = CountsOf(dev)
    /\ run \in Final =>
          /\ counts = CountsOf(dev)
          /\ \A t \in Targets : dev[t] \in TerminalStatuses

Linked(t) == dev[t] = "COMPLETE" => t \in result /\ links[t] = Commands

\* What is known of an output is on record, while there is a record.
StoredInv ==
    \A t \in Targets :
        dev[t] # Absent => /\ known[t] \subseteq rows[t]
                           /\ sink[t] = "id" => Command(t) \in rows[t]
                           /\ dev[t] = "COMPLETE" => rows[t] = Commands

\* How far the results have been linked.
LinkInv ==
    /\ pc \in {"result", "link"} => dev[at] \in {outcome[at], Absent}
    /\ pc = "link" => at \in result \/ ~Recorded
    /\ pc \in {"outcome", "result", "link"} => \A t \in Targets : t < at => Linked(t)
    /\ pc = "results" => \A t \in Targets : t <= at => Linked(t)
    /\ pc \in {"counts", "status"} => \A t \in Targets : Linked(t)
    /\ run \in {"COMPLETE", "PARTIAL"} => \A t \in Targets : Linked(t)

\* Up to the last activity of a run the two stores tell the same.
AgreementInv ==
    /\ pc = "manifest" => run \in {summary, Absent}
    /\ pc = "completed" /\ Finalized => run \in {manifest.status, Absent}
    /\ "AUDIT_COMPLETED" \in log => pc \in {"export"} \cup Ended
    /\ CompletedIsNotRelabelled

\* begin_run while nothing has failed yet, and while it undoes.
BeginInv ==
    /\ deleting => removed
    /\ pc = "create" => run = Absent /\ bundle = Absent
    /\ pc = "mkdir" /\ ~removed => run # Absent
    /\ pc \in BeginSteps \ {"create", "mkdir"} /\ ~removed
          => run # Absent /\ bundle # Absent
    /\ pc \in UndoSteps => faults >= 1 \/ removed
    /\ pc = "undo files" /\ ~removed => run = Absent
    /\ BeginIsAllOrNothing

IInv ==
    /\ TypeOK /\ ControlInv /\ StartInv /\ SinkInv /\ EvidenceInv /\ ManifestInv
    /\ OutcomeInv /\ RecordInv /\ ClosingInv /\ StoredInv /\ LinkInv /\ AgreementInv /\ BeginInv

-------------------------------------------------------------------------------
(* Counting *)

\* Every set of devices is finite and no larger than the context's list.
LEMMA DeviceSets ==
    \A S \in SUBSET Targets : IsFiniteSet(S) /\ Cardinality(S) \in 0..NTargets
<1>1. IsFiniteSet(Targets) /\ Cardinality(Targets) = NTargets
  <2>1. NTargets \in Int /\ 1 \in Int /\ ~(1 > NTargets) /\ NTargets - 1 + 1 = NTargets
    BY SizeAssumption
  <2>2. QED
    BY <2>1, FS_Interval DEF Targets
<1>2. ASSUME NEW S \in SUBSET Targets
      PROVE  IsFiniteSet(S) /\ Cardinality(S) \in 0..NTargets
  <2>1. IsFiniteSet(S) /\ Cardinality(S) <= NTargets
    BY <1>1, FS_Subset
  <2>2. QED
    BY <2>1, FS_CardinalityType, SizeAssumption
<1>3. QED
  BY <1>2

\* The number of the next output when the first k are stored.
LEMMA NextCommand ==
    ASSUME NEW k \in 0..NCommands
    PROVE  /\ Cardinality(1..k) = k
           /\ 1..k # Commands => k + 1 \in Commands
           /\ 1..k = Commands => k = NCommands
           /\ (1..k) \cup {k + 1} = 1..(k + 1)
           /\ 1..k \subseteq Commands
<1>1. k \in Int /\ 1 \in Int /\ NCommands \in Nat /\ k <= NCommands /\ k >= 0
  BY SizeAssumption
<1>2. Cardinality(1..k) = k
  <2>1. Cardinality(1..k) = IF 1 > k THEN 0 ELSE k - 1 + 1
    BY <1>1, FS_Interval
  <2>2. QED
    BY <1>1, <2>1
<1>3. 1..k = Commands => k = NCommands
  <2>1. Cardinality(Commands) = NCommands
    <3>1. Cardinality(1..NCommands) = IF 1 > NCommands THEN 0 ELSE NCommands - 1 + 1
      BY <1>1, FS_Interval
    <3>2. QED
      BY <1>1, <3>1 DEF Commands
  <2>2. QED
    BY <1>2, <2>1
<1>4. 1..k # Commands => k + 1 \in Commands
  BY <1>1 DEF Commands
<1>5. (1..k) \cup {k + 1} = 1..(k + 1) /\ 1..k \subseteq Commands
  BY <1>1 DEF Commands
<1>6. QED
  BY <1>2, <1>3, <1>4, <1>5

\* What the sink of a device stores next is an output of that device.
LEMMA CommandInRange ==
    ASSUME SinkInv, NEW t \in Targets, sink[t] \in {"file"} \cup StoreLock
    PROVE  Command(t) \in Commands
<1>1. PICK k \in 0..NCommands : known[t] = 1..k
  BY DEF SinkInv
<1>2. known[t] # Commands
  BY DEF SinkInv
<1>3. QED
  BY <1>1, <1>2, NextCommand DEF Command

\* The status of a summary is final.
LEMMA SummaryIsFinal ==
    ASSUME NEW o, NEW c
    PROVE  RunStatusOf(o, c) \in Final
BY DEF RunStatusOf, Final, FinalRunStatuses

\* The counts of a run are counts of its devices.
LEMMA CountsType ==
    ASSUME NEW d, DOMAIN d = Targets
    PROVE  CountsOf(d) \in [{"device", "success", "failure", "cancelled"} -> 0..NTargets]
<1>1. \A S : WithStatus(d, S) \in SUBSET Targets
  BY DEF WithStatus
<1>2. {t \in Targets : d[t] # Absent} \in SUBSET Targets
  OBVIOUS
<1>3. /\ Cardinality({t \in Targets : d[t] # Absent}) \in 0..NTargets
      /\ Cardinality(WithStatus(d, {"COMPLETE"})) \in 0..NTargets
      /\ Cardinality(WithStatus(d, FailureStatuses)) \in 0..NTargets
      /\ Cardinality(WithStatus(d, {"CANCELLED"})) \in 0..NTargets
  BY <1>1, <1>2, DeviceSets
<1>4. QED
  BY <1>3 DEF CountsOf

-------------------------------------------------------------------------------
(* What each group of steps leaves alone *)

LEMMA BeginFrame ==
    Begin => /\ UNCHANGED <<kind, aborts, sink, known, outcome, summary, cancel, scanning,
                            deleting, removed, removedLive, faults>>
             /\ pc \in Starting
             /\ pc' \in Starting \cup {"audit", "over"}
BY DEF Begin, CreateRecord, MakeBundle, WriteDraft, AddDevice, PrepareDirectory, SetRunning,
       RecordStarted, UndoRecord, UndoFiles, Loop, Step, memory, window, Starting,
       BeginSteps, UndoSteps

LEMMA PersistFrame ==
    Persist => /\ UNCHANGED <<memory, rows, bundle, owner, files, listed, window, faults>>
               /\ pc \in PersistSteps \cup {"export"}
               /\ pc' \in PersistSteps \cup {"export", "over"}
BY DEF Persist, RecordOutcome, AddResult, LinkEvidence, WriteResults, RefreshCounts,
       SetStatus, Finalize, RecordActivity, Export, Loop, Step, memory, records, tree,
       PersistSteps

LEMMA AbortFrame ==
    Abort => /\ UNCHANGED <<kind, begun, sink, known, outcome, rows, result, links, bundle,
                            owner, files, listed, resultsFile, window, faults>>
             /\ pc \in AbortSteps \cup {"abort"}
             /\ pc' \in AbortSteps \cup {"abort", "over"}
BY DEF Abort, StartAbort, CloseDevice, RefreshCounts, SetStatus, Finalize, RecordActivity,
       AfterAbort, Loop, Step, memory, records, tree, AbortSteps

LEMMA FailFrame ==
    CallFails => /\ UNCHANGED <<memory, records, tree, window>>
                 /\ pc \notin Ended \cup {"abort"}
                 /\ pc' = Handler(pc) /\ at' = 1
BY DEF CallFails

LEMMA WorkerFrame ==
    ASSUME NEW t, Worker(t)
    PROVE  /\ UNCHANGED <<pc, at, kind, begun, aborts, summary, run, counts, result, links,
                          log, bundle, owner, resultsFile, manifest, window>>
           /\ pc = "audit" /\ outcome[t] = None
BY DEF Worker, CallSink, SetCollecting, Describe, WriteOutput, ListOutput, AddArtifact,
       AddArtifactId, SinkFails, WorkerStops, WorkerJudges, SinkStep, WorkerEnds, records, tree

LEMMA OperatorFrame ==
    FinishScan \/ Operator =>
        /\ UNCHANGED <<pc, at, memory>>
        /\ UNCHANGED log
BY DEF FinishScan, Operator, CancelScan, OpenRun, Purge, DeleteFiles, DeleteRecord,
       DeleteRecordFails, Callback, records, NoRecords

\* What the writes of the worker insist on.
LEMMA PossibleMeans ==
    Possible =>
        /\ pc \in {"device", "running", "counts", "status", "close counts", "close status"}
              => run # Absent
        /\ pc \in {"outcome", "result", "link"} => dev[at] # Absent
        /\ pc \in {"directory", "manifest", "close manifest", "results"} => Writable
        /\ pc = "draft" => bundle # Absent
BY DEF Possible

\* The manifest appears with the status and the list of that moment.
LEMMA WritesManifest ==
    Persist \/ Abort =>
        \/ UNCHANGED manifest
        \/ /\ (pc = "manifest" /\ pc' = "completed") \/ pc = "close manifest"
           /\ UNCHANGED <<run, log, listed>> /\ Writable
           /\ manifest'.status = summary /\ manifest'.listed = listed
<1>1. ASSUME NEW from, NEW to, Finalize(from, to)
      PROVE  /\ pc = from /\ pc' = to /\ Possible /\ UNCHANGED <<run, log, listed>>
             /\ manifest'.status = summary /\ manifest'.listed = listed
  BY <1>1 DEF Finalize, Step, records
<1>2. CASE Finalize("manifest", "completed")
  BY <1>1, <1>2, PossibleMeans
<1>3. CASE Finalize("close manifest", "close log")
  BY <1>1, <1>3, PossibleMeans
<1>4. CASE Persist /\ ~Finalize("manifest", "completed")
  BY <1>4 DEF Persist, RecordOutcome, AddResult, LinkEvidence, WriteResults, RefreshCounts,
     SetStatus, RecordActivity, Export, tree
<1>5. CASE Abort /\ ~Finalize("close manifest", "close log")
  BY <1>5 DEF Abort, StartAbort, CloseDevice, RefreshCounts, SetStatus, RecordActivity, tree
<1>6. QED
  BY <1>2, <1>3, <1>4, <1>5 DEF Abort

-------------------------------------------------------------------------------
(* The invariant holds initially and is preserved by every step *)

LEMMA InitIInv == Init => IInv
<1> SUFFICES ASSUME Init PROVE IInv
  OBVIOUS
<1> USE SizeAssumption DEF Init
<1>1. 1 \in Targets /\ 0 \in 0..NTargets /\ 0 \in 0..NCommands /\ {} = 1..0
  BY DEF Targets
<1>2. TypeOK
  <2>1. WorkerType
    <3>1. /\ kind \in {"live", "checklist", "import"} /\ pc \in BeginSteps
          /\ at \in Targets /\ aborts \in 0..2
      BY <1>1 DEF BeginSteps
    <3>2. begun \in BOOLEAN /\ summary \in Final \cup {None}
      OBVIOUS
    <3>3. /\ sink \in [Targets -> {"collect", "stored"} \cup ContextLock]
          /\ known \in [Targets -> SUBSET Commands]
          /\ outcome \in [Targets -> TerminalStatuses \cup {None}]
      OBVIOUS
    <3>4. QED
      BY <3>1, <3>2, <3>3 DEF WorkerType
  <2>2. DatabaseType
    <3>1. counts \in [{"device", "success", "failure", "cancelled"} -> 0..NTargets]
      BY <1>1 DEF NoCounts
    <3>2. QED
      BY <3>1 DEF DatabaseType
  <2>3. FilesType
    BY <1>1 DEF FilesType, NoManifest
  <2>4. WindowType
    <3>1. faults \in 0..MaxFaults + 1
      OBVIOUS
    <3>2. /\ cancel \in BOOLEAN /\ scanning \in BOOLEAN /\ current \in BOOLEAN
          /\ deleting \in BOOLEAN /\ removed \in BOOLEAN /\ removedLive \in BOOLEAN
      OBVIOUS
    <3>3. QED
      BY <3>1, <3>2 DEF WindowType
  <2>5. QED
    BY <2>1, <2>2, <2>3, <2>4 DEF TypeOK
<1>3. /\ pc \in Starting
      /\ pc \notin Started \cup UndoSteps \cup {"mkdir", "device", "directory", "running",
                                              "started", "draft"}
  BY DEF Starting, Started, BeginSteps, UndoSteps, PersistSteps, AbortSteps
<1>4. ControlInv /\ StartInv
  BY <1>3 DEF ControlInv, StartInv, Started, Finalized, NoManifest, None
<1>5. SinkInv
  <2>1. /\ "collect" \notin {"file"} \cup StoreLock
        /\ "collect" # "stored"
        /\ None # "COMPLETE"
    BY DEF StoreLock, None
  <2>2. QED
    BY <1>1, <2>1 DEF SinkInv
<1>6. EvidenceInv /\ ManifestInv
  BY DEF EvidenceInv, ManifestInv, Finalized, NoManifest
<1>7. OutcomeInv /\ RecordInv /\ ClosingInv
  BY <1>3 DEF OutcomeInv, RecordInv, ClosingInv, Unfinished, Recorded, Absent, Final,
     FinalRunStatuses, TerminalStatuses
<1>8. StoredInv /\ LinkInv /\ AgreementInv /\ BeginInv
  BY DEF StoredInv, LinkInv, AgreementInv, CompletedIsNotRelabelled,
     BeginInv, BeginIsAllOrNothing, Absent, BeginSteps, UndoSteps
<1>9. QED
  BY <1>2, <1>4, <1>5, <1>6, <1>7, <1>8 DEF IInv

LEMMA WorkerTypeStep == IInv /\ [Next]_vars => WorkerType'
<1> SUFFICES ASSUME IInv, [Next]_vars
             PROVE  WorkerType'
  OBVIOUS
<1> USE SizeAssumption DEF IInv, TypeOK, WorkerType, memory
<1>1. 1 \in Targets /\ (at < NTargets => at + 1 \in Targets)
  BY DEF Targets
<1>2. CASE Begin
  <2>1. at' \in Targets /\ begun' \in BOOLEAN
    BY <1>1, <1>2 DEF Begin, CreateRecord, MakeBundle, WriteDraft, AddDevice, PrepareDirectory,
       SetRunning, RecordStarted, UndoRecord, UndoFiles, Loop
  <2>2. QED
    BY <1>2, <2>1, BeginFrame DEF Starting, Ended
<1>3. CASE AuditReturns
  BY <1>3, SummaryIsFinal DEF AuditReturns, Step, PersistSteps
<1>4. CASE Persist
  <2>1. at' \in Targets
    BY <1>1, <1>4 DEF Persist, RecordOutcome, AddResult, LinkEvidence, WriteResults,
       RefreshCounts, SetStatus, Finalize, RecordActivity, Export, Loop
  <2>2. QED
    BY <1>4, <2>1, PersistFrame DEF Ended
<1>5. CASE Abort
  <2>1. at' \in Targets
    BY <1>1, <1>5 DEF Abort, StartAbort, CloseDevice, RefreshCounts, SetStatus, Finalize,
       RecordActivity, Loop
  <2>2. aborts' \in 0..2 /\ summary' \in Final \cup {None}
    <3>1. CASE StartAbort
      <4>1. aborts \in 0..1 /\ aborts' = aborts + 1
        BY <3>1 DEF StartAbort, Step, ControlInv
      <4>2. summary' \in {"CANCELLED", "FAILED"}
        BY <3>1 DEF StartAbort
      <4>3. QED
        BY <4>1, <4>2 DEF Final, FinalRunStatuses
    <3>2. CASE ~StartAbort
      BY <1>5, <3>2 DEF Abort, CloseDevice, RefreshCounts, SetStatus, Finalize, RecordActivity
    <3>3. QED
      BY <3>1, <3>2
  <2>3. QED
    BY <1>5, <2>1, <2>2, AbortFrame DEF Ended
<1>6. CASE CallFails
  <2>1. Handler(pc) \in UndoSteps \cup AbortSteps \cup {"abort"} \cup Ended
    BY DEF Handler, AfterAbort, UndoSteps, Ended, AbortSteps
  <2>2. QED
    BY <1>1, <1>6, <2>1, FailFrame
<1>7. ASSUME NEW t \in Targets, Worker(t)
      PROVE  WorkerType'
  <2>1. CASE CallSink(t) \/ SetCollecting(t) \/ Describe(t)
    BY <2>1 DEF CallSink, SetCollecting, Describe, SinkStep, ContextLock
  <2>2. CASE WriteOutput(t) \/ ListOutput(t) \/ AddArtifact(t)
    BY <2>2 DEF WriteOutput, ListOutput, AddArtifact, SinkStep, ContextLock, StoreLock
  <2>3. CASE AddArtifactId(t)
    <3>1. Command(t) \in Commands
      BY <2>3, CommandInRange DEF AddArtifactId, SinkStep, StoreLock
    <3>2. QED
      BY <2>3, <3>1 DEF AddArtifactId, SinkStep, ContextLock
  <2>4. CASE SinkFails(t)
    BY <2>4 DEF SinkFails, WorkerEnds, TerminalStatuses, FailureStatuses
  <2>5. CASE WorkerStops(t) \/ WorkerJudges(t)
    BY <2>5, FailuresAssumption DEF WorkerStops, WorkerJudges, WorkerEnds, TerminalStatuses,
       FailureStatuses
  <2>6. QED
    BY <1>7, <2>1, <2>2, <2>3, <2>4, <2>5 DEF Worker
<1>8. CASE FinishScan \/ Operator
  BY <1>8, OperatorFrame
<1>9. CASE Exit
  BY <1>1, <1>9 DEF Exit, Ended
<1>10. CASE UNCHANGED vars
  BY <1>10 DEF vars
<1>11. QED
  BY <1>2, <1>3, <1>4, <1>5, <1>6, <1>7, <1>8, <1>9, <1>10 DEF Next, Main, Done

LEMMA DatabaseTypeStep == IInv /\ [Next]_vars => DatabaseType'
<1> SUFFICES ASSUME IInv, [Next]_vars
             PROVE  DatabaseType'
  OBVIOUS
<1> USE SizeAssumption DEF IInv, TypeOK, DatabaseType, records
<1>1. /\ CountsOf(dev) \in [{"device", "success", "failure", "cancelled"} -> 0..NTargets]
      /\ at \in Targets
  BY CountsType DEF WorkerType
<1>2. CASE Begin
  <2>1. CASE CreateRecord
    <3>1. NTargets \in 0..NTargets
      OBVIOUS
    <3>2. QED
      BY <2>1, <3>1 DEF CreateRecord
  <2>2. CASE UndoRecord
    <3>1. NoCounts \in [{"device", "success", "failure", "cancelled"} -> 0..NTargets]
      BY DEF NoCounts
    <3>2. QED
      BY <2>2, <3>1 DEF UndoRecord, NoRecords
  <2>3. CASE RecordStarted
    BY <2>3 DEF RecordStarted
  <2>4. CASE MakeBundle \/ WriteDraft \/ PrepareDirectory \/ UndoFiles
    BY <2>4 DEF MakeBundle, WriteDraft, PrepareDirectory, UndoFiles
  <2>5. CASE AddDevice \/ SetRunning
    BY <2>5 DEF AddDevice, SetRunning
  <2>6. QED
    BY <1>2, <2>1, <2>2, <2>3, <2>4, <2>5 DEF Begin
<1>3. CASE AuditReturns
  BY <1>3 DEF AuditReturns
<1>4. CASE Persist
  <2>1. CASE RecordOutcome
    <3>1. outcome[at] \in TerminalStatuses
      BY <1>1, <2>1 DEF RecordOutcome, Step, ControlInv, PersistSteps
    <3>2. QED
      BY <2>1, <3>1 DEF RecordOutcome
  <2>2. CASE SetStatus("status", "manifest")
    <3>1. summary \in Final
      BY <2>2 DEF SetStatus, Step, ControlInv, PersistSteps
    <3>2. QED
      BY <2>2, <3>1 DEF SetStatus
  <2>3. CASE AddResult \/ LinkEvidence
    <3>1. known[at] \in SUBSET Commands
      BY <1>1 DEF WorkerType
    <3>2. QED
      BY <1>1, <2>3, <3>1 DEF AddResult, LinkEvidence
  <2>4. CASE WriteResults \/ Finalize("manifest", "completed") \/ Export
    BY <2>4 DEF WriteResults, Finalize, Export
  <2>5. CASE RefreshCounts("counts", "status")
    BY <1>1, <2>5 DEF RefreshCounts
  <2>6. CASE RecordActivity("completed", IF Checklist THEN "export" ELSE "over",
                            "AUDIT_COMPLETED")
    BY <2>6 DEF RecordActivity
  <2>7. QED
    BY <1>4, <2>1, <2>2, <2>3, <2>4, <2>5, <2>6 DEF Persist
<1>5. CASE Abort
  <2>1. CASE CloseDevice
    BY <2>1 DEF CloseDevice, TerminalStatuses, FailureStatuses
  <2>2. CASE RefreshCounts("close counts", "close status")
    BY <1>1, <2>2 DEF RefreshCounts
  <2>3. CASE SetStatus("close status", "close manifest")
    <3>1. summary \in Final
      BY <2>3 DEF SetStatus, Step, ControlInv, AbortSteps, Final, FinalRunStatuses
    <3>2. QED
      BY <2>3, <3>1 DEF SetStatus
  <2>4. CASE StartAbort \/ Finalize("close manifest", "close log")
    BY <2>4 DEF StartAbort, Finalize
  <2>5. CASE RecordActivity("close log", AfterAbort,
                            IF summary = "CANCELLED" THEN "AUDIT_CANCELLED" ELSE "AUDIT_FAILED")
    BY <2>5 DEF RecordActivity
  <2>6. QED
    BY <1>5, <2>1, <2>2, <2>3, <2>4, <2>5 DEF Abort
<1>6. CASE CallFails \/ Exit
  BY <1>6 DEF CallFails, Exit
<1>7. ASSUME NEW t \in Targets, Worker(t)
      PROVE  DatabaseType'
  <2>1. CASE AddArtifact(t)
    <3>1. Command(t) \in Commands
      BY <2>1, CommandInRange DEF AddArtifact, SinkStep, StoreLock
    <3>2. QED
      BY <2>1, <3>1 DEF AddArtifact, SinkStep
  <2>2. CASE ~AddArtifact(t)
    BY <1>7, <2>2 DEF Worker, CallSink, SetCollecting, Describe, WriteOutput, ListOutput,
       AddArtifactId, SinkFails, WorkerStops, WorkerJudges, SinkStep, WorkerEnds
  <2>3. QED
    BY <2>1, <2>2
<1>8. CASE DeleteRecord
  <2>1. NoCounts \in [{"device", "success", "failure", "cancelled"} -> 0..NTargets]
    BY DEF NoCounts
  <2>2. QED
    BY <1>8, <2>1 DEF DeleteRecord, NoRecords
<1>9. CASE FinishScan \/ CancelScan \/ OpenRun \/ Purge \/ DeleteFiles \/ DeleteRecordFails
  BY <1>9 DEF FinishScan, CancelScan, OpenRun, Purge, DeleteFiles, DeleteRecordFails
<1>10. CASE UNCHANGED vars
  BY <1>10 DEF vars
<1>11. QED
  BY <1>2, <1>3, <1>4, <1>5, <1>6, <1>7, <1>8, <1>9, <1>10 DEF Next, Main, Operator, Done

LEMMA FilesTypeStep == IInv /\ [Next]_vars => FilesType'
<1> SUFFICES ASSUME IInv, [Next]_vars
             PROVE  FilesType'
  OBVIOUS
<1> USE SizeAssumption DEF IInv, TypeOK, FilesType, tree
<1>1. at \in Targets /\ at \in 0..NTargets
  BY DEF WorkerType, Targets
<1>2. NoTree => FilesType'
  BY DEF NoTree, NoManifest
<1>3. CASE Begin
  <2>1. CASE MakeBundle \/ WriteDraft \/ PrepareDirectory
    BY <1>1, <2>1 DEF MakeBundle, WriteDraft, PrepareDirectory
  <2>2. CASE UndoFiles
    BY <1>2, <2>2 DEF UndoFiles
  <2>3. CASE CreateRecord \/ AddDevice \/ SetRunning \/ RecordStarted \/ UndoRecord
    BY <2>3 DEF CreateRecord, AddDevice, SetRunning, RecordStarted, UndoRecord
  <2>4. QED
    BY <1>3, <2>1, <2>2, <2>3 DEF Begin
<1>4. CASE AuditReturns \/ CallFails \/ Exit
  BY <1>4 DEF AuditReturns, CallFails, Exit
<1>5. CASE Persist
  <2>1. CASE WriteResults
    <3>1. DirOf[at] \in Dirs
      BY <1>1 DEF Dirs
    <3>2. QED
      BY <2>1, <3>1 DEF WriteResults
  <2>2. CASE Finalize("manifest", "completed")
    <3>1. summary \in Final
      BY <2>2 DEF Finalize, Step, ControlInv, PersistSteps
    <3>2. QED
      BY <2>2, <3>1 DEF Finalize
  <2>3. CASE ~WriteResults /\ ~Finalize("manifest", "completed")
    BY <1>5, <2>3 DEF Persist, RecordOutcome, AddResult, LinkEvidence, RefreshCounts, SetStatus,
       RecordActivity, Export
  <2>4. QED
    BY <2>1, <2>2, <2>3
<1>6. CASE Abort
  <2>1. CASE Finalize("close manifest", "close log")
    <3>1. summary \in Final
      BY <2>1 DEF Finalize, Step, ControlInv, AbortSteps, Final, FinalRunStatuses
    <3>2. QED
      BY <2>1, <3>1 DEF Finalize
  <2>2. CASE ~Finalize("close manifest", "close log")
    BY <1>6, <2>2 DEF Abort, StartAbort, CloseDevice, RefreshCounts, SetStatus, RecordActivity
  <2>3. QED
    BY <2>1, <2>2
<1>7. ASSUME NEW t \in Targets, Worker(t)
      PROVE  FilesType'
  <2>1. CASE WriteOutput(t) \/ ListOutput(t)
    <3>1. Command(t) \in Commands
      BY <2>1, CommandInRange DEF WriteOutput, ListOutput, SinkStep, StoreLock
    <3>2. QED
      BY <2>1, <3>1 DEF WriteOutput, ListOutput, SinkStep
  <2>2. CASE ~WriteOutput(t) /\ ~ListOutput(t)
    BY <1>7, <2>2 DEF Worker, CallSink, SetCollecting, Describe, AddArtifact,
       AddArtifactId, SinkFails, WorkerStops, WorkerJudges, SinkStep, WorkerEnds
  <2>3. QED
    BY <2>1, <2>2
<1>8. CASE DeleteFiles
  BY <1>2, <1>8 DEF DeleteFiles
<1>9. CASE Purge
  BY <1>9 DEF Purge
<1>10. CASE FinishScan \/ CancelScan \/ OpenRun \/ DeleteRecord \/ DeleteRecordFails
  BY <1>10 DEF FinishScan, CancelScan, OpenRun, DeleteRecord, DeleteRecordFails
<1>11. CASE UNCHANGED vars
  BY <1>11 DEF vars
<1>12. QED
  BY <1>3, <1>4, <1>5, <1>6, <1>7, <1>8, <1>9, <1>10, <1>11 DEF Next, Main, Operator, Done

LEMMA WindowTypeStep == IInv /\ [Next]_vars => WindowType'
<1> SUFFICES ASSUME IInv, [Next]_vars
             PROVE  WindowType'
  OBVIOUS
<1> USE SizeAssumption DEF IInv, TypeOK, WindowType, window
<1>1. faults' \in 0..MaxFaults + 1
  <2>1. FaultBound \in {MaxFaults, MaxFaults + 1}
    BY DEF FaultBound
  <2>2. faults' = faults \/ (faults < FaultBound /\ faults' = faults + 1)
    <3>1. CASE Main
      BY <3>1, BeginFrame, PersistFrame, AbortFrame DEF Main, AuditReturns, CallFails, Step
    <3>2. ASSUME NEW t \in Targets, Worker(t)
          PROVE  faults' = faults \/ (faults < FaultBound /\ faults' = faults + 1)
      BY <3>2 DEF Worker, CallSink, SetCollecting, Describe, WriteOutput, ListOutput,
         AddArtifact, AddArtifactId, SinkFails, WorkerStops, WorkerJudges, SinkStep
    <3>3. CASE FinishScan \/ Operator \/ Exit
      BY <3>3 DEF FinishScan, Operator, CancelScan, OpenRun, Purge, DeleteFiles, DeleteRecord,
         DeleteRecordFails, Exit
    <3>4. CASE UNCHANGED vars
      BY <3>4 DEF vars
    <3>5. QED
      BY <3>1, <3>2, <3>3, <3>4 DEF Next, Done
  <2>3. QED
    BY <2>1, <2>2
<1> DEFINE Flags == /\ cancel \in BOOLEAN /\ scanning \in BOOLEAN /\ current \in BOOLEAN
                    /\ deleting \in BOOLEAN /\ removed \in BOOLEAN /\ removedLive \in BOOLEAN
<1>2. Flags'
  <2>1. Flags
    OBVIOUS
  <2>2. CASE Main
    <3>1. current' \in BOOLEAN /\ UNCHANGED <<cancel, scanning, deleting, removed, removedLive>>
      <4>1. CASE Begin
        <5>1. current' \in BOOLEAN
          BY <4>1, <2>1 DEF Begin, CreateRecord, MakeBundle, WriteDraft, AddDevice,
             PrepareDirectory, SetRunning, RecordStarted, UndoRecord, UndoFiles, Loop, Step
        <5>2. QED
          BY <4>1, <5>1, BeginFrame
      <4>2. CASE ~Begin
        BY <2>1, <2>2, <4>2, PersistFrame, AbortFrame DEF Main, AuditReturns, CallFails, Step
      <4>3. QED
        BY <4>1, <4>2
    <3>2. QED
      BY <2>1, <3>1
  <2>3. ASSUME NEW t \in Targets, Worker(t)
        PROVE  Flags'
    BY <2>1, <2>3, WorkerFrame
  <2>4. CASE FinishScan \/ Operator \/ Exit
    BY <2>1, <2>4 DEF FinishScan, Operator, CancelScan, OpenRun, Purge, DeleteFiles,
       DeleteRecord, DeleteRecordFails, Remove, Exit
  <2>5. CASE UNCHANGED vars
    BY <2>1, <2>5 DEF vars
  <2>6. QED
    BY <2>2, <2>3, <2>4, <2>5 DEF Next, Done
<1>3. QED
  BY <1>1, <1>2

LEMMA TypeStep == IInv /\ [Next]_vars => TypeOK'
BY WorkerTypeStep, DatabaseTypeStep, FilesTypeStep, WindowTypeStep DEF TypeOK

\* The groups of the worker's places have no place in common.
LEMMA Apart ==
    /\ \A p \in Starting : p \notin Started \cup Ended
    /\ \A p \in PersistSteps : p \notin AbortSteps \cup {"audit", "export", "abort"}
    /\ \A p \in AbortSteps : p \notin {"audit", "export", "abort"}
    /\ \A p \in Ended : p \notin Started
BY DEF Starting, Started, BeginSteps, UndoSteps, PersistSteps, AbortSteps, Ended

\* Where the exception of a failed call leads.
LEMMA HandlerLeads ==
    /\ pc \in Starting => Handler(pc) \in UndoSteps \cup {"over"}
    /\ pc \in PersistSteps \cup {"audit", "export"} => Handler(pc) \in {"abort", "over"}
    /\ pc \in AbortSteps => \/ Handler(pc) \in {"close log", "over"}
                            \/ Handler(pc) = "abort" /\ aborts = 1
    /\ pc = "export" => Handler(pc) = "over"
<1>1. pc \in Starting => Handler(pc) \in UndoSteps \cup {"over"}
  BY DEF Handler, Starting, BeginSteps, UndoSteps, PersistSteps, AbortSteps
<1>2. pc \in PersistSteps \cup {"audit", "export"} => Handler(pc) \in {"abort", "over"}
  BY DEF Handler, BeginSteps, UndoSteps, PersistSteps, AbortSteps
<1>3. pc \in AbortSteps => \/ Handler(pc) \in {"close log", "over"}
                           \/ Handler(pc) = "abort" /\ aborts = 1
  <2>1. AfterAbort \in {"abort", "over"} /\ (AfterAbort = "abort" => aborts = 1)
    BY DEF AfterAbort
  <2>2. ASSUME NEW a \in {"abort", "over"}, AfterAbort = a
        PROVE  pc \in AbortSteps => Handler(pc) \in {a, "close log"}
    BY <2>2, Zenon DEF Handler, BeginSteps, UndoSteps, PersistSteps, AbortSteps
  <2>3. QED
    BY <2>1, <2>2
<1>4. pc = "export" => Handler(pc) = "over"
  BY DEF Handler, BeginSteps, UndoSteps, PersistSteps, AbortSteps
<1>5. QED
  BY <1>1, <1>2, <1>3, <1>4

LEMMA ControlStep == IInv /\ [Next]_vars => ControlInv'
<1> SUFFICES ASSUME IInv, [Next]_vars
             PROVE  ControlInv'
  OBVIOUS
<1> USE DEF IInv, ControlInv, memory
<1> DEFINE Known == summary \in Final /\ \A t \in Targets : outcome[t] \in TerminalStatuses
<1>1. CASE Begin
  <2>1. CASE RecordStarted
    <3>1. pc \in Starting /\ pc' = "audit" /\ begun' = TRUE /\ aborts' = aborts
      BY <2>1 DEF RecordStarted, Starting, BeginSteps
    <3>2. QED
      BY <3>1, Apart DEF Started
  <2>2. CASE ~RecordStarted
    <3>1. pc \in Starting /\ pc' \in Starting \cup Ended /\ UNCHANGED <<begun, aborts>>
      <4>1. CASE CreateRecord \/ MakeBundle \/ WriteDraft \/ AddDevice
        BY <4>1 DEF CreateRecord, MakeBundle, WriteDraft, AddDevice, Step, Starting, BeginSteps
      <4>2. CASE PrepareDirectory \/ SetRunning \/ UndoRecord \/ UndoFiles
        BY <4>2 DEF PrepareDirectory, SetRunning, UndoRecord, UndoFiles, Loop, Step, Starting,
           BeginSteps, UndoSteps, Ended
      <4>3. QED
        BY <1>1, <2>2, <4>1, <4>2 DEF Begin
    <3>2. QED
      BY <3>1, Apart DEF Started
  <2>3. QED
    BY <2>1, <2>2
<1>2. CASE AuditReturns
  <2>1. pc = "audit" /\ pc' \in PersistSteps /\ UNCHANGED <<begun, aborts, outcome>>
    BY <1>2 DEF AuditReturns, Step, PersistSteps
  <2>2. Known'
    <3>1. \A t \in Targets : outcome[t] \in TerminalStatuses
      BY <1>2 DEF AuditReturns, TypeOK, WorkerType
    <3>2. QED
      BY <1>2, <2>1, <3>1, SummaryIsFinal DEF AuditReturns
  <2>3. QED
    BY <2>1, <2>2, Apart DEF Started
<1>3. CASE Persist
  <2>1. pc' \in PersistSteps => pc \in PersistSteps
    BY <1>3 DEF Persist, RecordOutcome, AddResult, LinkEvidence, WriteResults, RefreshCounts,
       SetStatus, Finalize, RecordActivity, Export, Loop, Step, PersistSteps
  <2>2. pc \in Started /\ pc' \in PersistSteps \cup {"export"} \cup Ended
    BY <1>3, PersistFrame DEF Started, Ended
  <2>3. QED
    BY <1>3, <2>1, <2>2, PersistFrame, Apart DEF Started
<1>4. CASE Abort
  <2>1. CASE StartAbort
    <3>1. pc = "abort" /\ pc' \in AbortSteps /\ begun' = begun
      BY <2>1 DEF StartAbort, Step, AbortSteps
    <3>2. aborts \in 0..1 /\ aborts' = aborts + 1
      BY <2>1, <3>1 DEF StartAbort
    <3>3. summary' \in {"CANCELLED", "FAILED"}
      BY <2>1 DEF StartAbort
    <3>4. aborts' \in 1..2
      BY <3>2
    <3>5. QED
      BY <3>1, <3>3, <3>4, Apart DEF Started
  <2>2. CASE ~StartAbort
    <3>1. /\ UNCHANGED <<aborts, summary, begun>> /\ pc \in AbortSteps
          /\ pc' = "abort" => aborts = 1
      BY <1>4, <2>2 DEF Abort, CloseDevice, RefreshCounts, SetStatus, Finalize,
         RecordActivity, AfterAbort, Loop, Step, AbortSteps
    <3>2. pc' \in AbortSteps \cup {"abort"} \cup Ended
      BY <1>4, AbortFrame DEF Ended
    <3>3. pc' = "abort" => aborts' \in 0..1
      BY <3>1
    <3>4. QED
      BY <3>1, <3>2, <3>3, Apart DEF Started
  <2>3. QED
    BY <2>1, <2>2
<1>5. CASE CallFails
  <2>1. pc \notin Ended \cup {"abort"} /\ pc' = Handler(pc) /\ UNCHANGED memory
    BY <1>5 DEF CallFails
  <2>2. CASE pc \in Starting
    <3>1. pc' \in Starting \cup Ended
      BY <2>1, <2>2, HandlerLeads DEF Starting, Ended
    <3>2. QED
      BY <2>1, <2>2, <3>1, Apart DEF Started
  <2>3. CASE pc \in PersistSteps \cup {"audit", "export"}
    <3>1. pc \in Started /\ pc' \in {"abort"} \cup Ended
      BY <2>1, <2>3, HandlerLeads DEF Started, Ended
    <3>2. aborts' = 0 /\ 0 \in 0..1
      BY <2>1, <2>3
    <3>3. QED
      BY <2>1, <2>3, <3>1, <3>2, Apart DEF Started
  <2>4. CASE pc \in AbortSteps
    <3>1. \/ pc' \in AbortSteps \cup Ended
          \/ pc' = "abort" /\ aborts = 1
      BY <2>1, <2>4, HandlerLeads DEF AbortSteps, Ended
    <3>2. pc' = "abort" => aborts' \in 0..1
      BY <2>1, <2>4, <3>1, Apart DEF Ended
    <3>3. QED
      BY <2>1, <2>4, <3>1, <3>2, Apart DEF Started
  <2>5. QED
    BY <2>1, <2>2, <2>3, <2>4 DEF TypeOK, WorkerType, Starting
<1>6. ASSUME NEW t \in Targets, Worker(t)
      PROVE  ControlInv'
  <2>1. pc = "audit" /\ UNCHANGED <<pc, begun, aborts, summary>>
    BY <1>6, WorkerFrame
  <2>2. QED
    BY <2>1, Apart DEF Started
<1>7. CASE FinishScan \/ Operator
  BY <1>7, OperatorFrame
<1>8. CASE Exit
  BY <1>8, Apart DEF Exit, Ended, Started
<1>9. CASE UNCHANGED vars
  BY <1>9 DEF vars
<1>10. QED
  BY <1>1, <1>2, <1>3, <1>4, <1>5, <1>6, <1>7, <1>8, <1>9 DEF Next, Main, Done

\* begin_run is entered only at its start.
LEMMA StaysInStart ==
    IInv /\ [Next]_vars /\ pc' \in Starting =>
        /\ pc \in Starting
        /\ Begin \/ CallFails \/ FinishScan \/ Operator \/ UNCHANGED vars
<1> SUFFICES ASSUME IInv, [Next]_vars, pc' \in Starting
             PROVE  /\ pc \in Starting
                    /\ Begin \/ CallFails \/ FinishScan \/ Operator \/ UNCHANGED vars
  OBVIOUS
<1>1. CASE Begin \/ FinishScan \/ Operator
  BY <1>1, BeginFrame, OperatorFrame
<1>2. CASE AuditReturns
  BY <1>2, Apart DEF AuditReturns, Step, Started, PersistSteps
<1>3. CASE Persist \/ Abort
  BY <1>3, PersistFrame, AbortFrame, Apart DEF Started, Ended
<1>4. CASE CallFails
  <2>1. pc' = Handler(pc) /\ pc \notin Ended \cup {"abort"}
    BY <1>4 DEF CallFails
  <2>2. pc \notin PersistSteps \cup {"audit", "export"} \cup AbortSteps
    BY <2>1, HandlerLeads, Apart DEF Started, Ended, AbortSteps
  <2>3. QED
    BY <1>4, <2>1, <2>2 DEF IInv, TypeOK, WorkerType, Starting
<1>5. ASSUME NEW t \in Targets, Worker(t)
      PROVE  FALSE
  BY <1>5, WorkerFrame, Apart DEF Started
<1>6. CASE Exit
  BY <1>6, Apart DEF Exit, Ended
<1>7. CASE UNCHANGED vars
  BY <1>7 DEF vars
<1>8. QED
  BY <1>1, <1>2, <1>3, <1>4, <1>5, <1>6, <1>7 DEF Next, Main, Done

LEMMA StartStep == IInv /\ [Next]_vars => StartInv'
<1> SUFFICES ASSUME IInv, [Next]_vars, pc' \in Starting
             PROVE  StartInv!2'
  BY DEF StartInv
<1> USE DEF IInv, StartInv, Finalized, memory, records, tree
<1>1. pc \in Starting
  BY StaysInStart
<1>2. CASE Begin
  <2>1. UNCHANGED <<sink, outcome, known>>
    BY <1>2, BeginFrame
  <2>2. CASE CreateRecord \/ SetRunning
    BY <1>1, <2>1, <2>2 DEF CreateRecord, SetRunning
  <2>3. CASE MakeBundle \/ WriteDraft \/ PrepareDirectory
    BY <1>1, <2>1, <2>3 DEF MakeBundle, WriteDraft, PrepareDirectory
  <2>4. CASE AddDevice
    BY <1>1, <2>1, <2>4 DEF AddDevice, TypeOK, DatabaseType
  <2>5. CASE RecordStarted
    BY <1>1, <2>1, <2>5 DEF RecordStarted
  <2>6. CASE UndoRecord
    BY <1>1, <2>1, <2>6 DEF UndoRecord, NoRecords
  <2>7. CASE UndoFiles
    BY <1>1, <2>1, <2>7 DEF UndoFiles, NoTree, NoManifest
  <2>8. QED
    BY <1>2, <2>2, <2>3, <2>4, <2>5, <2>6, <2>7 DEF Begin
<1>3. CASE CallFails
  BY <1>1, <1>3, FailFrame
<1>4. CASE DeleteFiles \/ DeleteRecord
  BY <1>1, <1>4 DEF DeleteFiles, DeleteRecord, NoTree, NoRecords, NoManifest, Callback
<1>5. CASE FinishScan \/ CancelScan \/ OpenRun \/ Purge \/ DeleteRecordFails
  BY <1>1, <1>5 DEF FinishScan, CancelScan, OpenRun, Purge, DeleteRecordFails, Callback
<1>6. CASE UNCHANGED vars
  BY <1>1, <1>6 DEF vars
<1>7. QED
  BY <1>2, <1>3, <1>4, <1>5, <1>6, StaysInStart DEF Operator

\* Storing one more output.
LEMMA OneMoreStored ==
    ASSUME SinkInv, NEW t \in Targets, sink[t] = "id"
    PROVE  LET now == known[t] \cup {Command(t)}
           IN  /\ \E k \in 0..NCommands : now = 1..k
               /\ Command(t) < NCommands => now # Commands
               /\ ~(Command(t) < NCommands) => now = Commands
<1>1. PICK k \in 0..NCommands : known[t] = 1..k
  BY DEF SinkInv
<1>2. Command(t) = k + 1 /\ k + 1 \in Commands
  BY <1>1, NextCommand DEF SinkInv, StoreLock, Command
<1>3. k + 1 \in 0..NCommands /\ known[t] \cup {Command(t)} = 1..(k + 1)
  BY <1>1, <1>2, NextCommand, SizeAssumption DEF Commands
<1>4. 1..(k + 1) = Commands => k + 1 = NCommands
  BY <1>3, NextCommand
<1>5. ~(k + 1 < NCommands) => k + 1 = NCommands
  BY <1>3, SizeAssumption
<1>6. ~(k + 1 < NCommands) => 1..(k + 1) = Commands
  BY <1>5 DEF Commands
<1>7. k + 1 < NCommands => 1..(k + 1) # Commands
  BY <1>3, <1>4, SizeAssumption
<1>8. QED
  BY <1>2, <1>3, <1>6, <1>7

LEMMA SinkInvStep == IInv /\ [Next]_vars => SinkInv'
<1> SUFFICES ASSUME IInv, [Next]_vars, NEW u \in Targets
             PROVE  SinkInv!(u)'
  BY DEF SinkInv
<1> USE SizeAssumption DEF IInv, SinkInv, memory
<1>1. CASE Begin \/ Persist \/ Abort \/ CallFails \/ FinishScan \/ Operator \/ AuditReturns
  BY <1>1, BeginFrame, PersistFrame, AbortFrame, FailFrame, OperatorFrame DEF AuditReturns
<1>2. ASSUME NEW t \in Targets, Worker(t)
      PROVE  SinkInv!(u)'
  <2>1. outcome[t] = None /\ sink \in [Targets -> {"collect", "stored"} \cup ContextLock]
    BY <1>2, WorkerFrame DEF TypeOK, WorkerType
  <2>2. CASE CallSink(t) \/ SetCollecting(t) \/ Describe(t)
    <3>1. {} # Commands
      BY DEF Commands
    <3>2. QED
      BY <2>1, <2>2, <3>1 DEF CallSink, SetCollecting, Describe, SinkStep, StoreLock
  <2>3. CASE WriteOutput(t) \/ ListOutput(t) \/ AddArtifact(t)
    BY <2>1, <2>3 DEF WriteOutput, ListOutput, AddArtifact, SinkStep, StoreLock
  <2>4. CASE AddArtifactId(t)
    <3>1. /\ sink[t] = "id" /\ outcome' = outcome
          /\ sink' = [sink EXCEPT ![t] = IF Command(t) < NCommands THEN "file" ELSE "stored"]
          /\ known' = [known EXCEPT ![t] = @ \cup {Command(t)}]
      BY <2>4 DEF AddArtifactId, SinkStep
    <3>2. CASE u = t
      BY <2>1, <3>1, <3>2, OneMoreStored DEF TypeOK, WorkerType, StoreLock, None
    <3>3. CASE u # t
      BY <3>1, <3>3
    <3>4. QED
      BY <3>2, <3>3
  <2>5. CASE SinkFails(t)
    BY <2>1, <2>5 DEF SinkFails, WorkerEnds, TypeOK, WorkerType, StoreLock, None
  <2>6. CASE WorkerStops(t)
    <3>1. PICK s \in FailureStatuses \cup {"CANCELLED"} : WorkerEnds(t, s)
      BY <2>6, FailuresAssumption DEF WorkerStops
    <3>2. s # "COMPLETE" /\ s # None
      BY DEF FailureStatuses, None
    <3>3. QED
      BY <2>1, <2>6, <3>1, <3>2 DEF WorkerStops, WorkerEnds, TypeOK, WorkerType, StoreLock
  <2>7. CASE WorkerJudges(t)
    BY <2>1, <2>7 DEF WorkerJudges, WorkerEnds, TypeOK, WorkerType, StoreLock, None
  <2>8. QED
    BY <1>2, <2>2, <2>3, <2>4, <2>5, <2>6, <2>7 DEF Worker
<1>3. CASE Exit
  <2>1. 0 \in 0..NCommands /\ {} = 1..0
    OBVIOUS
  <2>2. QED
    BY <1>3, <2>1 DEF Exit, StoreLock, None
<1>4. CASE UNCHANGED vars
  BY <1>4 DEF vars
<1>5. QED
  BY <1>1, <1>2, <1>3, <1>4 DEF Next, Main, Done

LEMMA EvidenceStep == IInv /\ [Next]_vars => EvidenceInv'
<1> SUFFICES ASSUME IInv, [Next]_vars, NEW u \in Targets
             PROVE  EvidenceInv!(u)'
  BY DEF EvidenceInv
<1> USE DEF IInv, EvidenceInv, Command, memory, records, tree, window
<1>1. CASE Begin
  <2>1. /\ sink[u] = "collect" /\ rows[u] = {} /\ listed[u] = {}
        /\ UNCHANGED sink
    BY <1>1, BeginFrame DEF StartInv
  <2>2. rows'[u] = {} /\ listed'[u] = {}
    <3>1. CASE UndoRecord \/ UndoFiles
      BY <2>1, <3>1 DEF UndoRecord, UndoFiles, NoRecords, NoTree
    <3>2. CASE CreateRecord \/ MakeBundle \/ WriteDraft \/ AddDevice
      BY <2>1, <3>2 DEF CreateRecord, MakeBundle, WriteDraft, AddDevice
    <3>3. CASE PrepareDirectory \/ SetRunning \/ RecordStarted
      BY <2>1, <3>3 DEF PrepareDirectory, SetRunning, RecordStarted
    <3>4. QED
      BY <1>1, <3>1, <3>2, <3>3 DEF Begin
  <2>3. QED
    BY <2>1, <2>2
<1>2. CASE AuditReturns \/ Persist \/ Abort \/ CallFails
  BY <1>2, PersistFrame, AbortFrame, FailFrame DEF AuditReturns, Step
<1>3. ASSUME NEW t \in Targets, Worker(t)
      PROVE  EvidenceInv!(u)'
  <2>1. /\ sink \in [Targets -> {"collect", "stored"} \cup ContextLock]
        /\ known \in [Targets -> SUBSET Commands] /\ rows \in [Targets -> SUBSET Commands]
        /\ files \in [Targets -> SUBSET Commands] /\ listed \in [Targets -> SUBSET Commands]
        /\ UNCHANGED <<removed, bundle>>
    BY <1>3, WorkerFrame DEF TypeOK, WorkerType, DatabaseType, FilesType
  <2>2. CASE CallSink(t) \/ SetCollecting(t) \/ Describe(t)
    BY <2>1, <2>2 DEF CallSink, SetCollecting, Describe, SinkStep
  <2>3. CASE WriteOutput(t)
    BY <2>1, <2>3 DEF WriteOutput, SinkStep
  <2>4. CASE ListOutput(t)
    BY <2>1, <2>4 DEF ListOutput, SinkStep
  <2>5. CASE AddArtifact(t)
    BY <2>1, <2>5 DEF AddArtifact, SinkStep
  <2>6. CASE AddArtifactId(t)
    BY <2>1, <2>6 DEF AddArtifactId, SinkStep
  <2>7. CASE SinkFails(t) \/ WorkerStops(t) \/ WorkerJudges(t)
    BY <2>1, <2>7 DEF SinkFails, WorkerStops, WorkerJudges, WorkerEnds
  <2>8. QED
    BY <1>3, <2>2, <2>3, <2>4, <2>5, <2>6, <2>7 DEF Worker
<1>4. CASE Purge
  BY <1>4 DEF Purge, StoreFree, StoreLock, Remove, Callback
<1>5. CASE DeleteFiles
  BY <1>5 DEF DeleteFiles, StoreFree, StoreLock, Remove, NoTree, Callback
<1>6. CASE DeleteRecord
  BY <1>6 DEF DeleteRecord, NoRecords, Callback
<1>7. CASE FinishScan \/ CancelScan \/ OpenRun \/ DeleteRecordFails
  BY <1>7 DEF FinishScan, CancelScan, OpenRun, DeleteRecordFails, Callback
<1>8. CASE Exit
  BY <1>8 DEF Exit
<1>9. CASE UNCHANGED vars
  BY <1>9 DEF vars
<1>10. QED
  BY <1>1, <1>2, <1>3, <1>4, <1>5, <1>6, <1>7, <1>8, <1>9 DEF Next, Main, Operator, Done

LEMMA ManifestStep == IInv /\ [Next]_vars => ManifestInv'
<1> SUFFICES ASSUME IInv, [Next]_vars
             PROVE  ManifestInv'
  OBVIOUS
<1> USE DEF IInv, ManifestInv, Finalized, memory, records, tree
<1>1. CASE Begin
  <2>1. manifest.status = None
    BY <1>1, BeginFrame DEF StartInv
  <2>2. manifest'.status = None
    <3>1. CASE UndoFiles
      BY <3>1 DEF UndoFiles, NoTree, NoManifest
    <3>2. CASE CreateRecord \/ MakeBundle \/ WriteDraft \/ AddDevice \/ PrepareDirectory
      BY <2>1, <3>2 DEF CreateRecord, MakeBundle, WriteDraft, AddDevice, PrepareDirectory
    <3>3. CASE SetRunning \/ RecordStarted \/ UndoRecord
      BY <2>1, <3>3 DEF SetRunning, RecordStarted, UndoRecord
    <3>4. QED
      BY <1>1, <3>1, <3>2, <3>3 DEF Begin
  <2>3. QED
    BY <2>2
<1>2. CASE AuditReturns
  BY <1>2 DEF AuditReturns, Step
<1>3. CASE Persist \/ Abort
  <2>1. /\ pc' \notin Starting \cup {"audit"} /\ pc \notin Starting \cup {"audit"}
        /\ UNCHANGED <<bundle, listed>>
    BY <1>3, PersistFrame, AbortFrame, Apart DEF Started, Ended
  <2>2. QED
    BY <1>3, <2>1, WritesManifest DEF Writable
<1>4. CASE CallFails
  <2>1. pc \notin Starting \cup {"audit"} => pc' \notin Starting \cup {"audit"}
    BY <1>4, FailFrame, HandlerLeads, Apart DEF TypeOK, WorkerType, Starting, Started, Ended,
       AbortSteps
  <2>2. QED
    BY <1>4, <2>1, FailFrame
<1>5. ASSUME NEW t \in Targets, Worker(t)
      PROVE  ManifestInv'
  BY <1>5, WorkerFrame
<1>6. CASE DeleteFiles
  BY <1>6 DEF DeleteFiles, NoTree, NoManifest
<1>7. CASE FinishScan \/ CancelScan \/ OpenRun \/ Purge \/ DeleteRecord \/ DeleteRecordFails
  BY <1>7 DEF FinishScan, CancelScan, OpenRun, Purge, DeleteRecord, DeleteRecordFails, Callback
<1>8. CASE Exit
  BY <1>8, Apart DEF Exit, Ended
<1>9. CASE UNCHANGED vars
  BY <1>9 DEF vars
<1>10. QED
  BY <1>1, <1>2, <1>3, <1>4, <1>5, <1>6, <1>7, <1>8, <1>9 DEF Next, Main, Operator, Done

\* Words that are no outcome.
LEMMA NoOutcomes ==
    /\ Absent \notin TerminalStatuses /\ "QUEUED" \notin TerminalStatuses
    /\ "COLLECTING" \notin TerminalStatuses /\ None \notin TerminalStatuses
    /\ Absent \notin Final /\ "CREATED" \notin Final /\ "RUNNING" \notin Final
BY DEF Absent, None, TerminalStatuses, FailureStatuses, Final, FinalRunStatuses

\* A failed call leads to one of four kinds of places.
LEMMA FailureLeads ==
    TypeOK /\ CallFails =>
        /\ pc' \in UndoSteps \cup {"over", "abort", "close log"} /\ at' = 1
        /\ UNCHANGED <<memory, records, tree, window>>
        /\ pc = "export" => pc' = "over"
        /\ pc' \in UndoSteps => pc \in Starting
        /\ pc' = "over" /\ pc \in Starting => pc = "create" \/ pc \in UndoSteps
<1> SUFFICES ASSUME TypeOK, CallFails
             PROVE  /\ pc' \in UndoSteps \cup {"over", "abort", "close log"}
                    /\ pc = "export" => pc' = "over"
                    /\ pc' \in UndoSteps => pc \in Starting
                    /\ pc' = "over" /\ pc \in Starting => pc = "create" \/ pc \in UndoSteps
  BY FailFrame
<1>1. pc' = Handler(pc) /\ pc \notin Ended \cup {"abort"}
  BY DEF CallFails
<1>2. pc \in Starting \cup PersistSteps \cup AbortSteps \cup {"audit", "export"}
  BY <1>1 DEF TypeOK, WorkerType, Starting
<1>3. pc \in BeginSteps \ {"create"} => Handler(pc) = "undo record"
  BY DEF Handler, BeginSteps, UndoSteps, PersistSteps, AbortSteps
<1>4. \A p \in {"over", "abort", "close log"} : p \notin UndoSteps
  BY DEF UndoSteps
<1>5. "over" # "undo record"
  OBVIOUS
<1>6. QED
  BY <1>1, <1>2, <1>3, <1>4, <1>5, HandlerLeads DEF Starting

LEMMA OutcomeStep == IInv /\ [Next]_vars => OutcomeInv'
<1> SUFFICES ASSUME IInv, [Next]_vars
             PROVE  OutcomeInv'
  OBVIOUS
<1> USE NoOutcomes DEF IInv, OutcomeInv, Recorded, memory, records
<1>1. at \in 1..NTargets /\ NTargets \in Nat /\ dev \in [Targets -> DeviceStatuses \cup {Absent}]
  BY SizeAssumption DEF TypeOK, WorkerType, DatabaseType, Targets, DeviceStatuses,
     InFlightStatuses
<1>2. CASE Begin
  <2>1. CASE CreateRecord \/ MakeBundle \/ WriteDraft
    BY <2>1 DEF CreateRecord, MakeBundle, WriteDraft, Step
  <2>2. CASE AddDevice \/ UndoRecord \/ UndoFiles
    BY <2>2 DEF AddDevice, UndoRecord, UndoFiles, Step
  <2>3. CASE PrepareDirectory
    BY <1>1, <2>3 DEF PrepareDirectory, Loop, Step
  <2>4. CASE SetRunning
    BY <2>4 DEF SetRunning, Step
  <2>5. CASE RecordStarted
    <3>1. \A t \in Targets : dev[t] \in {Absent, "QUEUED"}
      BY <1>2, BeginFrame DEF StartInv
    <3>2. pc = "started" /\ pc' = "audit" /\ UNCHANGED <<at, dev>>
      BY <2>5 DEF RecordStarted
    <3>3. QED
      BY <3>1, <3>2
  <2>6. QED
    BY <1>2, <2>1, <2>2, <2>3, <2>4, <2>5 DEF Begin
<1>3. CASE AuditReturns
  BY <1>3 DEF AuditReturns, Step, Targets
<1>4. CASE Persist
  <2>1. CASE RecordOutcome
    <3>1. /\ outcome[at] \in TerminalStatuses /\ pc = "outcome" /\ at' = at
          /\ pc' \in {"result", "results"} /\ dev' = [dev EXCEPT ![at] = outcome[at]]
          /\ run' = run
      BY <1>1, <2>1 DEF RecordOutcome, Step, ControlInv, PersistSteps, Targets
    <3>2. QED
      BY <1>1, <3>1 DEF Targets
  <2>2. CASE AddResult \/ LinkEvidence
    BY <2>2 DEF AddResult, LinkEvidence, Step
  <2>3. CASE WriteResults
    <3>1. /\ pc = "results" /\ UNCHANGED <<dev, run>>
          /\ \/ at < NTargets /\ pc' = "outcome" /\ at' = at + 1
             \/ pc' = "counts"
      BY <2>3 DEF WriteResults, Loop, Step
    <3>2. QED
      BY <1>1, <3>1 DEF Targets
  <2>4. CASE \/ RefreshCounts("counts", "status") \/ SetStatus("status", "manifest")
             \/ Finalize("manifest", "completed")
    BY <2>4 DEF RefreshCounts, SetStatus, Finalize, Step
  <2>5. CASE \/ RecordActivity("completed", IF Checklist THEN "export" ELSE "over",
                               "AUDIT_COMPLETED")
             \/ Export
    BY <2>5 DEF RecordActivity, Export, Step
  <2>6. QED
    BY <1>4, <2>1, <2>2, <2>3, <2>4, <2>5 DEF Persist
<1>5. CASE Abort
  BY <1>5, AbortFrame DEF AbortSteps
<1>6. CASE CallFails
  BY <1>6, FailureLeads DEF UndoSteps
<1>7. ASSUME NEW t \in Targets, Worker(t)
      PROVE  OutcomeInv'
  <2>1. pc = "audit" /\ UNCHANGED <<pc, at>>
    BY <1>7, WorkerFrame
  <2>2. dev' = dev \/ dev' = [dev EXCEPT ![t] = "COLLECTING"]
    BY <1>7 DEF Worker, CallSink, SetCollecting, Describe, WriteOutput, ListOutput, AddArtifact,
       AddArtifactId, SinkFails, WorkerStops, WorkerJudges, WorkerEnds
  <2>3. QED
    BY <1>1, <2>1, <2>2
<1>8. CASE DeleteRecord
  BY <1>8 DEF DeleteRecord, NoRecords, Callback
<1>9. CASE FinishScan \/ CancelScan \/ OpenRun \/ Purge \/ DeleteFiles \/ DeleteRecordFails
  BY <1>9 DEF FinishScan, CancelScan, OpenRun, Purge, DeleteFiles, DeleteRecordFails, Callback
<1>10. CASE Exit
  BY <1>10 DEF Exit
<1>11. CASE UNCHANGED vars
  BY <1>11 DEF vars
<1>12. QED
  BY <1>2, <1>3, <1>4, <1>5, <1>6, <1>7, <1>8, <1>9, <1>10, <1>11
     DEF Next, Main, Operator, Done

\* The record of the run and those of the devices.
LEMMA DeviceTable ==
    IInv => /\ at \in 1..NTargets /\ NTargets \in Nat /\ Targets = 1..NTargets
            /\ dev \in [Targets -> DeviceStatuses \cup {Absent}]
BY SizeAssumption DEF IInv, TypeOK, WorkerType, DatabaseType, Targets, DeviceStatuses,
   InFlightStatuses

LEMMA RecordStep == IInv /\ [Next]_vars => RecordInv'
<1> SUFFICES ASSUME IInv, [Next]_vars
             PROVE  RecordInv'
  OBVIOUS
<1> USE DEF IInv, RecordInv, Recorded, memory, records
<1>1. /\ at \in 1..NTargets /\ NTargets \in Nat /\ Targets = 1..NTargets
      /\ dev \in [Targets -> DeviceStatuses \cup {Absent}]
  BY DeviceTable
<1>2. CASE Begin
  <2>1. pc \in Starting /\ pc \notin Started
    BY <1>2, BeginFrame, Apart
  <2>2. CASE CreateRecord \/ MakeBundle \/ WriteDraft
    <3>1. pc' \in {"mkdir", "draft", "device"} /\ dev' = dev /\ (pc' = "device" => at' = 1)
          /\ (run' = run \/ run' # Absent)
      BY <2>2 DEF CreateRecord, MakeBundle, WriteDraft, Step, OutcomeInv, Absent
    <3>2. pc' \notin Started
      BY <3>1, Apart DEF Starting, BeginSteps
    <3>3. QED
      BY <1>1, <3>1, <3>2
  <2>3. CASE AddDevice
    <3>1. /\ pc = "device" /\ pc' = "directory" /\ run # Absent
          /\ UNCHANGED <<at, run>> /\ dev' = [dev EXCEPT ![at] = "QUEUED"]
      BY <2>3, PossibleMeans DEF AddDevice, Step
    <3>2. \A t \in Targets : t <= at => dev'[t] # Absent
      BY <1>1, <3>1 DEF Absent
    <3>3. pc' \notin Started
      BY <3>1, Apart DEF Starting, BeginSteps
    <3>4. QED
      BY <3>1, <3>2, <3>3
  <2>4. CASE PrepareDirectory
    <3>1. /\ pc = "directory" /\ UNCHANGED <<run, dev>>
          /\ \/ at < NTargets /\ pc' = "device" /\ at' = at + 1
             \/ at = NTargets /\ pc' = "running"
      BY <1>1, <2>4 DEF PrepareDirectory, Loop, Step
    <3>2. "device" \notin Started
      BY Apart DEF Starting, BeginSteps
    <3>3. QED
      BY <1>1, <3>1, <3>2
  <2>5. CASE SetRunning
    <3>1. pc = "running" /\ pc' = "started" /\ run # Absent /\ run' = "RUNNING" /\ dev' = dev
      BY <2>5, PossibleMeans DEF SetRunning, Step
    <3>2. run' # Absent
      BY <3>1 DEF Absent
    <3>3. QED
      BY <3>1, <3>2
  <2>6. CASE RecordStarted
    BY <2>6 DEF RecordStarted
  <2>7. CASE UndoRecord
    BY <2>7 DEF UndoRecord, NoRecords
  <2>8. CASE UndoFiles
    <3>1. "over" \notin Started
      BY Apart DEF Ended
    <3>2. QED
      BY <2>8, <3>1 DEF UndoFiles, Step
  <2>9. QED
    BY <1>2, <2>2, <2>3, <2>4, <2>5, <2>6, <2>7, <2>8 DEF Begin
<1>3. ASSUME pc \in Started, pc' \in Started \cup Ended,
             run' = Absent <=> run = Absent,
             \A t \in Targets : dev[t] # Absent <=> dev'[t] # Absent
      PROVE  RecordInv'
  <2>1. pc' \notin {"device", "directory", "running", "started"}
    BY <1>3, Apart DEF Starting, Started, Ended, BeginSteps
  <2>2. pc' \in Started => pc \in Started
    BY <1>3
  <2>3. QED
    BY <1>3, <2>1, <2>2
<1>4. CASE AuditReturns
  <2>1. pc = "audit" /\ pc' = "outcome" /\ UNCHANGED <<run, dev>>
    BY <1>4 DEF AuditReturns, Step
  <2>2. QED
    BY <1>3, <2>1 DEF Started, PersistSteps
<1>5. CASE Persist
  <2>1. pc \in Started /\ pc' \in Started \cup Ended
    BY <1>5, PersistFrame DEF Started, Ended
  <2>2. CASE RecordOutcome
    <3>1. /\ run' = run /\ dev' = [dev EXCEPT ![at] = outcome[at]] /\ dev[at] # Absent
          /\ outcome[at] # Absent
      BY <1>1, <2>2, PossibleMeans, NoOutcomes
         DEF RecordOutcome, Step, ControlInv, PersistSteps
    <3>2. QED
      BY <1>1, <1>3, <2>1, <3>1
  <2>3. CASE SetStatus("status", "manifest")
    <3>1. run # Absent /\ run' = summary /\ dev' = dev
      BY <2>3, PossibleMeans DEF SetStatus, Step
    <3>2. summary # Absent
      BY <2>3, NoOutcomes DEF SetStatus, Step, ControlInv, PersistSteps
    <3>3. QED
      BY <1>3, <2>1, <3>1, <3>2
  <2>4. CASE ~RecordOutcome /\ ~SetStatus("status", "manifest")
    <3>1. run' = run /\ dev' = dev
      BY <1>5, <2>4 DEF Persist, AddResult, LinkEvidence, WriteResults, RefreshCounts, Finalize,
         RecordActivity, Export
    <3>2. QED
      BY <1>3, <2>1, <3>1
  <2>5. QED
    BY <2>2, <2>3, <2>4
<1>6. CASE Abort
  <2>1. pc \in Started /\ pc' \in Started \cup Ended
    BY <1>6, AbortFrame DEF Started, Ended
  <2>2. CASE CloseDevice
    <3>1. run' = run
      BY <2>2 DEF CloseDevice
    <3>2. ASSUME NEW t \in Targets
          PROVE  dev[t] # Absent <=> dev'[t] # Absent
      BY <1>1, <2>2 DEF CloseDevice, Absent
    <3>3. QED
      BY <1>3, <2>1, <3>1, <3>2
  <2>3. CASE SetStatus("close status", "close manifest")
    <3>1. run # Absent /\ run' = summary /\ dev' = dev
      BY <2>3, PossibleMeans DEF SetStatus, Step
    <3>2. summary # Absent
      BY <2>3 DEF SetStatus, Step, ControlInv, AbortSteps, Absent
    <3>3. QED
      BY <1>3, <2>1, <3>1, <3>2
  <2>4. CASE ~CloseDevice /\ ~SetStatus("close status", "close manifest")
    <3>1. run' = run /\ dev' = dev
      BY <1>6, <2>4 DEF Abort, StartAbort, RefreshCounts, Finalize, RecordActivity
    <3>2. QED
      BY <1>3, <2>1, <3>1
  <2>5. QED
    BY <2>2, <2>3, <2>4
<1>7. CASE CallFails
  <2>1. UNCHANGED <<run, dev>> /\ (pc \in Starting \/ pc \in Started)
    BY <1>7, FailureLeads, FailFrame DEF TypeOK, WorkerType, Starting, Started
  <2>2. CASE pc \in Starting
    <3>1. pc' \in UndoSteps \cup {"over"}
      BY <1>7, <2>2, FailFrame, HandlerLeads
    <3>2. pc' \notin Started \cup {"running", "started", "device", "directory"}
      BY <3>1, Apart DEF Starting, Ended, UndoSteps
    <3>3. QED
      BY <2>1, <3>2
  <2>3. CASE pc \in Started
    <3>1. pc' \in {"over", "abort", "close log"}
      BY <1>7, <2>3, FailureLeads, Apart
    <3>2. pc' \in Started \cup Ended
      BY <3>1 DEF Started, Ended, AbortSteps
    <3>3. QED
      BY <1>3, <2>1, <2>3, <3>2
  <2>4. QED
    BY <2>1, <2>2, <2>3
<1>8. ASSUME NEW t \in Targets, Worker(t)
      PROVE  RecordInv'
  <2>1. pc \in Started /\ UNCHANGED <<pc, run>>
    BY <1>8, WorkerFrame DEF Started
  <2>2. CASE SetCollecting(t)
    <3>1. dev' = [dev EXCEPT ![t] = "COLLECTING"] /\ dev[t] # Absent
      BY <2>2 DEF SetCollecting, SinkStep, SinkPossible
    <3>2. \A u \in Targets : dev[u] # Absent <=> dev'[u] # Absent
      BY <1>1, <3>1 DEF Absent
    <3>3. QED
      BY <1>3, <2>1, <3>2
  <2>3. CASE ~SetCollecting(t)
    <3>1. dev' = dev
      BY <1>8, <2>3 DEF Worker, CallSink, Describe, WriteOutput, ListOutput, AddArtifact,
         AddArtifactId, SinkFails, WorkerStops, WorkerJudges, WorkerEnds
    <3>2. QED
      BY <1>3, <2>1, <3>1
  <2>4. QED
    BY <2>2, <2>3
<1>9. CASE DeleteRecord
  BY <1>9 DEF DeleteRecord, NoRecords
<1>10. CASE FinishScan \/ CancelScan \/ OpenRun \/ Purge \/ DeleteFiles \/ DeleteRecordFails
  BY <1>10 DEF FinishScan, CancelScan, OpenRun, Purge, DeleteFiles, DeleteRecordFails, Callback
<1>11. CASE Exit
  <2>1. pc' = "exited" /\ UNCHANGED <<run, dev>> /\ "exited" \notin Started
    BY <1>11, Apart DEF Exit, Ended
  <2>2. QED
    BY <2>1
<1>12. CASE UNCHANGED vars
  BY <1>12 DEF vars
<1>13. QED
  BY <1>2, <1>4, <1>5, <1>6, <1>7, <1>8, <1>9, <1>10, <1>11, <1>12
     DEF Next, Main, Operator, Done

\* A loop over the devices takes one round after the other.
LEMMA NextRound ==
    ASSUME NEW from, NEW again, NEW after, IInv, Loop(from, again, after)
    PROVE  /\ pc = from /\ Possible
           /\ \/ at < NTargets /\ pc' = again /\ at' = at + 1
              \/ at = NTargets /\ pc' = after /\ at' = 1
<1>1. at \in 1..NTargets /\ NTargets \in Nat
  BY DeviceTable
<1>2. ~(at < NTargets) => at = NTargets
  BY <1>1
<1>3. QED
  BY <1>2 DEF Loop, Step

\* abort_run closes one device after the other and leaves the closed ones alone.
LEMMA ClosesDevice ==
    ASSUME IInv, CloseDevice
    PROVE  /\ pc = "close device" /\ pc' \in {"close device", "close counts"}
           /\ UNCHANGED <<run, counts>>
           /\ \A t \in Targets : dev[t] \in TerminalStatuses \cup {Absent} => dev'[t] = dev[t]
           /\ (\A t \in Targets : dev[t] \in TerminalStatuses) => dev' = dev
           /\ run # Absent =>
                 \A t \in Targets : t < at' \/ pc' = "close counts" => dev'[t] \in TerminalStatuses
<1>1. /\ at \in 1..NTargets /\ NTargets \in Nat /\ Targets = 1..NTargets
      /\ dev \in [Targets -> DeviceStatuses \cup {Absent}]
  BY DeviceTable
<1>2. /\ pc = "close device"
      /\ \/ at < NTargets /\ pc' = "close device" /\ at' = at + 1
         \/ at = NTargets /\ pc' = "close counts"
  BY NextRound DEF CloseDevice
<1>3. UNCHANGED <<run, counts>>
  BY DEF CloseDevice
<1>4. /\ \A t \in Targets : t # at => dev'[t] = dev[t]
      /\ dev[at] \in TerminalStatuses \cup {Absent} => dev' = dev
      /\ \/ dev[at] \in TerminalStatuses \cup {Absent}
         \/ dev'[at] \in {"CANCELLED", "EVALUATION_FAILED"}
  BY <1>1 DEF CloseDevice
<1>5. run # Absent => dev[at] # Absent
  BY <1>1, <1>2 DEF IInv, RecordInv, Recorded, Started, AbortSteps
<1>6. run # Absent => dev'[at] \in TerminalStatuses
  <2>1. {"CANCELLED", "EVALUATION_FAILED"} \subseteq TerminalStatuses
    BY DEF TerminalStatuses, FailureStatuses
  <2>2. QED
    BY <1>4, <1>5, <2>1
<1>7. run # Absent => \A t \in Targets : t < at => dev'[t] \in TerminalStatuses
  <2>1. run # Absent => \A t \in Targets : t < at => dev[t] \in TerminalStatuses
    BY <1>2 DEF IInv, ClosingInv, Recorded
  <2>2. \A t \in Targets : t < at => t # at
    BY <1>1
  <2>3. QED
    BY <1>4, <2>1, <2>2
<1>8. \A t \in Targets : t < at' \/ pc' = "close counts" => t < at \/ t = at
  <2>1. CASE at' = at + 1 /\ pc' = "close device"
    <3>1. \A t \in Targets : t < at + 1 => t < at \/ t = at
      BY <1>1
    <3>2. QED
      BY <2>1, <3>1
  <2>2. CASE at = NTargets
    <3>1. \A t \in Targets : t < at \/ t = at
      BY <1>1, <2>2
    <3>2. QED
      BY <3>1
  <2>3. QED
    BY <1>2, <2>1, <2>2
<1>9. run # Absent =>
        \A t \in Targets : t < at' \/ pc' = "close counts" => dev'[t] \in TerminalStatuses
  BY <1>6, <1>7, <1>8
<1>10. \A t \in Targets : dev[t] \in TerminalStatuses \cup {Absent} => dev'[t] = dev[t]
  BY <1>4
<1>11. QED
  BY <1>1, <1>2, <1>3, <1>4, <1>9, <1>10

LEMMA ClosingStep == IInv /\ [Next]_vars => ClosingInv'
<1> SUFFICES ASSUME IInv, [Next]_vars
             PROVE  ClosingInv'
  OBVIOUS
<1> USE DEF memory, records
<1>0. ClosingInv /\ OutcomeInv /\ StartInv
  BY DEF IInv
<1> DEFINE Late == {"counts", "status", "close counts", "close status", "close device"}
<1>1. /\ at \in 1..NTargets /\ NTargets \in Nat /\ Targets = 1..NTargets
      /\ dev \in [Targets -> DeviceStatuses \cup {Absent}]
  BY DeviceTable
<1>2. ASSUME run' \notin Final, pc' \notin Late
      PROVE  ClosingInv'
  BY <1>2 DEF ClosingInv
<1>3. ASSUME run' = Absent
      PROVE  ClosingInv'
  BY <1>3, NoOutcomes DEF ClosingInv, Recorded
<1>4. ASSUME UNCHANGED <<run, dev, counts>>, pc' \notin Late,
             pc' \in Unfinished => pc \in Unfinished
      PROVE  ClosingInv'
  BY <1>0, <1>4 DEF ClosingInv
<1>5. CASE Begin
  <2>1. run \in {Absent, "CREATED", "RUNNING"}
    BY <1>0, <1>5, BeginFrame DEF StartInv
  <2>2. run' \in {Absent, "CREATED", "RUNNING"}
    <3>1. CASE CreateRecord \/ SetRunning \/ UndoRecord \/ RecordStarted
      BY <2>1, <3>1 DEF CreateRecord, SetRunning, UndoRecord, RecordStarted, NoRecords
    <3>2. CASE MakeBundle \/ WriteDraft \/ AddDevice \/ PrepareDirectory \/ UndoFiles
      BY <2>1, <3>2 DEF MakeBundle, WriteDraft, AddDevice, PrepareDirectory, UndoFiles
    <3>3. QED
      BY <1>5, <3>1, <3>2 DEF Begin
  <2>3. pc' \notin Late
    BY <1>5, BeginFrame DEF Starting, BeginSteps, UndoSteps
  <2>4. QED
    BY <1>2, <2>2, <2>3, NoOutcomes
<1>6. CASE AuditReturns
  BY <1>4, <1>6 DEF AuditReturns, Step, Unfinished
<1>7. CASE Persist
  <2>1. CASE RecordOutcome \/ AddResult \/ LinkEvidence
    <3>1. pc \in Unfinished /\ run' = run /\ pc' \in {"result", "link", "results"}
      BY <2>1 DEF RecordOutcome, AddResult, LinkEvidence, Step, Unfinished
    <3>2. run \notin Final
      BY <1>0, <3>1 DEF ClosingInv
    <3>3. QED
      BY <1>2, <3>1, <3>2
  <2>2. CASE WriteResults
    <3>1. /\ pc = "results" /\ UNCHANGED <<dev, run>>
          /\ pc' = "outcome" \/ (at = NTargets /\ pc' = "counts")
      <4>1. Loop("results", "outcome", "counts") /\ UNCHANGED <<dev, run>>
        BY <2>2 DEF WriteResults
      <4>2. QED
        BY <4>1, NextRound
    <3>2. run' \notin Final
      BY <1>0, <3>1 DEF ClosingInv, Unfinished
    <3>3. pc' = "counts" /\ run # Absent => \A t \in Targets : dev'[t] \in TerminalStatuses
      BY <1>0, <1>1, <3>1 DEF OutcomeInv, Recorded
    <3>4. QED
      BY <3>1, <3>2, <3>3 DEF ClosingInv, Recorded
  <2>3. CASE RefreshCounts("counts", "status")
    <3>1. pc = "counts" /\ pc' = "status" /\ UNCHANGED <<dev, run>> /\ counts' = CountsOf(dev)
      BY <2>3 DEF RefreshCounts, Step
    <3>2. run' \notin Final
      BY <1>0, <3>1 DEF ClosingInv, Unfinished
    <3>3. QED
      BY <1>0, <3>1, <3>2 DEF ClosingInv, Recorded
  <2>4. CASE SetStatus("status", "manifest")
    <3>1. pc = "status" /\ pc' = "manifest" /\ UNCHANGED <<dev, counts>> /\ run # Absent
      BY <2>4, PossibleMeans DEF SetStatus, Step
    <3>2. pc' \notin Unfinished
      BY <3>1 DEF Unfinished
    <3>3. QED
      BY <1>0, <3>1, <3>2 DEF ClosingInv, Recorded
  <2>5. CASE Finalize("manifest", "completed") \/ Export
    BY <1>4, <2>5 DEF Finalize, Export, Step, Unfinished
  <2>6. CASE RecordActivity("completed", IF Checklist THEN "export" ELSE "over",
                            "AUDIT_COMPLETED")
    BY <1>4, <2>6 DEF RecordActivity, Step, Unfinished
  <2>7. QED
    BY <1>7, <2>1, <2>2, <2>3, <2>4, <2>5, <2>6 DEF Persist
<1>8. CASE Abort
  <2>1. pc' \notin Unfinished \cup {"counts", "status"}
    BY <1>8, AbortFrame DEF Unfinished, AbortSteps
  <2>2. CASE StartAbort
    <3>1. pc' = "close device" /\ at' = 1 /\ UNCHANGED <<run, dev, counts>>
      BY <2>2 DEF StartAbort, Step
    <3>2. \A t \in Targets : ~(t < at')
      <4>1. \A t \in Targets : ~(t < 1)
        BY <1>1
      <4>2. QED
        BY <3>1, <4>1
    <3>3. QED
      BY <1>0, <2>1, <3>1, <3>2 DEF ClosingInv, Recorded
  <2>3. CASE CloseDevice
    BY <1>0, <2>1, <2>3, ClosesDevice DEF ClosingInv, Recorded
  <2>4. CASE RefreshCounts("close counts", "close status")
    <3>1. /\ pc = "close counts" /\ pc' = "close status" /\ UNCHANGED <<dev, run>>
          /\ counts' = CountsOf(dev)
      BY <2>4 DEF RefreshCounts, Step
    <3>2. QED
      BY <1>0, <2>1, <3>1 DEF ClosingInv, Recorded
  <2>5. CASE SetStatus("close status", "close manifest")
    <3>1. /\ pc = "close status" /\ pc' = "close manifest" /\ UNCHANGED <<dev, counts>>
          /\ run # Absent
      BY <2>5, PossibleMeans DEF SetStatus, Step
    <3>2. QED
      BY <1>0, <2>1, <3>1 DEF ClosingInv, Recorded
  <2>6. CASE Finalize("close manifest", "close log")
    BY <1>4, <2>6 DEF Finalize, Step, Unfinished
  <2>7. CASE RecordActivity("close log", AfterAbort,
                            IF summary = "CANCELLED" THEN "AUDIT_CANCELLED" ELSE "AUDIT_FAILED")
    <3>1. pc' \in {"abort", "over"} /\ UNCHANGED <<run, dev, counts>>
      BY <2>7 DEF RecordActivity, AfterAbort, Step
    <3>2. QED
      BY <1>4, <2>1, <3>1
  <2>8. QED
    BY <1>8, <2>2, <2>3, <2>4, <2>5, <2>6, <2>7 DEF Abort
<1>9. CASE CallFails
  <2>1. UNCHANGED <<run, dev, counts>> /\ pc' \in UndoSteps \cup {"over", "abort", "close log"}
    BY <1>9, FailureLeads DEF IInv
  <2>2. pc' \notin Late \cup Unfinished
    BY <2>1 DEF UndoSteps, Unfinished
  <2>3. QED
    BY <1>4, <2>1, <2>2
<1>10. ASSUME NEW t \in Targets, Worker(t)
       PROVE  ClosingInv'
  <2>1. pc = "audit" /\ UNCHANGED <<pc, run>>
    BY <1>10, WorkerFrame
  <2>2. run \notin Final
    BY <1>0, <2>1 DEF ClosingInv, Unfinished
  <2>3. QED
    BY <1>2, <2>1, <2>2
<1>11. CASE DeleteRecord
  BY <1>3, <1>11 DEF DeleteRecord, NoRecords
<1>12. CASE FinishScan \/ CancelScan \/ OpenRun \/ Purge \/ DeleteFiles \/ DeleteRecordFails
  <2>1. UNCHANGED <<pc, at, run, dev, counts>>
    BY <1>12 DEF FinishScan, CancelScan, OpenRun, Purge, DeleteFiles, DeleteRecordFails, Callback
  <2>2. QED
    BY <1>0, <2>1 DEF ClosingInv, Recorded
<1>13. CASE Exit
  <2>1. UNCHANGED <<run, dev, counts>> /\ pc' = "exited"
    BY <1>13 DEF Exit
  <2>2. QED
    BY <1>4, <2>1 DEF Unfinished
<1>14. CASE UNCHANGED vars
  <2>1. UNCHANGED <<pc, at, run, dev, counts>>
    BY <1>14 DEF vars
  <2>2. QED
    BY <1>0, <2>1 DEF ClosingInv, Recorded
<1>15. QED
  BY <1>5, <1>6, <1>7, <1>8, <1>9, <1>10, <1>11, <1>12, <1>13, <1>14
     DEF Next, Main, Operator, Done

LEMMA AgreementStep == IInv /\ [Next]_vars => AgreementInv'
<1> SUFFICES ASSUME IInv, [Next]_vars
             PROVE  AgreementInv'
  OBVIOUS
<1> USE DEF memory, records
<1>1. AgreementInv /\ TypeOK
  BY DEF IInv
<1>2. "AUDIT_COMPLETED" \in log => pc \in {"export"} \cup Ended
  BY <1>1 DEF AgreementInv, CompletedIsNotRelabelled
<1>3. CASE Begin
  <2>1. /\ pc' \notin {"manifest", "completed"} /\ pc \notin {"export"} \cup Ended
    BY <1>3, BeginFrame, Apart DEF Starting, Started, BeginSteps, UndoSteps
  <2>2. log' = log \/ log' = log \cup {"AUDIT_STARTED"}
    <3>1. CASE RecordStarted
      BY <3>1 DEF RecordStarted
    <3>2. CASE ~RecordStarted
      BY <1>3, <3>2 DEF Begin, CreateRecord, MakeBundle, WriteDraft, AddDevice,
         PrepareDirectory, SetRunning, UndoRecord, UndoFiles, NoRecords
    <3>3. QED
      BY <3>1, <3>2
  <2>3. "AUDIT_COMPLETED" \notin log'
    BY <1>2, <2>1, <2>2
  <2>4. QED
    BY <2>1, <2>3 DEF AgreementInv, CompletedIsNotRelabelled
<1>4. CASE AuditReturns
  <2>1. pc = "audit" /\ pc' = "outcome" /\ log' = log
    BY <1>4 DEF AuditReturns, Step
  <2>2. QED
    BY <1>2, <2>1 DEF AgreementInv, CompletedIsNotRelabelled, Ended
<1>5. CASE Persist
  <2>1. CASE SetStatus("status", "manifest")
    <3>1. pc = "status" /\ pc' = "manifest" /\ log' = log /\ run' = summary /\ summary' = summary
      BY <2>1 DEF SetStatus, Step
    <3>2. QED
      BY <1>2, <3>1 DEF AgreementInv, CompletedIsNotRelabelled, Ended
  <2>2. CASE Finalize("manifest", "completed")
    <3>1. /\ pc = "manifest" /\ pc' = "completed" /\ UNCHANGED <<run, log>>
          /\ manifest'.status = summary
      BY <2>2 DEF Finalize, Step
    <3>2. QED
      BY <1>1, <1>2, <3>1 DEF AgreementInv, CompletedIsNotRelabelled, Ended
  <2>3. CASE \/ RecordActivity("completed", IF Checklist THEN "export" ELSE "over",
                               "AUDIT_COMPLETED")
             \/ Export
    <3>1. pc' \in {"export", "over"} /\ pc \in {"completed", "export"}
      BY <2>3 DEF RecordActivity, Export, Step
    <3>2. UNCHANGED <<run, manifest>> /\ (pc = "export" => log' = log)
      BY <2>3 DEF RecordActivity, Export, Step, tree
    <3>3. CompletedIsNotRelabelled'
      BY <1>1, <3>1, <3>2 DEF AgreementInv, CompletedIsNotRelabelled, Finalized
    <3>4. QED
      BY <3>1, <3>3 DEF AgreementInv, Ended
  <2>4. CASE \/ RecordOutcome \/ AddResult \/ LinkEvidence \/ WriteResults
             \/ RefreshCounts("counts", "status")
    <3>1. /\ pc \in {"outcome", "result", "link", "results", "counts"}
          /\ pc' \in {"outcome", "result", "link", "results", "counts", "status"}
          /\ log' = log
      BY <2>4 DEF RecordOutcome, AddResult, LinkEvidence, WriteResults, RefreshCounts, Loop, Step
    <3>2. QED
      BY <1>2, <3>1 DEF AgreementInv, CompletedIsNotRelabelled, Ended
  <2>5. QED
    BY <1>5, <2>1, <2>2, <2>3, <2>4 DEF Persist
<1>6. CASE Abort
  <2>1. pc \notin {"export"} \cup Ended /\ pc' \notin {"manifest", "completed"}
    BY <1>6, AbortFrame DEF AbortSteps, Ended
  <2>2. log' = log \/ \E a \in {"AUDIT_CANCELLED", "AUDIT_FAILED"} : log' = log \cup {a}
    <3>1. CASE RecordActivity("close log", AfterAbort,
                              IF summary = "CANCELLED" THEN "AUDIT_CANCELLED"
                                                       ELSE "AUDIT_FAILED")
      BY <3>1 DEF RecordActivity
    <3>2. CASE StartAbort \/ CloseDevice \/ RefreshCounts("close counts", "close status")
      BY <3>2 DEF StartAbort, CloseDevice, RefreshCounts
    <3>3. CASE \/ SetStatus("close status", "close manifest")
               \/ Finalize("close manifest", "close log")
      BY <3>3 DEF SetStatus, Finalize
    <3>4. QED
      BY <1>6, <3>1, <3>2, <3>3 DEF Abort
  <2>3. "AUDIT_COMPLETED" \notin log'
    BY <1>2, <2>1, <2>2
  <2>4. QED
    BY <2>1, <2>3 DEF AgreementInv, CompletedIsNotRelabelled
<1>7. CASE CallFails
  <2>1. /\ log' = log /\ pc \notin Ended
        /\ pc = "export" => pc' = "over"
        /\ pc' \in UndoSteps \cup {"over", "abort", "close log"}
        /\ UNCHANGED <<run, manifest>>
    BY <1>1, <1>7, FailureLeads, FailFrame DEF tree
  <2>2. CompletedIsNotRelabelled'
    BY <1>1, <2>1 DEF AgreementInv, CompletedIsNotRelabelled, Finalized
  <2>3. QED
    BY <1>2, <2>1, <2>2 DEF AgreementInv, Ended, UndoSteps
<1>8. ASSUME NEW t \in Targets, Worker(t)
      PROVE  AgreementInv'
  <2>1. pc = "audit" /\ UNCHANGED <<pc, log>>
    BY <1>8, WorkerFrame
  <2>2. QED
    BY <1>2, <2>1 DEF AgreementInv, CompletedIsNotRelabelled, Ended
<1>9. CASE DeleteRecord \/ DeleteFiles
  <2>1. UNCHANGED <<pc, log, summary>>
    BY <1>9 DEF DeleteRecord, DeleteFiles, NoRecords, Callback
  <2>2. (run' = run /\ manifest' = NoManifest) \/ run' = Absent
    BY <1>9 DEF DeleteRecord, DeleteFiles, NoRecords, NoTree
  <2>3. QED
    BY <1>1, <2>1, <2>2 DEF AgreementInv, CompletedIsNotRelabelled, Finalized, NoManifest
<1>10. CASE FinishScan \/ CancelScan \/ OpenRun \/ Purge \/ DeleteRecordFails
  <2>1. UNCHANGED <<pc, log, summary, run, manifest>>
    BY <1>10 DEF FinishScan, CancelScan, OpenRun, Purge, DeleteRecordFails, Callback, tree
  <2>2. QED
    BY <1>1, <2>1 DEF AgreementInv, CompletedIsNotRelabelled, Finalized
<1>11. CASE Exit
  <2>1. pc' = "exited" /\ UNCHANGED <<run, log, manifest>>
    BY <1>11 DEF Exit, tree
  <2>2. CompletedIsNotRelabelled'
    BY <1>1, <2>1 DEF AgreementInv, CompletedIsNotRelabelled, Finalized
  <2>3. QED
    BY <2>1, <2>2 DEF AgreementInv, Ended
<1>12. CASE UNCHANGED vars
  <2>1. UNCHANGED <<pc, log, summary, run, manifest>>
    BY <1>12 DEF vars, tree
  <2>2. QED
    BY <1>1, <2>1 DEF AgreementInv, CompletedIsNotRelabelled, Finalized
<1>13. QED
  BY <1>3, <1>4, <1>5, <1>6, <1>7, <1>8, <1>9, <1>10, <1>11, <1>12
     DEF Next, Main, Operator, Done

\* Before anything has been removed, a write of begin_run is always possible.
LEMMA BeginIsPossible == IInv /\ pc \in Starting /\ ~removed => Possible
<1> SUFFICES ASSUME IInv, pc \in Starting, ~removed
             PROVE  Possible
  OBVIOUS
<1>1. ~Finalized
  BY DEF IInv, StartInv
<1>2. /\ pc \in {"device", "running", "directory", "draft"} => run # Absent /\ bundle # Absent
  BY DEF IInv, BeginInv, BeginSteps
<1>3. /\ pc \in {"device", "running"} => run # Absent
      /\ pc = "directory" => Writable
      /\ pc = "draft" => bundle # Absent
  BY <1>1, <1>2 DEF Writable
<1>4. QED
  BY <1>3 DEF Possible, Starting, BeginSteps, UndoSteps

LEMMA BeginStep == IInv /\ [Next]_vars => BeginInv'
<1> SUFFICES ASSUME IInv, [Next]_vars
             PROVE  BeginInv'
  OBVIOUS
<1> USE DEF memory, records, tree, window
<1>1. /\ BeginInv /\ TypeOK /\ ControlInv
      /\ faults \in Nat
  BY SizeAssumption DEF IInv, TypeOK, WindowType
<1>2. ASSUME pc' \notin Starting \cup {"over"}, deleting' => removed'
      PROVE  BeginInv'
  BY <1>2 DEF BeginInv, BeginIsAllOrNothing, Starting, BeginSteps, UndoSteps
<1>3. ASSUME pc' \notin Starting, begun' = TRUE, deleting' => removed'
      PROVE  BeginInv'
  BY <1>3 DEF BeginInv, BeginIsAllOrNothing, Starting, BeginSteps, UndoSteps
<1>4. CASE Begin
  <2>1. UNCHANGED <<deleting, removed, faults>> /\ (deleting => removed)
    BY <1>1, <1>4, BeginFrame DEF BeginInv
  <2>2. CASE CreateRecord
    BY <2>1, <2>2 DEF CreateRecord, Step, BeginInv, BeginIsAllOrNothing, BeginSteps, UndoSteps,
       Absent
  <2>3. CASE MakeBundle
    BY <1>1, <2>1, <2>3 DEF MakeBundle, Step, BeginInv, BeginIsAllOrNothing, BeginSteps,
       UndoSteps, Absent
  <2>4. CASE WriteDraft
    BY <1>1, <2>1, <2>4 DEF WriteDraft, Step, BeginInv, BeginIsAllOrNothing, BeginSteps,
       UndoSteps, Absent
  <2>5. CASE AddDevice \/ PrepareDirectory
    <3>1. /\ pc \in BeginSteps \ {"create", "mkdir"}
          /\ pc' \in BeginSteps \ {"create", "mkdir"}
          /\ UNCHANGED <<run, bundle>>
      BY <2>5 DEF AddDevice, PrepareDirectory, Loop, Step, BeginSteps
    <3>2. pc' \notin UndoSteps \cup {"over"}
      BY <3>1 DEF BeginSteps, UndoSteps
    <3>3. QED
      BY <1>1, <2>1, <3>1, <3>2 DEF BeginInv, BeginIsAllOrNothing, UndoSteps
  <2>6. CASE SetRunning
    BY <1>1, <2>1, <2>6 DEF SetRunning, Step, BeginInv, BeginIsAllOrNothing, BeginSteps,
       UndoSteps, Absent
  <2>7. CASE RecordStarted
    <3>1. pc' \notin Starting \cup {"over"}
      BY <2>7 DEF RecordStarted, Starting, BeginSteps, UndoSteps
    <3>2. QED
      BY <1>2, <2>1, <3>1
  <2>8. CASE UndoRecord
    <3>1. /\ pc = "undo record" /\ pc' = "undo files" /\ run' = Absent
      BY <2>8 DEF UndoRecord, NoRecords, Step
    <3>2. faults >= 1 \/ removed
      BY <1>1, <3>1 DEF BeginInv, UndoSteps
    <3>3. pc' \notin BeginSteps \cup {"over"}
      BY <3>1 DEF BeginSteps
    <3>4. QED
      BY <2>1, <3>1, <3>2, <3>3 DEF BeginInv, BeginIsAllOrNothing, BeginSteps
  <2>9. CASE UndoFiles
    <3>1. /\ pc = "undo files" /\ pc' = "over" /\ bundle' = Absent /\ run' = run
      BY <2>9 DEF UndoFiles, NoTree, Step
    <3>2. ~removed => run = Absent
      BY <1>1, <3>1 DEF BeginInv
    <3>3. pc' \notin Starting
      BY <3>1 DEF Starting, BeginSteps, UndoSteps
    <3>4. QED
      BY <2>1, <3>1, <3>2, <3>3 DEF BeginInv, BeginIsAllOrNothing, Starting, BeginSteps
  <2>10. QED
    BY <1>4, <2>2, <2>3, <2>4, <2>5, <2>6, <2>7, <2>8, <2>9 DEF Begin
<1>5. CASE AuditReturns
  <2>1. pc' = "outcome" /\ UNCHANGED <<deleting, removed>>
    BY <1>5 DEF AuditReturns, Step
  <2>2. QED
    BY <1>1, <1>2, <2>1 DEF BeginInv, Starting, BeginSteps, UndoSteps
<1>6. CASE Persist \/ Abort
  <2>1. /\ pc \in Started /\ pc' \in Started \cup Ended
        /\ UNCHANGED <<begun, deleting, removed>>
    BY <1>6, PersistFrame, AbortFrame DEF Started, Ended
  <2>2. QED
    BY <1>1, <1>3, <2>1, Apart DEF BeginInv, ControlInv
<1>7. CASE CallFails
  <2>1. /\ UNCHANGED <<begun, run, bundle, deleting, removed>>
        /\ pc \in Starting \cup Started
        /\ pc' \in UndoSteps \cup {"over", "abort", "close log"}
        /\ pc' \in UndoSteps => pc \in Starting
        /\ pc' = "over" /\ pc \in Starting => pc = "create" \/ pc \in UndoSteps
    BY <1>1, <1>7, FailureLeads, FailFrame DEF TypeOK, WorkerType, Starting, Started
  <2>2. CASE pc \in Started
    <3>1. pc' \notin Starting
      BY <1>1, <1>7, <2>1, <2>2, Apart DEF Starting, BeginSteps, UndoSteps
    <3>2. QED
      BY <1>1, <1>3, <2>1, <2>2, <3>1 DEF BeginInv, ControlInv
  <2>3. CASE pc \in Starting
    <3>1. pc' \in UndoSteps \cup {"over"}
      BY <2>3, <1>7, FailFrame, HandlerLeads
    <3>2. removed \/ faults' = faults + 1
      BY <1>7, <2>3, BeginIsPossible DEF CallFails
    <3>3. removed \/ faults' >= 1
      BY <1>1, <3>2
    <3>4. pc \in UndoSteps => removed \/ faults' > 1
      <4>1. pc \in UndoSteps => removed \/ faults >= 1
        BY <1>1 DEF BeginInv
      <4>2. QED
        BY <1>1, <3>2, <4>1
    <3>5. pc' # "undo files"
      BY <1>7, <2>3, FailFrame DEF Handler, Starting, BeginSteps, UndoSteps, PersistSteps,
         AbortSteps
    <3>6. pc' \notin BeginSteps
      BY <3>1 DEF BeginSteps, UndoSteps
    <3>7. pc = "create" => run = Absent /\ bundle = Absent
      BY <1>1 DEF BeginInv
    <3>8. "over" \notin UndoSteps
      BY DEF UndoSteps
    <3>9. BeginIsAllOrNothing'
      <4>1. ~(faults' > 1 /\ faults' <= 1)
        BY <1>1, <1>7 DEF CallFails
      <4>2. pc' = "over" /\ ~removed' => (run' = Absent /\ bundle' = Absent) \/ faults' > 1
        BY <2>1, <2>3, <3>4, <3>7
      <4>3. QED
        BY <4>1, <4>2 DEF BeginIsAllOrNothing
    <3>10. QED
      BY <1>1, <2>1, <3>1, <3>3, <3>5, <3>6, <3>9 DEF BeginInv, BeginSteps
  <2>4. QED
    BY <2>1, <2>2, <2>3
<1>8. ASSUME NEW t \in Targets, Worker(t)
      PROVE  BeginInv'
  <2>1. pc' = "audit" /\ UNCHANGED <<deleting, removed>>
    BY <1>8, WorkerFrame
  <2>2. QED
    BY <1>1, <1>2, <2>1 DEF BeginInv, Starting, BeginSteps, UndoSteps
<1>9. CASE FinishScan \/ CancelScan \/ OpenRun \/ Purge
  <2>1. UNCHANGED <<pc, begun, run, bundle, deleting, faults>> /\ (removed => removed')
    BY <1>9 DEF FinishScan, CancelScan, OpenRun, Purge, Remove, Callback
  <2>2. QED
    BY <1>1, <2>1 DEF BeginInv, BeginIsAllOrNothing
<1>10. CASE DeleteFiles
  <2>1. removed' = TRUE /\ bundle' = Absent /\ UNCHANGED <<pc, run>>
    BY <1>10 DEF DeleteFiles, Remove, NoTree, Callback
  <2>2. QED
    BY <1>1, <2>1 DEF BeginInv, BeginIsAllOrNothing
<1>11. CASE DeleteRecord
  <2>1. removed /\ removed' = removed /\ run' = Absent /\ UNCHANGED <<pc, bundle>>
    BY <1>1, <1>11 DEF DeleteRecord, NoRecords, Callback, BeginInv
  <2>2. QED
    BY <1>1, <2>1 DEF BeginInv, BeginIsAllOrNothing
<1>12. CASE DeleteRecordFails
  <2>1. removed /\ removed' = removed /\ UNCHANGED <<pc, run, bundle>>
    BY <1>1, <1>12 DEF DeleteRecordFails, Callback, BeginInv
  <2>2. QED
    BY <1>1, <2>1 DEF BeginInv, BeginIsAllOrNothing
<1>13. CASE Exit
  <2>1. pc' = "exited" /\ deleting' = FALSE
    BY <1>13 DEF Exit
  <2>2. QED
    BY <1>2, <2>1 DEF Starting, BeginSteps, UndoSteps
<1>14. CASE UNCHANGED vars
  <2>1. UNCHANGED <<pc, begun, run, bundle, deleting, removed, faults>>
    BY <1>14 DEF vars
  <2>2. QED
    BY <1>1, <2>1 DEF BeginInv, BeginIsAllOrNothing
<1>15. QED
  BY <1>4, <1>5, <1>6, <1>7, <1>8, <1>9, <1>10, <1>11, <1>12, <1>13, <1>14
     DEF Next, Main, Operator, Done

-------------------------------------------------------------------------------
(* The record of a device *)

\* What one step may do to it.
LEMMA DeviceMoves ==
    ASSUME IInv, [Next]_vars, NEW t \in Targets
    PROVE  \/ dev'[t] = dev[t]
           \/ dev'[t] = Absent /\ run' = Absent
           \/ pc \in Starting /\ dev'[t] = "QUEUED"
           \/ pc = "audit" /\ dev[t] # Absent /\ dev'[t] = "COLLECTING"
           \/ pc = "outcome" /\ t = at /\ dev[t] # Absent /\ dev'[t] = outcome[t]
           \/ /\ pc = "close device" /\ dev[t] \notin TerminalStatuses \cup {Absent}
              /\ dev'[t] \in {"CANCELLED", "EVALUATION_FAILED"}
<1> USE DEF memory, records
<1>1. dev \in [Targets -> DeviceStatuses \cup {Absent}] /\ at \in Targets
  BY DeviceTable
<1>2. CASE Begin
  <2>1. CASE AddDevice
    <3>1. pc = "device" /\ dev' = [dev EXCEPT ![at] = "QUEUED"]
      BY <2>1 DEF AddDevice, Step
    <3>2. QED
      BY <1>1, <3>1 DEF Starting, BeginSteps
  <2>2. CASE UndoRecord
    BY <2>2 DEF UndoRecord, NoRecords
  <2>3. CASE ~AddDevice /\ ~UndoRecord
    BY <1>2, <2>3 DEF Begin, CreateRecord, MakeBundle, WriteDraft, PrepareDirectory, SetRunning,
       RecordStarted, UndoFiles
  <2>4. QED
    BY <2>1, <2>2, <2>3
<1>3. CASE AuditReturns \/ CallFails
  BY <1>3, FailFrame DEF AuditReturns
<1>4. CASE Persist
  <2>1. CASE RecordOutcome
    <3>1. pc = "outcome" /\ dev' = [dev EXCEPT ![at] = outcome[at]] /\ dev[at] # Absent
      BY <2>1, PossibleMeans DEF RecordOutcome, Step
    <3>2. QED
      BY <1>1, <3>1
  <2>2. CASE ~RecordOutcome
    BY <1>4, <2>2 DEF Persist, AddResult, LinkEvidence, WriteResults, RefreshCounts, SetStatus,
       Finalize, RecordActivity, Export
  <2>3. QED
    BY <2>1, <2>2
<1>5. CASE Abort
  <2>1. CASE CloseDevice
    <3>1. pc = "close device"
      BY <2>1 DEF CloseDevice, Loop, Step
    <3>2. QED
      BY <1>1, <2>1, <3>1 DEF CloseDevice
  <2>2. CASE ~CloseDevice
    BY <1>5, <2>2 DEF Abort, StartAbort, RefreshCounts, SetStatus, Finalize, RecordActivity
  <2>3. QED
    BY <2>1, <2>2
<1>6. ASSUME NEW u \in Targets, Worker(u)
      PROVE  \/ dev'[t] = dev[t]
             \/ pc = "audit" /\ dev[t] # Absent /\ dev'[t] = "COLLECTING"
  <2>1. CASE SetCollecting(u)
    <3>1. pc = "audit" /\ dev' = [dev EXCEPT ![u] = "COLLECTING"] /\ dev[u] # Absent
      BY <2>1 DEF SetCollecting, SinkStep, SinkPossible
    <3>2. QED
      BY <1>1, <3>1
  <2>2. CASE ~SetCollecting(u)
    BY <1>6, <2>2 DEF Worker, CallSink, Describe, WriteOutput, ListOutput, AddArtifact,
       AddArtifactId, SinkFails, WorkerStops, WorkerJudges, WorkerEnds
  <2>3. QED
    BY <2>1, <2>2
<1>7. CASE DeleteRecord
  BY <1>7 DEF DeleteRecord, NoRecords
<1>8. CASE FinishScan \/ CancelScan \/ OpenRun \/ Purge \/ DeleteFiles \/ DeleteRecordFails \/ Exit
  BY <1>8 DEF FinishScan, CancelScan, OpenRun, Purge, DeleteFiles, DeleteRecordFails, Exit
<1>9. CASE UNCHANGED vars
  BY <1>9 DEF vars
<1>10. QED
  BY <1>2, <1>3, <1>4, <1>5, <1>6, <1>7, <1>8, <1>9 DEF Next, Main, Operator, Done

\* The records of artifacts grow in the sink alone, and go with the run.
LEMMA RowsMove ==
    ASSUME IInv, [Next]_vars
    PROVE  \/ UNCHANGED <<rows, sink, known>>
           \/ \A t \in Targets : dev'[t] = Absent
           \/ \E t \in Targets : Worker(t)
           \/ Exit
<1> USE DEF memory, records
<1>1. CASE Begin
  <2>1. CASE UndoRecord
    BY <2>1 DEF UndoRecord, NoRecords
  <2>2. CASE ~UndoRecord
    BY <1>1, <2>2 DEF Begin, CreateRecord, MakeBundle, WriteDraft, AddDevice, PrepareDirectory,
       SetRunning, RecordStarted, UndoFiles
  <2>3. QED
    BY <2>1, <2>2
<1>2. CASE AuditReturns \/ CallFails \/ Persist \/ Abort
  BY <1>2, FailFrame, PersistFrame, AbortFrame DEF AuditReturns
<1>3. CASE DeleteRecord
  BY <1>3 DEF DeleteRecord, NoRecords
<1>4. CASE FinishScan \/ CancelScan \/ OpenRun \/ Purge \/ DeleteFiles \/ DeleteRecordFails
  BY <1>4 DEF FinishScan, CancelScan, OpenRun, Purge, DeleteFiles, DeleteRecordFails, Callback
<1>5. CASE UNCHANGED vars
  BY <1>5 DEF vars
<1>6. QED
  BY <1>1, <1>2, <1>3, <1>4, <1>5 DEF Next, Main, Operator, Done

LEMMA StoredStep == IInv /\ [Next]_vars => StoredInv'
<1> SUFFICES ASSUME IInv, [Next]_vars, NEW u \in Targets, dev'[u] # Absent
             PROVE  /\ known'[u] \subseteq rows'[u]
                    /\ sink'[u] = "id" => Command(u)' \in rows'[u]
                    /\ dev'[u] = "COMPLETE" => rows'[u] = Commands
  BY DEF StoredInv
<1>1. /\ rows \in [Targets -> SUBSET Commands]
      /\ known \in [Targets -> SUBSET Commands]
      /\ sink \in [Targets -> {"collect", "stored"} \cup ContextLock]
  BY DEF IInv, TypeOK, WorkerType, DatabaseType
<1>2. dev[u] # Absent =>
        /\ known[u] \subseteq rows[u]
        /\ sink[u] = "id" => Command(u) \in rows[u]
        /\ dev[u] = "COMPLETE" => rows[u] = Commands
  BY DEF IInv, StoredInv
<1>3. pc \in Starting => known[u] = {} /\ sink[u] = "collect"
  BY DEF IInv, StartInv
<1>4. outcome[u] = "COMPLETE" => known[u] = Commands
  BY DEF IInv, SinkInv
<1>5. CASE UNCHANGED <<rows, sink, known>>
  <2>1. Command(u)' = Command(u)
    BY <1>5 DEF Command
  <2>2. CASE dev[u] # Absent
    <3>1. dev'[u] = "COMPLETE" => dev[u] = "COMPLETE" \/ outcome[u] = "COMPLETE"
      BY DeviceMoves DEF Absent
    <3>2. rows[u] \subseteq Commands
      BY <1>1
    <3>3. QED
      BY <1>2, <1>4, <1>5, <2>1, <2>2, <3>1, <3>2
  <2>3. CASE dev[u] = Absent
    <3>1. pc \in Starting /\ dev'[u] = "QUEUED"
      BY <2>3, DeviceMoves
    <3>2. QED
      BY <1>3, <1>5, <3>1
  <2>4. QED
    BY <2>2, <2>3
<1>6. ASSUME NEW t \in Targets, Worker(t)
      PROVE  /\ known'[u] \subseteq rows'[u]
             /\ sink'[u] = "id" => Command(u)' \in rows'[u]
             /\ dev'[u] = "COMPLETE" => rows'[u] = Commands
  <2>1. pc = "audit"
    BY <1>6, WorkerFrame
  <2>2. dev[u] # Absent /\ dev[u] # "COMPLETE" /\ dev'[u] # "COMPLETE"
    <3>1. dev[u] \notin TerminalStatuses
      BY <2>1 DEF IInv, OutcomeInv
    <3>2. "audit" \notin Starting
      BY Apart DEF Started
    <3>3. dev'[u] \in {dev[u], "COLLECTING"} /\ (dev'[u] # dev[u] => dev[u] # Absent)
      BY <2>1, <3>2, DeviceMoves
    <3>4. QED
      BY <3>1, <3>3 DEF TerminalStatuses
  <2>3. CASE AddArtifact(t)
    <3>1. /\ sink[t] = "row" /\ sink' = [sink EXCEPT ![t] = "id"] /\ known' = known
          /\ rows' = [rows EXCEPT ![t] = @ \cup {Command(t)}]
      BY <2>3 DEF AddArtifact, SinkStep
    <3>2. Command(u)' = Command(u)
      BY <3>1 DEF Command
    <3>3. CASE u = t
      BY <1>1, <1>2, <2>2, <3>1, <3>2, <3>3
    <3>4. CASE u # t
      BY <1>1, <1>2, <2>2, <3>1, <3>2, <3>4
    <3>5. QED
      BY <3>3, <3>4
  <2>4. CASE AddArtifactId(t)
    <3>1. /\ sink[t] = "id" /\ rows' = rows
          /\ sink' = [sink EXCEPT ![t] = IF Command(t) < NCommands THEN "file" ELSE "stored"]
          /\ known' = [known EXCEPT ![t] = @ \cup {Command(t)}]
      BY <2>4 DEF AddArtifactId, SinkStep
    <3>2. CASE u = t
      <4>1. sink'[u] # "id" /\ known'[u] = known[u] \cup {Command(u)}
        BY <1>1, <3>1, <3>2
      <4>2. QED
        BY <1>2, <2>2, <3>1, <3>2, <4>1
    <3>3. CASE u # t
      <4>1. sink'[u] = sink[u] /\ known'[u] = known[u]
        BY <1>1, <3>1, <3>3
      <4>2. Command(u)' = Command(u)
        BY <4>1 DEF Command
      <4>3. QED
        BY <1>2, <2>2, <3>1, <4>1, <4>2
    <3>4. QED
      BY <3>2, <3>3
  <2>5. CASE ~AddArtifact(t) /\ ~AddArtifactId(t)
    <3>1. UNCHANGED <<rows, known>>
      BY <1>6, <2>5 DEF Worker, CallSink, SetCollecting, Describe, WriteOutput, ListOutput,
         SinkFails, WorkerStops, WorkerJudges, WorkerEnds, SinkStep, records
    <3>2. sink'[u] = "id" => sink[u] = "id"
      BY <1>1, <1>6, <2>5 DEF Worker, CallSink, SetCollecting, Describe, WriteOutput, ListOutput,
         SinkFails, WorkerStops, WorkerJudges, SinkStep
    <3>3. Command(u)' = Command(u)
      BY <3>1 DEF Command
    <3>4. QED
      BY <1>2, <2>2, <3>1, <3>2, <3>3
  <2>6. QED
    BY <2>3, <2>4, <2>5
<1>7. CASE Exit
  <2>1. known'[u] = {} /\ sink'[u] = "collect" /\ UNCHANGED <<dev, rows>>
    BY <1>7 DEF Exit, records
  <2>2. QED
    BY <1>2, <2>1
<1>8. QED
  BY <1>5, <1>6, <1>7, RowsMove

-------------------------------------------------------------------------------
(* The links of a result *)

\* Results and links grow in persist_result, one device at a time.
LEMMA LinksMove ==
    ASSUME IInv, [Next]_vars
    PROVE  \/ UNCHANGED <<result, links>>
           \/ \A t \in Targets : dev'[t] = Absent
           \/ pc = "result" /\ result' = result \cup {at} /\ UNCHANGED links
           \/ pc = "link" /\ links' = [links EXCEPT ![at] = known[at]] /\ UNCHANGED result
<1> USE DEF memory, records
<1>1. CASE Begin
  <2>1. CASE UndoRecord
    BY <2>1 DEF UndoRecord, NoRecords
  <2>2. CASE ~UndoRecord
    BY <1>1, <2>2 DEF Begin, CreateRecord, MakeBundle, WriteDraft, AddDevice, PrepareDirectory,
       SetRunning, RecordStarted, UndoFiles
  <2>3. QED
    BY <2>1, <2>2
<1>2. CASE Persist
  <2>1. CASE AddResult \/ LinkEvidence
    BY <2>1 DEF AddResult, LinkEvidence, Step
  <2>2. CASE ~AddResult /\ ~LinkEvidence
    BY <1>2, <2>2 DEF Persist, RecordOutcome, WriteResults, RefreshCounts, SetStatus,
       Finalize, RecordActivity, Export
  <2>3. QED
    BY <2>1, <2>2
<1>3. CASE AuditReturns \/ CallFails \/ Abort
  BY <1>3, FailFrame, AbortFrame DEF AuditReturns
<1>4. ASSUME NEW t \in Targets, Worker(t)
      PROVE  UNCHANGED <<result, links>>
  BY <1>4, WorkerFrame
<1>5. CASE DeleteRecord
  BY <1>5 DEF DeleteRecord, NoRecords
<1>6. CASE FinishScan \/ CancelScan \/ OpenRun \/ Purge \/ DeleteFiles \/ DeleteRecordFails \/ Exit
  BY <1>6 DEF FinishScan, CancelScan, OpenRun, Purge, DeleteFiles, DeleteRecordFails, Exit
<1>7. CASE UNCHANGED vars
  BY <1>7 DEF vars
<1>8. QED
  BY <1>1, <1>2, <1>3, <1>4, <1>5, <1>6, <1>7 DEF Next, Main, Operator, Done

\* A device that is linked stays so, until its next outcome.
LEMMA LinkedStays ==
    ASSUME IInv, [Next]_vars, NEW t \in Targets, Linked(t), ~(pc = "outcome" /\ t = at)
    PROVE  Linked(t)'
<1> SUFFICES ASSUME dev'[t] = "COMPLETE"
             PROVE  t \in result' /\ links'[t] = Commands
  BY DEF Linked
<1>1. dev[t] = "COMPLETE"
  BY DeviceMoves DEF Absent
<1>2. t \in result /\ links[t] = Commands
  BY <1>1 DEF Linked
<1>3. at \in Targets /\ links \in [Targets -> SUBSET Commands]
  BY DEF IInv, TypeOK, WorkerType, DatabaseType
<1>4. pc = "link" /\ t = at => known[at] = Commands
  <2>1. pc = "link" => dev[at] \in {outcome[at], Absent}
    BY DEF IInv, LinkInv
  <2>2. outcome[at] = "COMPLETE" => known[at] = Commands
    BY <1>3 DEF IInv, SinkInv
  <2>3. QED
    BY <1>1, <2>1, <2>2 DEF Absent
<1>5. dev'[t] # Absent
  BY DEF Absent
<1>6. QED
  BY <1>2, <1>3, <1>4, <1>5, LinksMove

\* A run becomes complete by its summary alone.
LEMMA RunMoves ==
    ASSUME IInv, [Next]_vars, run' \in {"COMPLETE", "PARTIAL"}
    PROVE  run' = run \/ pc = "status"
<1> USE DEF memory, records
<1>1. CASE Begin
  BY <1>1 DEF Begin, CreateRecord, MakeBundle, WriteDraft, AddDevice, PrepareDirectory, SetRunning,
     RecordStarted, UndoRecord, UndoFiles, NoRecords, Absent
<1>2. CASE Persist
  BY <1>2 DEF Persist, RecordOutcome, AddResult, LinkEvidence, WriteResults, RefreshCounts,
     SetStatus, Finalize, RecordActivity, Export, Step
<1>3. CASE Abort
  <2>1. pc \in AbortSteps => summary \in {"CANCELLED", "FAILED"}
    BY DEF IInv, ControlInv
  <2>2. CASE SetStatus("close status", "close manifest")
    BY <2>1, <2>2 DEF SetStatus, Step, AbortSteps
  <2>3. CASE ~SetStatus("close status", "close manifest")
    BY <1>3, <2>3 DEF Abort, StartAbort, CloseDevice, RefreshCounts, Finalize, RecordActivity
  <2>4. QED
    BY <2>2, <2>3
<1>4. CASE AuditReturns \/ CallFails
  BY <1>4, FailFrame DEF AuditReturns
<1>5. ASSUME NEW t \in Targets, Worker(t)
      PROVE  run' = run
  BY <1>5, WorkerFrame
<1>6. CASE DeleteRecord
  BY <1>6 DEF DeleteRecord, NoRecords, Absent
<1>7. CASE FinishScan \/ CancelScan \/ OpenRun \/ Purge \/ DeleteFiles \/ DeleteRecordFails \/ Exit
  BY <1>7 DEF FinishScan, CancelScan, OpenRun, Purge, DeleteFiles, DeleteRecordFails, Exit
<1>8. CASE UNCHANGED vars
  BY <1>8 DEF vars
<1>9. QED
  BY <1>1, <1>2, <1>3, <1>4, <1>5, <1>6, <1>7, <1>8 DEF Next, Main, Operator, Done

LEMMA LinkStep == IInv /\ [Next]_vars => LinkInv'
<1> SUFFICES ASSUME IInv, [Next]_vars
             PROVE  LinkInv'
  OBVIOUS
<1> USE DEF memory, records
<1> DEFINE Linking == {"outcome", "result", "link", "results", "counts", "status"}
<1>0. LinkInv
  BY DEF IInv
<1>1. /\ at \in 1..NTargets /\ NTargets \in Nat /\ Targets = 1..NTargets
      /\ dev \in [Targets -> DeviceStatuses \cup {Absent}]
  BY DeviceTable
<1>2. run' \in {"COMPLETE", "PARTIAL"} => \A t \in Targets : Linked(t)'
  <2>1. SUFFICES ASSUME run' \in {"COMPLETE", "PARTIAL"}
                 PROVE  \A t \in Targets : Linked(t)'
    OBVIOUS
  <2>2. pc # "outcome" /\ \A t \in Targets : Linked(t)
    <3>1. CASE run' = run
      <4>1. run \in Final
        BY <2>1, <3>1 DEF Final, FinalRunStatuses
      <4>2. pc \notin Unfinished
        BY <4>1 DEF IInv, ClosingInv
      <4>3. QED
        BY <1>0, <2>1, <3>1, <4>2 DEF LinkInv, Unfinished
    <3>2. CASE pc = "status"
      BY <1>0, <3>2 DEF LinkInv
    <3>3. QED
      BY <2>1, <3>1, <3>2, RunMoves
  <2>3. QED
    BY <2>2, LinkedStays
<1>3. ASSUME pc' \notin Linking
      PROVE  LinkInv'
  BY <1>2, <1>3 DEF LinkInv
<1>4. CASE Begin
  <2>1. pc' \notin Linking
    BY <1>4, BeginFrame DEF Starting, BeginSteps, UndoSteps
  <2>2. QED
    BY <1>3, <2>1
<1>5. CASE AuditReturns
  <2>1. pc' = "outcome" /\ at' = 1
    BY <1>5 DEF AuditReturns, Step, IInv, OutcomeInv
  <2>2. \A t \in Targets : ~(t < at')
    <3>1. \A t \in Targets : ~(t < 1)
      BY <1>1
    <3>2. QED
      BY <2>1, <3>1
  <2>3. QED
    BY <1>2, <2>1, <2>2 DEF LinkInv
<1>6. CASE Persist
  <2>1. CASE RecordOutcome
    <3>1. /\ pc = "outcome" /\ UNCHANGED <<at, outcome, kind>>
          /\ pc' = IF HasResult(at) THEN "result" ELSE "results"
          /\ dev' = [dev EXCEPT ![at] = outcome[at]]
      BY <2>1 DEF RecordOutcome, Step
    <3>2. dev'[at] = outcome[at]
      BY <1>1, <3>1
    <3>3. \A t \in Targets : t < at => Linked(t)'
      <4>1. \A t \in Targets : t < at => t # at
        BY <1>1
      <4>2. QED
        BY <1>0, <3>1, <4>1, LinkedStays DEF LinkInv
    <3>4. pc' = "results" => Linked(at)'
      BY <3>1, <3>2 DEF Linked, HasResult
    <3>5. \A t \in Targets : t <= at => t < at \/ t = at
      BY <1>1
    <3>6. pc' \in {"result", "results"}
      BY <3>1
    <3>7. QED
      BY <1>2, <3>1, <3>2, <3>3, <3>4, <3>5, <3>6 DEF LinkInv
  <2>2. CASE AddResult
    <3>1. /\ pc = "result" /\ UNCHANGED <<at, outcome, dev, links>> /\ result' = result \cup {at}
          /\ pc' = IF known[at] # {} THEN "link" ELSE "results"
      BY <2>2 DEF AddResult, Step
    <3>2. \A t \in Targets : t < at => Linked(t)'
      BY <1>0, <3>1, LinkedStays DEF LinkInv
    <3>3. dev[at] \in {outcome[at], Absent}
      BY <1>0, <3>1 DEF LinkInv
    <3>4. pc' = "results" => Linked(at)'
      <4>1. outcome[at] = "COMPLETE" => known[at] = Commands
        BY <1>1 DEF IInv, SinkInv
      <4>2. Commands # {}
        BY SizeAssumption DEF Commands
      <4>3. QED
        BY <3>1, <3>3, <4>1, <4>2 DEF Linked, Absent
    <3>5. \A t \in Targets : t <= at => t < at \/ t = at
      BY <1>1
    <3>6. pc' \in {"link", "results"} /\ at \in result'
      BY <3>1
    <3>7. QED
      BY <1>2, <3>1, <3>2, <3>3, <3>4, <3>5, <3>6 DEF LinkInv
  <2>3. CASE LinkEvidence
    <3>1. /\ pc = "link" /\ pc' = "results" /\ UNCHANGED <<at, outcome, dev, result, run>>
          /\ links' = [links EXCEPT ![at] = known[at]]
      BY <2>3 DEF LinkEvidence, Step
    <3>2. \A t \in Targets : t < at => Linked(t)'
      BY <1>0, <3>1, LinkedStays DEF LinkInv
    <3>3. Linked(at)'
      <4>1. dev[at] \in {outcome[at], Absent} /\ dev[at] # Absent
        BY <1>0, <2>3, <3>1, PossibleMeans DEF LinkInv, LinkEvidence, Step
      <4>2. at \in result
        <5>1. run # Absent
          BY <1>1, <4>1 DEF IInv, RecordInv, Recorded
        <5>2. QED
          BY <1>0, <3>1, <5>1 DEF LinkInv, Recorded
      <4>3. outcome[at] = "COMPLETE" => known[at] = Commands
        BY <1>1 DEF IInv, SinkInv
      <4>4. links'[at] = known[at]
        BY <1>1, <3>1 DEF IInv, TypeOK, DatabaseType
      <4>5. QED
        BY <3>1, <4>1, <4>2, <4>3, <4>4 DEF Linked
    <3>4. \A t \in Targets : t <= at => t < at \/ t = at
      BY <1>1
    <3>5. QED
      BY <1>2, <3>1, <3>2, <3>3, <3>4 DEF LinkInv
  <2>4. CASE WriteResults
    <3>1. /\ pc = "results"
          /\ \/ at < NTargets /\ pc' = "outcome" /\ at' = at + 1
             \/ at = NTargets /\ pc' = "counts"
      BY <2>4, NextRound DEF WriteResults
    <3>2. \A t \in Targets : t <= at => Linked(t)'
      BY <1>0, <3>1, LinkedStays DEF LinkInv
    <3>3. CASE pc' = "outcome" /\ at' = at + 1
      <4>1. \A t \in Targets : t < at + 1 => t <= at
        BY <1>1
      <4>2. QED
        BY <1>2, <3>2, <3>3, <4>1 DEF LinkInv
    <3>4. CASE at = NTargets /\ pc' = "counts"
      <4>1. \A t \in Targets : t <= at
        BY <1>1, <3>4
      <4>2. QED
        BY <1>2, <3>2, <3>4, <4>1 DEF LinkInv
    <3>5. QED
      BY <3>1, <3>3, <3>4
  <2>5. CASE RefreshCounts("counts", "status")
    <3>1. pc = "counts" /\ pc' = "status"
      BY <2>5 DEF RefreshCounts, Step
    <3>2. QED
      BY <1>0, <1>2, <3>1, LinkedStays DEF LinkInv
  <2>6. CASE \/ SetStatus("status", "manifest") \/ Finalize("manifest", "completed")
             \/ RecordActivity("completed", IF Checklist THEN "export" ELSE "over",
                               "AUDIT_COMPLETED")
             \/ Export
    <3>1. pc' \in {"manifest", "completed", "export", "over"}
      BY <2>6 DEF SetStatus, Finalize, RecordActivity, Export, Step
    <3>2. QED
      BY <1>3, <3>1
  <2>7. QED
    BY <1>6, <2>1, <2>2, <2>3, <2>4, <2>5, <2>6 DEF Persist
<1>7. CASE Abort
  <2>1. pc' \notin Linking
    BY <1>7, AbortFrame DEF AbortSteps
  <2>2. QED
    BY <1>3, <2>1
<1>8. CASE CallFails
  <2>1. pc' \in UndoSteps \cup {"over", "abort", "close log"}
    BY <1>8, FailureLeads DEF IInv
  <2>2. QED
    BY <1>3, <2>1 DEF UndoSteps
<1>9. ASSUME NEW t \in Targets, Worker(t)
      PROVE  LinkInv'
  BY <1>3, <1>9, WorkerFrame
<1>10. CASE DeleteRecord
  <2>1. run' = Absent /\ dev' = [t \in Targets |-> Absent] /\ UNCHANGED <<pc, at>>
    BY <1>10 DEF DeleteRecord, NoRecords, Callback
  <2>2. dev'[at'] = Absent /\ \A t \in Targets : Linked(t)'
    BY <1>1, <2>1 DEF Linked, Absent
  <2>3. QED
    BY <1>2, <2>1, <2>2 DEF LinkInv, Recorded
<1>11. CASE FinishScan \/ CancelScan \/ OpenRun \/ Purge \/ DeleteFiles \/ DeleteRecordFails
  <2>1. UNCHANGED <<pc, at, outcome, run, dev, result, links>>
    BY <1>11 DEF FinishScan, CancelScan, OpenRun, Purge, DeleteFiles, DeleteRecordFails, Callback
  <2>2. QED
    BY <1>0, <2>1 DEF LinkInv, Linked, Recorded
<1>12. CASE Exit
  <2>1. pc' = "exited"
    BY <1>12 DEF Exit
  <2>2. QED
    BY <1>3, <2>1
<1>13. CASE UNCHANGED vars
  <2>1. UNCHANGED <<pc, at, outcome, run, dev, result, links>>
    BY <1>13 DEF vars
  <2>2. QED
    BY <1>0, <2>1 DEF LinkInv, Linked, Recorded
<1>14. QED
  BY <1>4, <1>5, <1>6, <1>7, <1>8, <1>9, <1>10, <1>11, <1>12, <1>13
     DEF Next, Main, Operator, Done

-------------------------------------------------------------------------------
(* The theorems *)

\* Every step, and so every behaviour, keeps the inductive invariant.
LEMMA StepIInv == IInv /\ [Next]_vars => IInv'
BY TypeStep, ControlStep, StartStep, SinkInvStep, EvidenceStep, ManifestStep, OutcomeStep,
   RecordStep, ClosingStep, StoredStep, LinkStep, AgreementStep, BeginStep DEF IInv

\* The inductive invariant of a run over its two stores holds throughout,
\* whatever calls fail and whatever the operator does.
THEOREM Invariance == Spec => []IInv
BY InitIInv, StepIInv, PTL DEF Spec

\* The worker, both stores and the window keep their types, whatever fails.
THEOREM TypeCorrect == Spec => []TypeOK
<1>1. IInv => TypeOK
  BY DEF IInv
<1>2. QED
  BY Invariance, <1>1, PTL

\* At every instant, also after a failed call or the end of the process, an
\* artifact record points to a listed artifact and a listed artifact to a file,
\* until the operator removes files: write_evidence writes in that order under
\* the lock of the store.
THEOREM EvidenceIsBackedAlways == Spec => []EvidenceIsBacked
<1>1. IInv => EvidenceIsBacked
  BY DEF IInv, EvidenceInv, EvidenceIsBacked
<1>2. QED
  BY Invariance, <1>1, PTL

\* Every artifact record of a run is in the list of its manifest, once there is
\* a manifest: finalize_run is called when no sink can write any more.
THEOREM HistoryIsVerifiableAlways == Spec => []HistoryIsVerifiable
<1>1. IInv => HistoryIsVerifiable
  BY DEF IInv, EvidenceInv, ManifestInv, HistoryIsVerifiable
<1>2. QED
  BY Invariance, <1>1, PTL

\* Devices with a terminal status are evaluated, failed or cancelled, each once.
LEMMA TerminalCount ==
    ASSUME NEW d, DOMAIN d = Targets, \A t \in Targets : d[t] \in TerminalStatuses
    PROVE  /\ CountsOf(d).device = NTargets
           /\ CountsOf(d).success + CountsOf(d).failure + CountsOf(d).cancelled = NTargets
<1> DEFINE S == WithStatus(d, {"COMPLETE"})
           F == WithStatus(d, FailureStatuses)
           C == WithStatus(d, {"CANCELLED"})
<1>1. S \in SUBSET Targets /\ F \in SUBSET Targets /\ C \in SUBSET Targets
  BY DEF WithStatus
<1>2. S \cup F \cup C = Targets
  BY DEF WithStatus, TerminalStatuses
<1>3. S \cap F = {} /\ (S \cup F) \cap C = {}
  BY DEF WithStatus, FailureStatuses
<1>4. /\ IsFiniteSet(S) /\ IsFiniteSet(F) /\ IsFiniteSet(C) /\ IsFiniteSet(S \cup F)
      /\ Cardinality(S) \in Nat /\ Cardinality(F) \in Nat /\ Cardinality(C) \in Nat
      /\ Cardinality(S \cup F) \in Nat
  BY <1>1, DeviceSets, FS_CardinalityType
<1>5. Cardinality(Targets) = NTargets
  <2>1. NTargets \in Int /\ 1 \in Int /\ ~(1 > NTargets) /\ NTargets - 1 + 1 = NTargets
    BY SizeAssumption
  <2>2. QED
    BY <2>1, FS_Interval DEF Targets
<1>6. Cardinality({}) = 0
  BY FS_EmptySet
<1>7. Cardinality(S \cup F) = Cardinality(S) + Cardinality(F)
  <2>1. Cardinality(S \cup F) = Cardinality(S) + Cardinality(F) - Cardinality(S \cap F)
    BY <1>4, FS_Union
  <2>2. Cardinality(S \cap F) = 0
    BY <1>3, <1>6
  <2> HIDE DEF S, F
  <2>3. QED
    BY <1>4, <2>1, <2>2
<1>8. Cardinality(S \cup F \cup C) = Cardinality(S \cup F) + Cardinality(C)
  <2>1. Cardinality(S \cup F \cup C)
          = Cardinality(S \cup F) + Cardinality(C) - Cardinality((S \cup F) \cap C)
    BY <1>4, FS_Union
  <2>2. Cardinality((S \cup F) \cap C) = 0
    BY <1>3, <1>6
  <2> HIDE DEF S, F, C
  <2>3. QED
    BY <1>4, <2>1, <2>2
<1>9. Cardinality(S) + Cardinality(F) + Cardinality(C) = NTargets
  BY <1>2, <1>5, <1>7, <1>8
<1>10. {t \in Targets : d[t] # Absent} = Targets
  BY NoOutcomes
<1>11. /\ CountsOf(d).device = Cardinality({t \in Targets : d[t] # Absent})
       /\ CountsOf(d).success = Cardinality(S)
       /\ CountsOf(d).failure = Cardinality(F)
       /\ CountsOf(d).cancelled = Cardinality(C)
  BY DEF CountsOf
<1>12. QED
  BY <1>5, <1>9, <1>10, <1>11

\* A run with a final status has no open device and counts that add up, on the
\* path of persist_result and on that of abort_run.
THEOREM ClosedRunIsSettledAlways == Spec => []ClosedRunIsSettled
<1>1. IInv => ClosedRunIsSettled
  <2> SUFFICES ASSUME IInv, run \in Final
               PROVE  ClosedRunIsSettled
    BY DEF ClosedRunIsSettled
  <2>1. counts = CountsOf(dev) /\ \A t \in Targets : dev[t] \in TerminalStatuses
    BY DEF IInv, ClosingInv
  <2>2. DOMAIN dev = Targets
    BY DEF IInv, TypeOK, DatabaseType
  <2>3. CountsOf(dev).success = Cardinality(WithStatus(dev, {"COMPLETE"}))
    BY DEF CountsOf
  <2>4. QED
    BY <2>1, <2>2, <2>3, TerminalCount DEF ClosedRunIsSettled
<1>2. QED
  BY Invariance, <1>1, PTL

\* begin_run that fails once leaves neither a record nor a bundle.
THEOREM BeginIsAllOrNothingAlways == Spec => []BeginIsAllOrNothing
<1>1. IInv => BeginIsAllOrNothing
  BY DEF IInv, BeginInv
<1>2. QED
  BY Invariance, <1>1, PTL

\* A device recorded as evaluated has all its outputs on record, and in a run
\* that went through its result is linked to all of them.
THEOREM CompleteIsTraceableAlways == Spec => []CompleteIsTraceable
<1>1. IInv => CompleteIsTraceable
  <2> SUFFICES ASSUME IInv, NEW t \in Targets, dev[t] = "COMPLETE"
               PROVE  /\ rows[t] = Commands
                      /\ run \in {"COMPLETE", "PARTIAL"} => t \in result /\ links[t] = Commands
    BY DEF CompleteIsTraceable
  <2>1. rows[t] = Commands
    BY DEF IInv, StoredInv, Absent
  <2>2. QED
    BY <2>1 DEF IInv, LinkInv, Linked
<1>2. QED
  BY Invariance, <1>1, PTL

\* Once AUDIT_COMPLETED is on record the database and the manifest agree on the
\* status of the run: nothing that fails later relabels it.
THEOREM CompletedIsNotRelabelledAlways == Spec => []CompletedIsNotRelabelled
<1>1. IInv => CompletedIsNotRelabelled
  BY DEF IInv, AgreementInv, CompletedIsNotRelabelled
<1>2. QED
  BY Invariance, <1>1, PTL

\* A recorded outcome is not replaced, by abort_run least of all.
THEOREM OutcomesStayAlways == Spec => OutcomesStay
<1>1. IInv /\ [Next]_vars =>
        [\A t \in Targets : dev[t] \in TerminalStatuses => dev'[t] \in {dev[t], Absent}]_vars
  <2> SUFFICES ASSUME IInv, [Next]_vars, NEW t \in Targets, dev[t] \in TerminalStatuses
               PROVE  dev'[t] \in {dev[t], Absent}
    OBVIOUS
  <2>1. pc \notin Starting
    BY NoOutcomes DEF IInv, StartInv
  <2>2. pc # "audit"
    BY DEF IInv, OutcomeInv
  <2>3. ~(pc = "outcome" /\ t = at)
    <3>1. at \in Int /\ ~(at < at)
      BY DeviceTable
    <3>2. QED
      BY <3>1 DEF IInv, OutcomeInv
  <2>4. QED
    BY <2>1, <2>2, <2>3, DeviceMoves
<1>2. QED
  BY Invariance, <1>1, PTL DEF Spec, OutcomesStay

\* After the manifest the bundle can only lose raw outputs or go: every write
\* of _writable_run looks for it, and the sinks are past their last write.
THEOREM BundleIsFrozenAlways == Spec => BundleIsFrozen
<1>1. ASSUME IInv, [Next]_vars, Finalized
      PROVE  bundle' = Absent \/ UNCHANGED <<owner, listed, resultsFile, manifest>>
  <2> USE DEF tree
  <2>1. pc \notin Starting \cup {"audit"}
    BY <1>1 DEF IInv, ManifestInv
  <2>2. ~Writable
    BY <1>1 DEF Writable
  <2>3. CASE Persist
    <3>1. UNCHANGED manifest
      BY <2>2, <2>3, WritesManifest
    <3>2. ~WriteResults
      BY <2>2, PossibleMeans DEF WriteResults, Loop, Step
    <3>3. UNCHANGED resultsFile
      BY <2>3, <3>2 DEF Persist, RecordOutcome, AddResult, LinkEvidence, RefreshCounts,
         SetStatus, Finalize, RecordActivity, Export
    <3>4. QED
      BY <2>3, <3>1, <3>3, PersistFrame
  <2>4. CASE Abort
    BY <2>2, <2>4, WritesManifest, AbortFrame
  <2>5. CASE CallFails
    BY <2>5, FailFrame
  <2>6. ~Begin /\ ~AuditReturns /\ \A t \in Targets : ~Worker(t)
    BY <2>1, BeginFrame, WorkerFrame DEF AuditReturns, Step
  <2>7. CASE DeleteFiles
    BY <2>7 DEF DeleteFiles, NoTree
  <2>8. CASE FinishScan \/ CancelScan \/ OpenRun \/ Purge \/ DeleteRecord \/ DeleteRecordFails
             \/ Exit
    BY <2>8 DEF FinishScan, CancelScan, OpenRun, Purge, DeleteRecord, DeleteRecordFails, Exit
  <2>9. CASE UNCHANGED vars
    BY <2>9 DEF vars
  <2>10. QED
    BY <1>1, <2>3, <2>4, <2>5, <2>6, <2>7, <2>8, <2>9 DEF Next, Main, Operator, Done
<1>2. IInv /\ [Next]_vars =>
        [Finalized => bundle' = Absent \/ UNCHANGED <<owner, listed, resultsFile, manifest>>]_vars
  BY <1>1
<1>3. QED
  BY Invariance, <1>2, PTL DEF Spec, BundleIsFrozen

===============================================================================
