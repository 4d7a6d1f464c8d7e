----------------------------- MODULE BasicAppProofs -----------------------------
(***************************************************************************)
(* Theorems about BasicApp, for any finite set of devices, any number of   *)
(* reports per device and any number of runs.                              *)
(***************************************************************************)
EXTENDS BasicApp, FiniteSetTheorems, SequenceTheorems, TLAPS

-------------------------------------------------------------------------------
(* The inductive invariant *)

Working == {"validate", "collect", "revalidate", "save"}
Results == {"COMPLETED", "PARTIAL", "FAILED", "CANCELLED"}
Events  == [run : Runs, state : Results, files : Nat, hasSummary : BOOLEAN]

\* Types of the state of the window, of its worker and of the history.
TypeOK ==
    /\ started \in 0..MaxRuns
    /\ worker \in Working \cup {"none", "exiting", "dead"}
    /\ tally \in [complete : Nat, failed : Nat, cancelled : Nat]
    /\ written \in Nat
    /\ cancel \in BOOLEAN /\ licensed \in BOOLEAN /\ closed \in BOOLEAN
    /\ permitted \in BOOLEAN
    /\ queue \in Seq(Events)
    /\ gui \in {"idle", "drain", "look", "lookAtQueue"}
    /\ polls \in Nat
    /\ card \in [run : 0..MaxRuns, state : Results \cup {"READY", "RUNNING"}, files : Nat]
    /\ summaryRun \in 0..MaxRuns
    /\ onDisk \in [Runs -> Nat]
    /\ applied \subseteq Runs

\* What the worker has done so far in the current run.
RunInv ==
    /\ worker = "none" <=> started = 0
    /\ started > 0 => written = onDisk[started]
    /\ \A r \in Runs : r > started => onDisk[r] = 0
    /\ worker \in {"validate", "collect", "revalidate"} => written = 0
    /\ worker \in {"revalidate", "save"} =>
          tally.complete + tally.failed + tally.cancelled = Cardinality(Devices)

\* Files are written under a license seen after the collection.
LicenseInv ==
    /\ worker = "save" \/ written > 0 => permitted
    /\ worker = "revalidate" /\ licensed => permitted

\* The window goes only after the worker; poll asks for the queue last.
GuiInv ==
    /\ closed => ~Alive /\ gui = "idle"
    /\ gui = "lookAtQueue" => ~Alive

\* Runs whose files are final.
Concluded(r) == r \in 1..started /\ (r = started => worker \notin Working)

\* A result that says what the disk holds.
Honest(e) ==
    /\ e.files = onDisk[e.run]
    /\ e.state = "COMPLETED" => onDisk[e.run] = Cardinality(Devices) * FilesPerDevice
    /\ e.state = "PARTIAL" => onDisk[e.run] > 0
    /\ e.state \in {"FAILED", "CANCELLED"} => onDisk[e.run] = 0

\* Only results of concluded runs are on their way or shown.
ReportInv ==
    /\ \A k \in DOMAIN queue : Concluded(queue[k].run) /\ Honest(queue[k])
    /\ card.state \in Results => Concluded(card.run) /\ Honest(card)
    /\ summaryRun \in {0} \cup applied

\* Every concluded run was shown or its event waits, and while one waits or can
\* still come, a poll is due or running.
NoCompletionIsLost ==
    /\ \A r \in 1..started :
          Concluded(r) => r \in applied \/ \E k \in DOMAIN queue : queue[k].run = r
    /\ ~closed /\ (Alive \/ queue # <<>>) => polls > 0 \/ gui # "idle"

IInv == TypeOK /\ RunInv /\ LicenseInv /\ GuiInv /\ ReportInv /\ NoCompletionIsLost

-------------------------------------------------------------------------------
(* What the worker does, in two kinds of steps *)

\* It goes on to its next stage.
Proceeds ==
    /\ worker \in Working /\ UNCHANGED <<started, cancel, licensed, queue, guiState>>
    /\ \/ /\ worker = "validate" /\ worker' = "collect"
          /\ UNCHANGED <<tally, written, onDisk, permitted>>
       \/ /\ worker = "collect" /\ worker' = "revalidate" /\ permitted' = licensed
          /\ tally' \in [complete : Nat, failed : Nat, cancelled : Nat]
          /\ tally'.complete + tally'.failed + tally'.cancelled = Cardinality(Devices)
          /\ UNCHANGED <<written, onDisk>>
       \/ /\ worker = "revalidate" /\ worker' = "save" /\ licensed
          /\ UNCHANGED <<tally, written, onDisk, permitted>>
       \/ /\ worker = "save" /\ worker' = "save" /\ written' = written + 1
          /\ onDisk' = [onDisk EXCEPT ![started] = @ + 1]
          /\ UNCHANGED <<tally, permitted>>

\* It reports what it has done and is about to end.
Reports(e) ==
    /\ worker \in Working /\ worker' = "exiting"
    /\ e.run = started /\ Honest(e) /\ queue' = Append(queue, e)
    /\ UNCHANGED <<started, tally, written, onDisk, cancel, licensed, guiState, permitted>>

\* The counts of a collection add up.
LEMMA TallyAddsUp ==
    ASSUME NEW c, NEW o \in PossibleOutcomes(Devices, c)
    PROVE  /\ Tally(o) \in [complete : Nat, failed : Nat, cancelled : Nat]
           /\ Tally(o).complete + Tally(o).failed + Tally(o).cancelled = Cardinality(Devices)
<1> DEFINE S == WithStatus(o, {"COMPLETE"})
           C == WithStatus(o, {"CANCELLED"})
<1>1. DOMAIN o = Devices
  BY DEF PossibleOutcomes
<1>2. S \subseteq Devices /\ C \subseteq Devices /\ S \cap C = {} /\ S \cup C \subseteq Devices
  BY <1>1 DEF WithStatus
<1>3. IsFiniteSet(Devices)
  BY BasicAppAssumption
<1> HIDE DEF S, C
<1>4. IsFiniteSet(S) /\ IsFiniteSet(C) /\ Cardinality(S \cup C) <= Cardinality(Devices)
  BY <1>2, <1>3, FS_Subset
<1>5. Cardinality(S \cup C) = Cardinality(S) + Cardinality(C) - Cardinality(S \cap C)
  BY <1>4, FS_Union
<1>6. /\ Cardinality(S \cap C) = 0 /\ Cardinality(S) \in Nat /\ Cardinality(C) \in Nat
      /\ Cardinality(Devices) \in Nat
  BY <1>2, <1>3, <1>4, FS_EmptySet, FS_CardinalityType
<1>7. /\ SuccessCount(o) = Cardinality(S) /\ CancelledCount(o) = Cardinality(C)
      /\ FailureCount(o) = Cardinality(Devices) - Cardinality(S) - Cardinality(C)
  BY <1>1 DEF SuccessCount, CancelledCount, FailureCount, S, C
<1>8. FailureCount(o) \in Nat
  BY <1>4, <1>5, <1>6, <1>7
<1>9. QED
  BY <1>6, <1>7, <1>8 DEF Tally

LEMMA EventsAreHonest ==
    ASSUME IInv, worker \in Working, NEW state \in Results, NEW b \in BOOLEAN,
           state = "COMPLETED" => written = Cardinality(Devices) * FilesPerDevice,
           state = "PARTIAL" => written > 0,
           state \in {"FAILED", "CANCELLED"} => written = 0
    PROVE  /\ Completion(state, b) \in Events
           /\ Completion(state, b).run = started /\ Honest(Completion(state, b))
<1>1. started \in Runs /\ written = onDisk[started] /\ written \in Nat
  BY DEF IInv, TypeOK, RunInv, Runs, Working
<1>2. QED
  BY <1>1 DEF Completion, Events, Honest, Results

LEMMA FailReports ==
    ASSUME IInv, worker \in Working, Fail
    PROVE  \E e \in Events : Reports(e)
<1> DEFINE state == IF written > 0 THEN "PARTIAL" ELSE "FAILED"
<1>1. /\ state \in Results /\ written \in Nat
      /\ state = "PARTIAL" => written > 0
      /\ state = "FAILED" => written = 0
      /\ state \notin {"COMPLETED", "CANCELLED"}
  BY DEF Results, IInv, TypeOK
<1>2. queue' = Append(queue, Completion(state, FALSE))
  BY DEF Fail
<1> HIDE DEF state
<1>3. /\ Completion(state, FALSE) \in Events
      /\ Completion(state, FALSE).run = started /\ Honest(Completion(state, FALSE))
  BY <1>1, EventsAreHonest
<1>4. Reports(Completion(state, FALSE))
  BY <1>2, <1>3 DEF Fail, Reports
<1>5. QED
  BY <1>3, <1>4

LEMMA ConcludeReports ==
    ASSUME IInv, Conclude
    PROVE  \E e \in Events : Reports(e)
<1>0. worker = "save" /\ worker \in Working
  BY DEF Conclude, Working
<1>1. /\ written \in Nat /\ tally \in [complete : Nat, failed : Nat, cancelled : Nat]
      /\ written = tally.complete * FilesPerDevice
      /\ tally.complete + tally.failed + tally.cancelled = Cardinality(Devices)
  BY <1>0 DEF IInv, TypeOK, RunInv, Conclude
<1>2. /\ FinishedState \in Results
      /\ FinishedState = "COMPLETED" => tally.failed + tally.cancelled = 0
      /\ FinishedState \in {"COMPLETED", "PARTIAL"} => written > 0
      /\ FinishedState \in {"FAILED", "CANCELLED"} => written = 0
  BY <1>1 DEF FinishedState, Results
<1>3. FinishedState = "COMPLETED" => written = Cardinality(Devices) * FilesPerDevice
  <2>1. FinishedState = "COMPLETED" => tally.complete = Cardinality(Devices)
    BY <1>1, <1>2
  <2>2. QED
    BY <1>1, <2>1
<1>4. /\ Completion(FinishedState, TRUE) \in Events
      /\ Completion(FinishedState, TRUE).run = started /\ Honest(Completion(FinishedState, TRUE))
  BY <1>0, <1>2, <1>3, EventsAreHonest
<1>5. Reports(Completion(FinishedState, TRUE))
  BY <1>0, <1>4 DEF Conclude, Reports
<1>6. QED
  BY <1>4, <1>5

LEMMA WorkerSteps ==
    ASSUME IInv, WorkerStep
    PROVE  Proceeds \/ (\E e \in Events : Reports(e)) \/ Exit
<1>1. CASE Validate
  BY <1>1, FailReports DEF Validate, Proceed, Proceeds, Working
<1>2. CASE CollectDevices
  BY <1>2, FailReports, TallyAddsUp DEF CollectDevices, Proceed, Proceeds, Working
<1>3. CASE Revalidate
  BY <1>3, FailReports DEF Revalidate, Proceed, Proceeds, Working
<1>4. CASE SaveReport
  BY <1>4, FailReports DEF SaveReport, Proceed, Proceeds, Working
<1>5. CASE Conclude
  BY <1>5, ConcludeReports
<1>6. QED
  BY <1>1, <1>2, <1>3, <1>4, <1>5 DEF WorkerStep

-------------------------------------------------------------------------------
(* The invariant holds initially and is preserved by every step *)

LEMMA InitIInv ==
    ASSUME Init
    PROVE  IInv
<1> USE BasicAppAssumption DEF Init, Runs
<1>1. TypeOK
  <2>1. queue \in Seq(Events)
    BY EmptySeq
  <2>2. tally \in [complete : Nat, failed : Nat, cancelled : Nat]
    BY DEF NoTally
  <2>3. card \in [run : 0..MaxRuns, state : Results \cup {"READY", "RUNNING"}, files : Nat]
    OBVIOUS
  <2>4. QED
    BY <2>1, <2>2, <2>3 DEF TypeOK
<1>2. RunInv /\ LicenseInv /\ GuiInv
  BY DEF RunInv, LicenseInv, GuiInv, Alive
<1>3. ReportInv
  BY DEF ReportInv, Results
<1>4. NoCompletionIsLost
  BY DEF NoCompletionIsLost, Alive
<1>5. QED
  BY <1>1, <1>2, <1>3, <1>4 DEF IInv

LEMMA TypeStep ==
    ASSUME IInv, [Next]_vars
    PROVE  TypeOK'
<1> USE BasicAppAssumption DEF TypeOK, Runs, workerState, guiState
<1>0. TypeOK
  BY DEF IInv
<1>1. CASE UNCHANGED vars
  BY <1>0, <1>1 DEF vars
<1>2. CASE Start
  <2>1. tally' \in [complete : Nat, failed : Nat, cancelled : Nat]
    BY <1>2 DEF Start, NoTally
  <2>2. card' \in [run : 0..MaxRuns, state : Results \cup {"READY", "RUNNING"}, files : Nat]
    BY <1>0, <1>2 DEF Start
  <2>3. started' \in 0..MaxRuns
    BY <1>0, <1>2 DEF Start
  <2>4. /\ worker' = "validate" /\ written' = 0 /\ cancel' = FALSE /\ summaryRun' = 0
        /\ polls' = polls + 1 /\ permitted' = FALSE
        /\ UNCHANGED <<licensed, queue, gui, closed, onDisk, applied>>
    BY <1>2 DEF Start
  <2>5. /\ worker' \in Working /\ written' \in Nat /\ summaryRun' \in 0..MaxRuns
        /\ cancel' \in BOOLEAN /\ permitted' \in BOOLEAN
    <3>1. worker' \in Working /\ cancel' \in BOOLEAN /\ permitted' \in BOOLEAN
      BY <2>4, Zenon DEF Working
    <3>2. written' \in Nat
      BY <2>4
    <3>3. summaryRun' \in 0..MaxRuns
      BY <2>4
    <3>4. QED
      BY <3>1, <3>2, <3>3
  <2>6. polls' \in Nat
    BY <1>0, <2>4
  <2>7. QED
    BY <1>0, <2>1, <2>2, <2>3, <2>4, <2>5, <2>6
<1>3. CASE CancelRun \/ OnClose \/ ImportLicense \/ LicenseChanges
  BY <1>0, <1>3 DEF CancelRun, OnClose, ImportLicense, LicenseChanges, Alive
<1>4. CASE Drain
  <2> DEFINE e == Head(queue)
  <2>1. e \in Events /\ queue' \in Seq(Events)
    BY <1>0, <1>4 DEF Drain
  <2>2. card' = [run |-> e.run, state |-> e.state, files |-> e.files]
    BY <1>4 DEF Drain
  <2>3. summaryRun' \in {summaryRun, e.run} /\ applied' = applied \cup {e.run}
    BY <1>4 DEF Drain
  <2> HIDE DEF e
  <2>4. e.run \in Runs /\ e.state \in Results /\ e.files \in Nat
    BY <2>1 DEF Events
  <2>5. card' \in [run : 0..MaxRuns, state : Results \cup {"READY", "RUNNING"}, files : Nat]
    BY <2>2, <2>4
  <2>6. QED
    BY <1>0, <1>4, <2>1, <2>3, <2>4, <2>5 DEF Drain
<1>5. CASE PollFires \/ DrainEmpty \/ LookAtThread \/ LookAtQueue
  <2>1. polls' \in Nat /\ gui' \in {"idle", "drain", "look", "lookAtQueue"}
    BY <1>0, <1>5 DEF PollFires, DrainEmpty, LookAtThread, LookAtQueue, Rearm
  <2>2. /\ UNCHANGED <<started, workerState, cancel, licensed, queue, card,
                       summaryRun, closed, applied, permitted>>
    BY <1>5 DEF PollFires, DrainEmpty, LookAtThread, LookAtQueue, Rearm
  <2>3. QED
    BY <1>0, <2>1, <2>2
<1>6. CASE Proceeds
  <2>1. written' \in Nat /\ tally' \in [complete : Nat, failed : Nat, cancelled : Nat]
    BY <1>0, <1>6 DEF Proceeds
  <2>2. onDisk' \in [Runs -> Nat]
    <3>1. onDisk' = onDisk \/ onDisk' = [onDisk EXCEPT ![started] = @ + 1]
      BY <1>6 DEF Proceeds
    <3>2. \A r \in 1..MaxRuns : onDisk[r] \in Nat
      BY <1>0
    <3>3. QED
      BY <1>0, <3>1, <3>2
  <2>3. worker' \in Working /\ permitted' \in BOOLEAN
    BY <1>0, <1>6 DEF Proceeds, Working
  <2>4. QED
    BY <1>0, <1>6, <2>1, <2>2, <2>3 DEF Proceeds
<1>7. ASSUME NEW e \in Events, Reports(e)
      PROVE  TypeOK'
  <2>1. queue' \in Seq(Events)
    BY <1>0, <1>7, AppendProperties DEF Reports
  <2>2. QED
    BY <1>0, <1>7, <2>1 DEF Reports
<1>8. CASE Exit
  BY <1>0, <1>8 DEF Exit, Proceed
<1>9. QED
  BY <1>1, <1>2, <1>3, <1>4, <1>5, <1>6, <1>7, <1>8, WorkerSteps DEF Next, PollStep

LEMMA RunStep ==
    ASSUME IInv, [Next]_vars
    PROVE  RunInv' /\ LicenseInv' /\ GuiInv'
<1> USE BasicAppAssumption DEF RunInv, LicenseInv, GuiInv, Alive, Runs, workerState, guiState
<1>0. TypeOK /\ RunInv /\ LicenseInv /\ GuiInv
  BY DEF IInv
<1>1. CASE UNCHANGED vars
  BY <1>0, <1>1 DEF vars
<1>2. CASE Start
  <2>1. started' \in Runs /\ started' = started + 1 /\ started \in Nat
    BY <1>0, <1>2 DEF Start, TypeOK
  <2>2. QED
    BY <1>0, <1>2, <2>1 DEF Start, Callback, TypeOK
<1>3. CASE CancelRun \/ OnClose
  BY <1>0, <1>3 DEF CancelRun, OnClose, Callback
<1>3a. CASE ImportLicense
  BY <1>0, <1>3a DEF ImportLicense
<1>3b. CASE LicenseChanges
  BY <1>0, <1>3b DEF LicenseChanges, TypeOK
<1>4. CASE Drain \/ PollFires \/ DrainEmpty \/ LookAtThread \/ LookAtQueue
  BY <1>0, <1>4 DEF PollFires, Drain, DrainEmpty, LookAtThread, LookAtQueue, Rearm, Callback
<1>5. CASE Proceeds
  <2>1. started \in Runs /\ started > 0 /\ onDisk \in [Runs -> Nat]
    BY <1>0, <1>5 DEF Proceeds, Working, TypeOK
  <2>2. written' = onDisk'[started] /\ \A r \in Runs : r > started => onDisk'[r] = 0
    BY <1>0, <1>5, <2>1 DEF Proceeds, TypeOK
  <2>3. RunInv'
    BY <1>0, <1>5, <2>1, <2>2 DEF Proceeds, Working
  <2>4. LicenseInv' /\ GuiInv'
    BY <1>0, <1>5 DEF Proceeds, Working
  <2>5. QED
    BY <2>3, <2>4
<1>6. ASSUME NEW e \in Events, Reports(e)
      PROVE  RunInv' /\ LicenseInv' /\ GuiInv'
  BY <1>0, <1>6 DEF Reports, Working
<1>7. CASE Exit
  BY <1>0, <1>7 DEF Exit, Proceed
<1>8. QED
  BY <1>1, <1>2, <1>3, <1>3a, <1>3b, <1>4, <1>5, <1>6, <1>7, WorkerSteps DEF Next, PollStep

LEMMA ReportStep ==
    ASSUME IInv, [Next]_vars
    PROVE  ReportInv'
<1> USE DEF workerState, guiState
<1>0. TypeOK /\ RunInv /\ GuiInv /\ ReportInv /\ started \in Nat /\ queue \in Seq(Events)
  BY DEF IInv, TypeOK
<1>1. ASSUME UNCHANGED <<started, onDisk, queue, card, summaryRun, applied>>,
             worker' \in Working => worker \in Working
      PROVE  ReportInv'
  BY <1>0, <1>1 DEF ReportInv, Concluded, Honest
<1>2. CASE Start
  <2>1. /\ started' = started + 1 /\ card'.state = "RUNNING" /\ summaryRun' = 0
        /\ worker \notin Working /\ UNCHANGED <<queue, onDisk, applied>>
    BY <1>2 DEF Start, Alive, Working
  <2>2. \A r : Concluded(r) => Concluded(r)'
    BY <1>0, <2>1 DEF Concluded
  <2>3. \A e : Honest(e) => Honest(e)'
    BY <2>1 DEF Honest
  <2>4. QED
    BY <1>0, <2>1, <2>2, <2>3 DEF ReportInv, Results
<1>3. CASE CancelRun \/ OnClose \/ ImportLicense \/ LicenseChanges
  BY <1>1, <1>3 DEF CancelRun, OnClose, ImportLicense, LicenseChanges
<1>4. CASE Drain
  <2> DEFINE e == Head(queue)
  <2>1. /\ queue # <<>> /\ queue' = Tail(queue)
        /\ card' = [run |-> e.run, state |-> e.state, files |-> e.files]
        /\ summaryRun' \in {summaryRun, e.run} /\ applied' = applied \cup {e.run}
        /\ UNCHANGED <<started, worker, onDisk>>
    BY <1>4 DEF Drain
  <2>2. /\ 1 \in DOMAIN queue /\ e = queue[1]
        /\ \A k \in DOMAIN queue' : k + 1 \in DOMAIN queue /\ queue'[k] = queue[k + 1]
    BY <1>0, <2>1
  <2>3. Concluded(e.run) /\ Honest(e)
    BY <1>0, <2>2 DEF ReportInv
  <2> HIDE DEF e
  <2>4. Concluded(card.run)' /\ Honest(card)'
    BY <2>1, <2>3 DEF Concluded, Honest
  <2>5. (\A k \in DOMAIN queue : Concluded(queue[k].run) /\ Honest(queue[k]))'
    BY <1>0, <2>1, <2>2 DEF ReportInv, Concluded, Honest
  <2>6. QED
    BY <1>0, <2>1, <2>4, <2>5 DEF ReportInv
<1>5. CASE PollFires \/ DrainEmpty \/ LookAtThread \/ LookAtQueue
  BY <1>1, <1>5 DEF PollFires, DrainEmpty, LookAtThread, LookAtQueue, Rearm
<1>6. CASE Proceeds
  <2>1. /\ worker \in Working /\ UNCHANGED <<started, queue, card, summaryRun, applied>>
        /\ \A r \in Runs : r # started => onDisk'[r] = onDisk[r]
    BY <1>0, <1>6 DEF Proceeds, TypeOK
  <2>2. worker' \in Working
    BY <1>6 DEF Proceeds, Working
  <2>3. \A r : Concluded(r) => r \in Runs /\ r # started /\ Concluded(r)'
    BY <1>0, <2>1, BasicAppAssumption DEF Concluded, TypeOK, Runs
  <2>4. \A e : Concluded(e.run) /\ Honest(e) => Honest(e)'
    BY <2>1, <2>3 DEF Honest
  <2>5. QED
    BY <1>0, <2>1, <2>3, <2>4 DEF ReportInv
<1>7. ASSUME NEW e \in Events, Reports(e)
      PROVE  ReportInv'
  <2>1. /\ worker' = "exiting" /\ queue' = Append(queue, e) /\ e.run = started /\ Honest(e)
        /\ UNCHANGED <<started, onDisk, card, summaryRun, applied>> /\ worker \in Working
    BY <1>7 DEF Reports
  <2>2. \A r : Concluded(r) \/ (r = started /\ started > 0) => Concluded(r)'
    BY <1>0, <2>1 DEF Concluded, Working
  <2>3. \A f : Honest(f) => Honest(f)'
    BY <2>1 DEF Honest
  <2>4. \A k \in DOMAIN queue' : (k \in DOMAIN queue /\ queue'[k] = queue[k]) \/ queue'[k] = e
    BY <1>0, <2>1
  <2>5. started > 0
    BY <1>0, <2>1 DEF RunInv, Working
  <2>6. QED
    BY <1>0, <2>1, <2>2, <2>3, <2>4, <2>5 DEF ReportInv
<1>8. CASE Exit
  BY <1>1, <1>8 DEF Exit, Proceed, Working
<1>9. CASE UNCHANGED vars
  BY <1>1, <1>9 DEF vars
<1>10. QED
  BY <1>2, <1>3, <1>4, <1>5, <1>6, <1>7, <1>8, <1>9, WorkerSteps DEF Next, PollStep

LEMMA ToldStep ==
    ASSUME IInv, [Next]_vars
    PROVE  NoCompletionIsLost'
<1> USE DEF workerState, guiState
<1>0. /\ TypeOK /\ RunInv /\ GuiInv /\ NoCompletionIsLost
      /\ started \in Nat /\ polls \in Nat /\ queue \in Seq(Events)
  BY DEF IInv, TypeOK
<1>1. ASSUME UNCHANGED <<started, queue, applied, polls, gui>>, closed => closed',
             worker' \in Working <=> worker \in Working, Alive' => Alive
      PROVE  NoCompletionIsLost'
  BY <1>0, <1>1 DEF NoCompletionIsLost, Concluded
<1>2. CASE Start
  <2>1. /\ started' = started + 1 /\ worker' \in Working /\ worker \notin Working
        /\ polls' = polls + 1 /\ UNCHANGED <<queue, applied>>
    BY <1>2 DEF Start, Alive, Working
  <2>2. \A r : Concluded(r)' => Concluded(r)
    BY <1>0, <2>1 DEF Concluded
  <2>3. \A r \in 1..started' : Concluded(r)' => r \in 1..started
    BY <1>0, <2>1 DEF Concluded
  <2>4. QED
    BY <1>0, <2>1, <2>2, <2>3 DEF NoCompletionIsLost
<1>3. CASE CancelRun \/ OnClose \/ ImportLicense \/ LicenseChanges
  BY <1>1, <1>3 DEF CancelRun, OnClose, ImportLicense, LicenseChanges, Alive
<1>4. CASE Drain
  <2> DEFINE e == Head(queue)
  <2>1. /\ queue # <<>> /\ queue' = Tail(queue) /\ gui = "drain"
        /\ applied' = applied \cup {e.run} /\ UNCHANGED <<started, worker, gui>>
    BY <1>4 DEF Drain
  <2>2. \A k \in DOMAIN queue : queue[k] = e \/ \E j \in DOMAIN queue' : queue'[j] = queue[k]
    <3>1. /\ Head(queue) = queue[1]
          /\ \A k \in DOMAIN queue : k = 1 \/ (k - 1 \in DOMAIN Tail(queue) /\ Tail(queue)[k - 1] = queue[k])
      BY <1>0, <2>1
    <3>2. QED
      BY <2>1, <3>1
  <2> HIDE DEF e
  <2>3. QED
    BY <1>0, <2>1, <2>2 DEF NoCompletionIsLost, Concluded
<1>5. CASE PollFires \/ DrainEmpty \/ LookAtThread
  <2>1. /\ UNCHANGED <<started, worker, queue, applied, closed>>
        /\ gui' # "idle" \/ polls' = polls + 1
    BY <1>5 DEF PollFires, DrainEmpty, LookAtThread, Rearm
  <2>2. QED
    BY <1>0, <2>1 DEF NoCompletionIsLost, Concluded
<1>6. CASE LookAtQueue
  <2>1. /\ UNCHANGED <<started, worker, queue, applied, closed>> /\ ~ Alive
        /\ queue = <<>> \/ polls' = polls + 1
    BY <1>0, <1>6 DEF LookAtQueue, Rearm, GuiInv
  <2>2. QED
    BY <1>0, <2>1 DEF NoCompletionIsLost, Concluded, Alive
<1>7. CASE Proceeds
  <2>1. worker \in Working /\ worker' \in Working /\ UNCHANGED <<started, queue, guiState>>
    BY <1>7 DEF Proceeds, Working
  <2>2. QED
    BY <1>1, <2>1 DEF Alive, Working
<1>8. ASSUME NEW e \in Events, Reports(e)
      PROVE  NoCompletionIsLost'
  <2>1. /\ worker \in Working /\ e.run = started /\ queue' = Append(queue, e)
        /\ UNCHANGED <<started, guiState>>
    BY <1>8 DEF Reports
  <2>2. /\ \A k \in DOMAIN queue : k \in DOMAIN queue' /\ queue'[k] = queue[k]
        /\ \E k \in DOMAIN queue' : queue'[k].run = started
    <3>1. Len(queue) + 1 \in DOMAIN queue' /\ queue'[Len(queue) + 1] = e
      BY <1>0, <2>1
    <3>2. QED
      BY <1>0, <2>1, <3>1
  <2>3. \A r : Concluded(r)' => Concluded(r) \/ r = started
    BY <2>1 DEF Concluded
  <2>4. Alive
    BY <2>1 DEF Alive, Working
  <2>5. QED
    BY <1>0, <2>1, <2>2, <2>3, <2>4 DEF NoCompletionIsLost
<1>9. CASE Exit
  BY <1>1, <1>9 DEF Exit, Proceed, Working, Alive
<1>10. CASE UNCHANGED vars
  BY <1>1, <1>10 DEF vars, Alive
<1>11. QED
  BY <1>2, <1>3, <1>4, <1>5, <1>6, <1>7, <1>8, <1>9, <1>10, WorkerSteps DEF Next, PollStep

-------------------------------------------------------------------------------
(* The theorems *)

\* Every reachable state satisfies the inductive invariant: the guards of start,
\* the order of poll and the worker keep it, basic_app.py:659-822.
THEOREM BasicInvariance == Spec => []IInv
<1>1. Init => IInv
  BY InitIInv
<1>2. IInv /\ [Next]_vars => IInv'
  BY TypeStep, RunStep, ReportStep, ToldStep DEF IInv
<1>3. QED
  BY <1>1, <1>2, PTL DEF Spec

\* The window, its worker and their queue hold what they are declared to.
THEOREM BasicTypeCorrect == Spec => []TypeOK
<1>1. IInv => TypeOK
  BY DEF IInv
<1>2. QED
  BY <1>1, BasicInvariance, PTL

\* No report exists unless the license permitted the batch after its collection
\* ended, whatever is installed or expires meanwhile (_run's second check).
THEOREM NothingIsSavedUnlicensed == Spec => []ExportIsLicensed
<1>1. IInv => ExportIsLicensed
  BY DEF IInv, LicenseInv, ExportIsLicensed
<1>2. QED
  BY <1>1, BasicInvariance, PTL

\* The result card says what is on disk, of any run, for any number of devices
\* and of reports (_apply_run_completion and the end of _run).
THEOREM CardSaysWhatIsOnDisk == Spec => []CardIsHonest
<1>1. ASSUME IInv
      PROVE  CardIsHonest
  <2>1. ReportInv /\ TypeOK
    BY <1>1 DEF IInv
  <2>2. card.state \in Results \cup {"READY", "RUNNING"}
    BY <2>1 DEF TypeOK
  <2>3. card.state \in Results => Honest(card)
    BY <2>1 DEF ReportInv
  <2>4. QED
    BY <2>1, <2>2, <2>3 DEF CardIsHonest, Honest, ReportInv, Results
<1>2. QED
  BY <1>1, BasicInvariance, PTL

\* Once the window is gone nothing is saved and nothing posted: on_close lets
\* it go only when the worker has ended, and no callback can start another.
THEOREM ClosedIsQuiet == Spec => QuietAfterClose
<1>1. ASSUME IInv, [Next]_vars
      PROVE  [closed => onDisk' = onDisk /\ queue' = queue]_vars
  <2> SUFFICES ASSUME closed, Next
               PROVE  onDisk' = onDisk /\ queue' = queue
    BY <1>1 DEF vars
  <2>1. ~ Alive /\ gui = "idle"
    BY <1>1 DEF IInv, GuiInv
  <2>2. ~ WorkerStep /\ ~ Drain /\ ~ Start
    BY <2>1 DEF Alive, WorkerStep, Validate, CollectDevices, Revalidate, SaveReport, Conclude, Exit,
                Drain, Start, Callback
  <2>3. QED
    BY <2>2 DEF Next, PollStep, CancelRun, OnClose, ImportLicense, PollFires, DrainEmpty, LookAtThread,
                LookAtQueue, Rearm, LicenseChanges, workerState
<1>2. QED
  BY <1>1, BasicInvariance, PTL DEF Spec, QuietAfterClose

\* A cancellation lasts until the next start and no longer: only start clears
\* the shared event, between two workers.
THEOREM CancellationStaysWithItsRun == Spec => CancelBelongsToRun
<1>1. ASSUME [Next]_vars
      PROVE  [/\ cancel /\ ~cancel' => ~Alive /\ started' = started + 1
              /\ started' # started => ~cancel']_vars
  <2>1. CASE Start
    BY <2>1 DEF Start
  <2>2. CASE CancelRun \/ OnClose \/ ImportLicense \/ LicenseChanges \/ PollStep
    BY <2>2 DEF CancelRun, OnClose, ImportLicense, LicenseChanges, PollStep, PollFires, Drain, DrainEmpty,
                LookAtThread, LookAtQueue, Rearm
  <2>3. CASE WorkerStep
    BY <2>3 DEF WorkerStep, Validate, CollectDevices, Revalidate, SaveReport, Conclude, Exit, Fail, Proceed
  <2>4. QED
    BY <1>1, <2>1, <2>2, <2>3 DEF Next
<1>2. QED
  BY <1>1, PTL DEF Spec, CancelBelongsToRun

\* The safety half of EveryRunIsReported: a run that has ended is on the card
\* or its event waits in the queue, and while the window is open and something
\* waits or may come, a poll is due or running.
THEOREM CompletionsAreNotLost == Spec => []NoCompletionIsLost
<1>1. IInv => NoCompletionIsLost
  BY DEF IInv
<1>2. QED
  BY <1>1, BasicInvariance, PTL
===============================================================================
