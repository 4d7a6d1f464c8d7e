-------------------------------- MODULE ProSession --------------------------------
(* The Professional window around a scan (main_window.py): the flag and the    *)
(* cancel event its starters share, the worker thread, the two queues the      *)
(* window polls on timers of their own, the controls of the audit tab, and the *)
(* evidence pane, whose readers answer through one of those queues.            *)
EXTENDS Absence, Integers, FiniteSets, SequencesExt

CONSTANTS
    NDevices,      \* targets of a scan
    Artifacts,     \* stored evidence an operator may look at
    MaxScans, MaxReads  \* bounds: scans begun, evidence reads started

VARIABLES
    inProgress, cancelled, polling,  \* _scan_in_progress, _scan_cancel_event, _scan_event_polling
    scan,          \* the number of the scan begun last
    worker,        \* None or the scan thread: [scan, kind, done]
    events,        \* _scan_event_queue: progress events
    callbacks,     \* _ui_callback_queue
    controls,      \* the audit tab: [running, scan, done]
    asked,         \* history: the scan the operator cancelled last
    stranded,      \* history: a completion, or the start of an import's thread, raised
    context, chosen, view,  \* the evidence pane: its artifacts, the selected one, the text of one
    generation, readers,    \* _evidence_load_generation, the threads that read
    sought         \* history: the artifact whose reading was started last
scanVars     == <<inProgress, cancelled, polling, scan, worker, asked, stranded>>
evidenceVars == <<context, chosen, view, generation, readers, sought>>
sessionVars  == <<scanVars, events, callbacks, controls, evidenceVars>>

\* live devices, uploaded evidence, the failures of a run again, an import
Kinds == {"live", "checklist", "retry", "import"}

\* No scan thread is told apart from one.
SessionAssumption == None \notin [scan : Nat, kind : Kinds, done : Nat]

SessionInit ==
  /\ inProgress = FALSE /\ cancelled = FALSE /\ polling = FALSE /\ scan = 0 /\ worker = None
  /\ events = <<>> /\ callbacks = <<>> /\ asked = 0 /\ stranded = FALSE
  /\ controls = [running |-> FALSE, scan |-> 0, done |-> 0]
  /\ context = {} /\ chosen = None /\ view = None /\ generation = 0 /\ readers = {}
  /\ sought = None

Shows(running, s, done) == controls' = [running |-> running, scan |-> s, done |-> done]
Post(list) == callbacks' = callbacks \o list
Progress(s, done)   == [type |-> "progress", scan |-> s, done |-> done]
\* Some completions refresh the tabs before they call _finish_scan_ui.
Completion(s, done, refreshes) == [type |-> "finish", scan |-> s, done |-> done, refreshes |-> refreshes]

--------------------------------------------------------------------------------
(* _begin_scan.  The run buttons of the audit tab are disabled while its       *)
(* controls say running; a retry and an import are started from other tabs.    *)
Offered(kind) == kind \in {"retry", "import"} \/ ~ controls.running

Begin(clear, drain) ==
  /\ ~ inProgress /\ scan < MaxScans
  /\ scan' = scan + 1 /\ inProgress' = TRUE /\ polling' = TRUE
  /\ cancelled' = IF clear THEN FALSE ELSE cancelled
  /\ events' = IF drain THEN <<>> ELSE events
  /\ Shows(TRUE, scan', 0)
  /\ UNCHANGED <<asked, stranded, evidenceVars>>

BeginUncleared == Begin(FALSE, TRUE)
BeginScan      == Begin(TRUE, TRUE)

StartScan(kind) ==
  /\ Offered(kind) /\ BeginScan
  /\ worker' = [scan |-> scan', kind |-> kind, done |-> 0]
  /\ UNCHANGED callbacks

(* The run record or the thread could not be created: _finish_scan_ui at once. *)
(* An import starts its thread outside of any try: the window stays busy.      *)
StartFails(kind) ==
  /\ Offered(kind) /\ ~ inProgress /\ scan < MaxScans
  /\ scan' = scan + 1 /\ polling' = TRUE /\ cancelled' = FALSE /\ events' = <<>>
  /\ inProgress' = (kind = "import") /\ stranded' = (kind = "import")
  /\ Shows(kind = "import", scan', 0)
  /\ UNCHANGED <<worker, callbacks, asked, evidenceVars>>

CancelScan ==
  /\ controls.running /\ inProgress
  /\ cancelled' = TRUE /\ asked' = scan
  /\ UNCHANGED <<inProgress, polling, scan, worker, stranded, events, callbacks, controls, evidenceVars>>

--------------------------------------------------------------------------------
(* The scan thread: an event per device, except for an import; the checklist   *)
(* worker posts its progress before it fills templates and completes.          *)
DeviceDone ==
  /\ worker # None /\ worker.done < NDevices
  /\ worker' = [worker EXCEPT !.done = @ + 1]
  /\ events' = IF worker.kind = "import" THEN events ELSE Append(events, Progress(worker.scan, worker'.done))
  /\ UNCHANGED <<inProgress, cancelled, polling, scan, asked, stranded, callbacks, controls, evidenceVars>>

WorkerReturns ==
  /\ worker # None /\ (worker.done = NDevices \/ cancelled)
  /\ Post((IF worker.kind = "checklist" THEN <<Progress(worker.scan, worker.done)>> ELSE <<>>)
            \o <<Completion(worker.scan, worker.done, TRUE)>>)
  /\ worker' = None
  /\ UNCHANGED <<inProgress, cancelled, polling, scan, asked, stranded, events, controls, evidenceVars>>

\* _handle_background_scan_error is posted instead; it may show the failure first
WorkerRaises ==
  /\ worker # None /\ Post(<<Completion(worker.scan, 0, worker.kind = "checklist")>>) /\ worker' = None
  /\ UNCHANGED <<inProgress, cancelled, polling, scan, asked, stranded, events, controls, evidenceVars>>

--------------------------------------------------------------------------------
(* The two timers of the window.  One callback at a time: between two the      *)
(* worker may post and the operator may click.                                 *)
PollScanEvents ==
  /\ polling /\ polling' = inProgress /\ events' = <<>>
  /\ IF events = <<>> THEN UNCHANGED controls
     ELSE Shows(TRUE, Last(events).scan, Last(events).done)
  /\ UNCHANGED <<inProgress, cancelled, scan, worker, asked, stranded, callbacks, evidenceVars>>

UpdateProgress(c) ==
  /\ c.type = "progress" /\ Shows(TRUE, c.scan, c.done)
  /\ UNCHANGED <<inProgress, stranded, view>>

FinishScan(c) ==
  /\ c.type = "finish" /\ inProgress' = FALSE /\ Shows(FALSE, c.scan, c.done)
  /\ UNCHANGED <<stranded, view>>

\* A tab cannot be refreshed; the dispatcher goes on without _finish_scan_ui.
FinishRaises(c) ==
  /\ c.type = "finish" /\ c.refreshes /\ stranded' = TRUE
  /\ UNCHANGED <<inProgress, controls, view>>

DeliverLate(c) ==
  /\ c.type = "evidence" /\ view' = c.artifact
  /\ UNCHANGED <<inProgress, stranded, controls>>

\* only the read that was started last
Deliver(c) ==
  /\ c.type = "evidence" /\ view' = IF c.generation = generation THEN c.artifact ELSE view
  /\ UNCHANGED <<inProgress, stranded, controls>>

PollUiCallbacks ==
  /\ callbacks # <<>> /\ callbacks' = Tail(callbacks)
  /\ LET c == Head(callbacks) IN UpdateProgress(c) \/ FinishScan(c) \/ FinishRaises(c) \/ Deliver(c)
  /\ UNCHANGED <<cancelled, polling, scan, worker, asked, events, context, chosen, generation, readers, sought>>

--------------------------------------------------------------------------------
(* The evidence pane: _load_selected_async blanks the text and starts a reader.*)
Load(artifact) ==
  /\ generation < MaxReads /\ generation' = generation + 1
  /\ chosen' = artifact /\ sought' = artifact /\ view' = None
  /\ readers' = readers \cup {[type |-> "evidence", generation |-> generation', artifact |-> artifact]}
  /\ UNCHANGED <<scanVars, events, callbacks, controls>>

(* show_context of a result, or of a run opened from the history.  Without an  *)
(* artifact the text says that there is none; a reader under way is not told.  *)
ShowContext(artifacts) ==
  /\ context' = artifacts
  /\ IF artifacts = {}
     THEN /\ chosen' = None /\ view' = None
          /\ UNCHANGED <<scanVars, events, callbacks, controls, generation, readers, sought>>
     ELSE \E a \in artifacts : Load(a)

SelectArtifact(a) == Load(a) /\ UNCHANGED context

ReaderDone(r) ==
  /\ readers' = readers \ {r} /\ Post(<<r>>)
  /\ UNCHANGED <<scanVars, events, controls, context, chosen, view, generation, sought>>

SessionNext ==
  \/ \E kind \in Kinds : StartScan(kind) \/ StartFails(kind)
  \/ CancelScan \/ DeviceDone \/ WorkerReturns \/ WorkerRaises
  \/ PollScanEvents \/ PollUiCallbacks
  \/ \E s \in SUBSET Artifacts : ShowContext(s)
  \/ \E a \in context : SelectArtifact(a)
  \/ \E r \in readers : ReaderDone(r)

SessionSpec == SessionInit /\ [][SessionNext]_sessionVars

--------------------------------------------------------------------------------
(* The window is busy exactly while one scan works or its completion is on the *)
(* way, or for good after a completion or the start of an import has raised.   *)
(* No two scans are under way at once; meanwhile the controls offer to cancel  *)
(* and show that scan's progress, whatever older events, late progress         *)
(* callbacks and stopped timers are about; only a request made during a scan   *)
(* cancels it, and no event waits without a timer to fetch it.                 *)
(* main_window.py:1852-1876, :1930-2015.                                       *)
WindowFollowsTheScan ==
  LET working == IF worker = None THEN {} ELSE {worker.scan}
      ending  == {k \in DOMAIN callbacks : callbacks[k].type = "finish"}
      ended   == {callbacks[k].scan : k \in ending}
  IN  /\ Cardinality(working) + Cardinality(ending) = IF inProgress /\ ~ stranded THEN 1 ELSE 0
      /\ stranded => inProgress
      /\ inProgress => working \cup ended \subseteq {scan} /\ controls.running /\ controls.scan = scan
      /\ inProgress /\ cancelled => asked = scan
      /\ events # <<>> => polling

(* "A scan is already running. Cancel it or wait for it to finish." is what a  *)
(* starter answers while the window is busy (main_window.py:1853-1857).        *)
BusyMeansScanning ==
  inProgress => worker # None \/ \E k \in DOMAIN callbacks : callbacks[k].type = "finish"

(* The text in the evidence pane is that of the artifact that was looked for   *)
(* last, in whatever order the readers finish, and while the pane lists        *)
(* artifacts that one is listed and selected.  main_window.py:1095-1122,       *)
(* evidence_tab.py:88-142.                                                     *)
ReadersDoNotCross ==
  /\ view # None => view = sought
  /\ context # {} => sought \in context /\ chosen = sought

(* What the pane shows is the selected artifact; without one it says that "No  *)
(* linked evidence is available for this selection." (evidence_tab.py:124).    *)
EvidenceIsOfTheSelection == view # None => view = chosen
================================================================================
