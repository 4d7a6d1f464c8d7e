---------------------------- MODULE ProWindowProofs ----------------------------
(* Theorems about the three state machines behind the Professional window: the *)
(* scan and the evidence pane (ProSession), for any number of devices, scans   *)
(* and reads and any set of artifacts; the STIG library (StigLibrary), for any *)
(* packages, buttons and libraries and any number of failing steps; the target *)
(* table (TargetTable), for any addresses, profiles and groups.                *)
EXTENDS ProSession, StigLibrary, TargetTable, FiniteSetTheorems, SequenceTheorems, WellFoundedInduction, TLAPS

--------------------------------------------------------------------------------
(* THE SCAN AND THE EVIDENCE PANE.  The inductive invariant.                   *)

Scans     == [type : {"progress"}, scan : Nat, done : Nat]
               \cup [type : {"finish"}, scan : Nat, done : Nat, refreshes : BOOLEAN]
Texts     == [type : {"evidence"}, generation : Nat, artifact : Artifacts]

(* Types of the window's state, its two queues and its threads.                *)
SessionTypeOK ==
  /\ inProgress \in BOOLEAN /\ cancelled \in BOOLEAN /\ polling \in BOOLEAN /\ stranded \in BOOLEAN
  /\ scan \in Nat /\ asked \in Nat
  /\ worker \in {None} \cup [scan : Nat, kind : Kinds, done : Nat]
  /\ events \in Seq(Scans)
  /\ callbacks \in Seq(Scans \cup Texts)
  /\ controls \in [running : BOOLEAN, scan : Nat, done : Nat]
  /\ context \subseteq Artifacts
  /\ chosen \in Artifacts \cup {None} /\ view \in Artifacts \cup {None} /\ sought \in Artifacts \cup {None}
  /\ generation \in Nat
  /\ readers \subseteq Texts

(* A busy window has its scan in one place: its thread works, its one          *)
(* completion waits, or it was stranded; a progress callback stands before     *)
(* that completion.                                                            *)
Ends(k) == callbacks[k].type = "finish"
ScanInv ==
  /\ worker # None => /\ inProgress /\ ~ stranded /\ worker.scan = scan
                      /\ \A k \in DOMAIN callbacks : ~ Ends(k)
  /\ inProgress => worker # None \/ stranded \/ \E k \in DOMAIN callbacks : Ends(k)
  /\ stranded => inProgress
  /\ \A k \in DOMAIN callbacks : Ends(k) => inProgress /\ ~ stranded /\ callbacks[k].scan = scan
  /\ \A j, k \in DOMAIN callbacks : Ends(j) /\ Ends(k) => j = k
  /\ \A k \in DOMAIN callbacks : callbacks[k].type = "progress" =>
       callbacks[k].scan = scan /\ \E j \in DOMAIN callbacks : k < j /\ Ends(j)

(* What is shown and cancelled is the scan under way.                          *)
ControlInv ==
  /\ inProgress => polling /\ controls.running /\ controls.scan = scan
  /\ inProgress /\ cancelled => asked = scan
  /\ events # <<>> => polling
  /\ \A k \in DOMAIN events : events[k].scan = scan

(* Of the reads started, the latest is for the artifact looked for last.       *)
Latest(r) == r.generation <= generation /\ (r.generation = generation => sought = r.artifact)
EvidenceInv ==
  /\ \A r \in readers : Latest(r)
  /\ \A k \in DOMAIN callbacks : callbacks[k].type = "evidence" => Latest(callbacks[k])
  /\ view # None => view = sought
  /\ context # {} => sought \in context /\ chosen = sought

SessionInv == SessionTypeOK /\ ScanInv /\ ControlInv /\ EvidenceInv

--------------------------------------------------------------------------------
(* What posting to a queue and fetching from it do, place by place.            *)

LEMMA Posted ==
  ASSUME NEW S, NEW s \in Seq(S), NEW t \in Seq(S)
  PROVE  /\ s \o t \in Seq(S)
         /\ \A k \in DOMAIN s : k \in DOMAIN (s \o t) /\ (s \o t)[k] = s[k]
         /\ \A k \in DOMAIN t : Len(s) + k \in DOMAIN (s \o t) /\ (s \o t)[Len(s) + k] = t[k]
         /\ \A k \in DOMAIN (s \o t) : k \in DOMAIN s \/ (k - Len(s) \in DOMAIN t /\ k > Len(s))
  OBVIOUS

LEMMA Fetched ==
  ASSUME NEW S, NEW s \in Seq(S), s # <<>>
  PROVE  /\ Tail(s) \in Seq(S) /\ Head(s) \in S
         /\ 1 \in DOMAIN s /\ Head(s) = s[1]
         /\ \A k \in DOMAIN Tail(s) : k + 1 \in DOMAIN s /\ Tail(s)[k] = s[k + 1]
         /\ \A k \in DOMAIN s : k = 1 \/ k - 1 \in DOMAIN Tail(s)
  OBVIOUS

\* What the scan thread posts when it returns.
Ending(w) == (IF w.kind = "checklist" THEN <<Progress(w.scan, w.done)>> ELSE <<>>)
               \o <<Completion(w.scan, w.done, TRUE)>>

LEMMA EndingIs ==
  ASSUME NEW w \in [scan : Nat, kind : Kinds, done : Nat]
  PROVE  /\ Ending(w) \in Seq(Scans)
         /\ \E n \in DOMAIN Ending(w) :
              /\ Ending(w)[n].type = "finish"
              /\ \A k \in DOMAIN Ending(w) : k # n => k < n /\ Ending(w)[k].type = "progress"
         /\ \A k \in DOMAIN Ending(w) : Ending(w)[k].scan = w.scan
<1> DEFINE p == Progress(w.scan, w.done)
           c == Completion(w.scan, w.done, TRUE)
<1>1. p \in Scans /\ c \in Scans
  BY DEF Progress, Completion, Scans
<1>2. p.type = "progress" /\ c.type = "finish" /\ p.scan = w.scan /\ c.scan = w.scan
  BY DEF Progress, Completion
<1> HIDE DEF p, c
<1>3. CASE w.kind = "checklist"
  <2>1. Ending(w) = <<p>> \o <<c>>
    BY <1>3 DEF Ending, p, c
  <2>2. QED
    <3>1. <<p>> \in Seq(Scans) /\ <<c>> \in Seq(Scans)
      BY <1>1
    <3>2. Len(<<p>>) = 1 /\ <<p>>[1] = p /\ Len(<<c>>) = 1 /\ <<c>>[1] = c
      OBVIOUS
    <3>3. /\ Ending(w) \in Seq(Scans) /\ Len(Ending(w)) = 2
          /\ \A i \in 1 .. 2 : Ending(w)[i] = IF i <= 1 THEN p ELSE <<c>>[i - 1]
      BY <2>1, <3>1, <3>2, ConcatProperties
    <3>4. DOMAIN Ending(w) = 1 .. 2 /\ Ending(w)[1] = p /\ Ending(w)[2] = c
      BY <3>2, <3>3
    <3>5. QED
      BY <1>2, <3>3, <3>4
<1>4. CASE w.kind # "checklist"
  <2>1. Ending(w) = <<>> \o <<c>>
    BY <1>4 DEF Ending, c
  <2>2. QED
    BY <1>1, <1>2, <2>1
<1>5. QED
  BY <1>3, <1>4

LEMMA Showing ==
  ASSUME NEW running, NEW s, NEW d, Shows(running, s, d)
  PROVE  controls'.running = running /\ controls'.scan = s
BY DEF Shows

--------------------------------------------------------------------------------
(* The invariant holds initially and is preserved by every step                *)

LEMMA InitSessionInv ==
  ASSUME SessionInit
  PROVE  SessionInv
<1> USE DEF SessionInit
<1>1. SessionTypeOK
  <2>1. events \in Seq(Scans) /\ callbacks \in Seq(Scans \cup Texts)
    OBVIOUS
  <2>2. controls \in [running : BOOLEAN, scan : Nat, done : Nat]
    OBVIOUS
  <2>3. QED
    BY <2>1, <2>2 DEF SessionTypeOK
<1>2. ScanInv /\ ControlInv /\ EvidenceInv
  BY DEF ScanInv, ControlInv, EvidenceInv
<1>3. QED
  BY <1>1, <1>2 DEF SessionInv

LEMMA SessionTypeStep ==
  ASSUME SessionInv, [SessionNext]_sessionVars, SessionAssumption
  PROVE  SessionTypeOK'
<1> USE DEF SessionInv, SessionTypeOK, scanVars, evidenceVars, Shows
<1>1. CASE UNCHANGED sessionVars
  BY <1>1 DEF sessionVars
<1>2. ASSUME NEW kind \in Kinds, StartScan(kind) \/ StartFails(kind)
      PROVE  SessionTypeOK'
  <2>1. CASE StartScan(kind)
    <3>1. /\ scan' = scan + 1 /\ events' = <<>>
          /\ worker' = [scan |-> scan', kind |-> kind, done |-> 0]
          /\ controls' = [running |-> TRUE, scan |-> scan', done |-> 0]
      BY <2>1 DEF StartScan, BeginScan, Begin
    <3>2. worker' \in [scan : Nat, kind : Kinds, done : Nat]
      <4>1. scan' \in Nat
        BY <3>1
      <4>2. QED
        BY <1>2, <3>1, <4>1
    <3>3. controls' \in [running : BOOLEAN, scan : Nat, done : Nat] /\ events' \in Seq(Scans)
      BY <3>1
    <3>4. QED
      BY <2>1, <3>1, <3>2, <3>3 DEF StartScan, BeginScan, Begin
  <2>2. CASE StartFails(kind)
    <3>1. /\ scan' \in Nat /\ events' = <<>>
          /\ controls' = [running |-> (kind = "import"), scan |-> scan', done |-> 0]
      BY <2>2 DEF StartFails
    <3>2. controls' \in [running : BOOLEAN, scan : Nat, done : Nat] /\ events' \in Seq(Scans)
      BY <3>1, EmptySeq
    <3>3. inProgress' \in BOOLEAN /\ stranded' \in BOOLEAN
      BY <2>2, Zenon DEF StartFails
    <3>4. QED
      BY <2>2, <3>1, <3>2, <3>3 DEF StartFails
  <2>3. QED
    BY <1>2, <2>1, <2>2
<1>3. CASE CancelScan
  BY <1>3 DEF CancelScan
<1>4. CASE DeviceDone
  <2>1. worker \in [scan : Nat, kind : Kinds, done : Nat]
    BY <1>4 DEF DeviceDone
  <2>2. worker' \in [scan : Nat, kind : Kinds, done : Nat]
    BY <1>4, <2>1 DEF DeviceDone
  <2>3. Progress(worker.scan, worker'.done) \in Scans
    BY <2>1, <2>2 DEF Progress, Scans
  <2>4. events' \in Seq(Scans)
    BY <1>4, <2>3 DEF DeviceDone
  <2>5. QED
    BY <1>4, <2>2, <2>4 DEF DeviceDone
<1>5. CASE WorkerReturns
  <2>1. worker \in [scan : Nat, kind : Kinds, done : Nat]
    BY <1>5 DEF WorkerReturns
  <2>2. Ending(worker) \in Seq(Scans \cup Texts)
    BY <2>1, EndingIs
  <2>3. callbacks' = callbacks \o Ending(worker)
    BY <1>5 DEF WorkerReturns, Post, Ending
  <2>4. callbacks' \in Seq(Scans \cup Texts)
    BY <2>2, <2>3
  <2>5. QED
    BY <1>5, <2>4 DEF WorkerReturns
<1>6. CASE WorkerRaises
  <2> DEFINE c == Completion(worker.scan, 0, worker.kind = "checklist")
  <2>1. c \in Scans
    BY <1>6 DEF WorkerRaises, Completion, Scans
  <2>2. callbacks' = callbacks \o <<c>>
    BY <1>6 DEF WorkerRaises, Post
  <2> HIDE DEF c
  <2>3. callbacks' \in Seq(Scans \cup Texts)
    BY <2>1, <2>2
  <2>4. QED
    BY <1>6, <2>3 DEF WorkerRaises
<1>7. CASE PollScanEvents
  <2>1. events # <<>> => Last(events) \in Scans
    BY DEF Last
  <2>2. events # <<>> => Last(events).scan \in Nat /\ Last(events).done \in Nat
    BY <2>1 DEF Scans
  <2>3. \/ controls' = controls
        \/ events # <<>> /\ controls' = [running |-> TRUE, scan |-> Last(events).scan, done |-> Last(events).done]
    BY <1>7, Zenon DEF PollScanEvents, Shows
  <2>4. controls' \in [running : BOOLEAN, scan : Nat, done : Nat]
    <3>1. controls \in [running : BOOLEAN, scan : Nat, done : Nat]
      OBVIOUS
    <3> HIDE DEF SessionInv, SessionTypeOK
    <3>2. CASE controls' = controls
      BY <3>1, <3>2
    <3>3. ASSUME NEW s \in Nat, NEW d \in Nat, controls' = [running |-> TRUE, scan |-> s, done |-> d]
          PROVE  controls' \in [running : BOOLEAN, scan : Nat, done : Nat]
      BY <3>3
    <3>4. QED
      BY <2>2, <2>3, <3>2, <3>3
  <2>5. events' \in Seq(Scans)
    BY <1>7 DEF PollScanEvents
  <2>6. QED
    BY <1>7, <2>4, <2>5 DEF PollScanEvents
<1>8. CASE PollUiCallbacks
  <2> DEFINE c == Head(callbacks)
  <2>1. c \in Scans \cup Texts /\ callbacks' \in Seq(Scans \cup Texts)
    BY <1>8, Fetched DEF PollUiCallbacks
  <2>2. UpdateProgress(c) \/ FinishScan(c) \/ FinishRaises(c) \/ Deliver(c)
    BY <1>8 DEF PollUiCallbacks
  <2> HIDE DEF c
  <2>3. /\ controls' \in [running : BOOLEAN, scan : Nat, done : Nat]
        /\ inProgress' \in BOOLEAN /\ stranded' \in BOOLEAN /\ view' \in Artifacts \cup {None}
    <3>1. c.type # "evidence" => c.scan \in Nat /\ c.done \in Nat
      BY <2>1 DEF Scans, Texts
    <3>2. c.type = "evidence" => c.artifact \in Artifacts
      BY <2>1 DEF Scans, Texts
    <3>3. CASE UpdateProgress(c)
      BY <3>1, <3>3 DEF UpdateProgress
    <3>4. CASE FinishScan(c)
      BY <3>1, <3>4 DEF FinishScan
    <3>5. CASE Deliver(c)
      BY <3>2, <3>5 DEF Deliver
    <3>6. CASE FinishRaises(c)
      BY <3>6 DEF FinishRaises
    <3>7. QED
      BY <2>2, <3>3, <3>4, <3>5, <3>6
  <2>4. QED
    BY <1>8, <2>1, <2>3 DEF PollUiCallbacks
<1>9. ASSUME NEW a \in Artifacts, Load(a), context' \subseteq Artifacts
      PROVE  SessionTypeOK'
  BY <1>9 DEF Load, Texts
<1>10. ASSUME NEW s \in SUBSET Artifacts, ShowContext(s)
       PROVE  SessionTypeOK'
  BY <1>9, <1>10 DEF ShowContext
<1>11. ASSUME NEW a \in context, SelectArtifact(a)
       PROVE  SessionTypeOK'
  BY <1>9, <1>11 DEF SelectArtifact
<1>12. ASSUME NEW r \in readers, ReaderDone(r)
       PROVE  SessionTypeOK'
  BY <1>12 DEF ReaderDone, Post
<1>13. QED
  BY <1>1, <1>2, <1>3, <1>4, <1>5, <1>6, <1>7, <1>8, <1>10, <1>11, <1>12 DEF SessionNext

LEMMA ScanStep ==
  ASSUME SessionInv, [SessionNext]_sessionVars, SessionAssumption
  PROVE  ScanInv'
<1> USE DEF scanVars, evidenceVars
<1>0. /\ ScanInv /\ scan \in Nat /\ callbacks \in Seq(Scans \cup Texts)
      /\ worker # None => worker \in [scan : Nat, kind : Kinds, done : Nat]
  BY DEF SessionInv, SessionTypeOK
<1>1. ASSUME UNCHANGED <<inProgress, stranded, scan, callbacks>>,
             worker' = worker \/ (worker # None /\ worker' # None /\ worker'.scan = worker.scan)
      PROVE  ScanInv'
  BY <1>0, <1>1 DEF ScanInv, Ends
<1>2. ASSUME NEW kind \in Kinds, StartScan(kind) \/ StartFails(kind)
      PROVE  ScanInv'
  <2>1. ~ inProgress /\ scan' = scan + 1 /\ callbacks' = callbacks
    BY <1>2 DEF StartScan, StartFails, BeginScan, Begin
  <2>2. /\ worker = None /\ ~ stranded
        /\ \A k \in DOMAIN callbacks : callbacks[k].type \notin {"finish", "progress"}
    BY <1>0, <2>1 DEF ScanInv, Ends
  <2>3. CASE StartScan(kind)
    <3>1. worker' # None /\ worker'.scan = scan' /\ inProgress' /\ ~ stranded'
      <4>1. /\ inProgress' /\ worker' = [scan |-> scan', kind |-> kind, done |-> 0] /\ scan' \in Nat
        BY <1>0, <2>1, <2>3 DEF StartScan, BeginScan, Begin
      <4>2. worker' \in [scan : Nat, kind : Kinds, done : Nat]
        BY <1>2, <4>1
      <4>3. QED
        BY <2>2, <2>3, <4>1, <4>2 DEF SessionAssumption, StartScan, BeginScan, Begin
    <3>2. QED
      BY <2>1, <2>2, <3>1 DEF ScanInv, Ends
  <2>4. CASE StartFails(kind)
    BY <2>1, <2>2, <2>4 DEF ScanInv, Ends, StartFails
  <2>5. QED
    BY <1>2, <2>3, <2>4
<1>3. CASE DeviceDone
  <2>1. worker' # None /\ worker'.scan = worker.scan
    <3>1. worker \in [scan : Nat, kind : Kinds, done : Nat] /\ worker' = [worker EXCEPT !.done = @ + 1]
      BY <1>0, <1>3 DEF DeviceDone
    <3>2. worker' \in [scan : Nat, kind : Kinds, done : Nat]
      BY <3>1
    <3>3. QED
      BY <3>1, <3>2 DEF SessionAssumption
  <2>2. QED
    BY <1>1, <1>3, <2>1 DEF DeviceDone
<1>4. ASSUME NEW list \in Seq(Scans), callbacks' = callbacks \o list,
             worker # None, worker' = None, UNCHANGED <<inProgress, stranded, scan>>,
             NEW n \in DOMAIN list, list[n].type = "finish",
             \A k \in DOMAIN list : /\ k # n => k < n /\ list[k].type = "progress"
                                    /\ list[k].scan = scan
      PROVE  ScanInv'
  <2>1. /\ inProgress /\ ~ stranded
        /\ \A k \in DOMAIN callbacks : callbacks[k].type \notin {"finish", "progress"}
    BY <1>0, <1>4 DEF ScanInv, Ends
  <2>2. list \in Seq(Scans \cup Texts)
    BY <1>4
  <2>3. /\ Len(callbacks) \in Nat /\ n \in Nat
        /\ Len(callbacks) + n \in DOMAIN callbacks' /\ callbacks'[Len(callbacks) + n] = list[n]
        /\ \A k \in DOMAIN callbacks' :
             k \in Nat /\ (\/ callbacks'[k].type \notin {"finish", "progress"}
                           \/ k - Len(callbacks) \in DOMAIN list /\ callbacks'[k] = list[k - Len(callbacks)])
    <3>1. /\ \A k \in DOMAIN callbacks : k \in DOMAIN callbacks' /\ callbacks'[k] = callbacks[k]
          /\ \A k \in DOMAIN list : Len(callbacks) + k \in DOMAIN callbacks' /\ callbacks'[Len(callbacks) + k] = list[k]
          /\ \A k \in DOMAIN callbacks' : k \in DOMAIN callbacks \/ (k - Len(callbacks) \in DOMAIN list /\ k > Len(callbacks))
          /\ callbacks' \in Seq(Scans \cup Texts)
      BY <1>0, <1>4, <2>2, Posted
    <3>2. QED
      BY <1>0, <1>4, <2>1, <3>1
  <2>4. \A k \in DOMAIN callbacks' :
          /\ callbacks'[k].type = "finish" => k = Len(callbacks) + n /\ callbacks'[k].scan = scan
          /\ callbacks'[k].type = "progress" => callbacks'[k].scan = scan /\ k < Len(callbacks) + n
    <3>1. SUFFICES ASSUME NEW k \in DOMAIN callbacks', callbacks'[k].type \in {"finish", "progress"}
                   PROVE  /\ callbacks'[k].type = "finish" => k = Len(callbacks) + n /\ callbacks'[k].scan = scan
                          /\ callbacks'[k].type = "progress" => callbacks'[k].scan = scan /\ k < Len(callbacks) + n
      OBVIOUS
    <3>2. k \in Nat /\ k - Len(callbacks) \in DOMAIN list /\ callbacks'[k] = list[k - Len(callbacks)]
      BY <2>3, <3>1
    <3>3. CASE k - Len(callbacks) = n
      BY <1>4, <2>3, <3>2, <3>3
    <3>4. CASE k - Len(callbacks) # n
      BY <1>4, <2>3, <3>2, <3>4
    <3>5. QED
      BY <3>3, <3>4
  <2>5. QED
    BY <1>4, <2>1, <2>3, <2>4 DEF ScanInv, Ends
<1>5. CASE WorkerReturns
  <2>1. worker \in [scan : Nat, kind : Kinds, done : Nat] /\ worker.scan = scan
    BY <1>0, <1>5 DEF WorkerReturns, ScanInv
  <2>2. callbacks' = callbacks \o Ending(worker)
    BY <1>5 DEF WorkerReturns, Post, Ending
  <2>3. PICK n \in DOMAIN Ending(worker) :
          /\ Ending(worker)[n].type = "finish"
          /\ \A k \in DOMAIN Ending(worker) : k # n => k < n /\ Ending(worker)[k].type = "progress"
    BY <2>1, EndingIs
  <2>4. Ending(worker) \in Seq(Scans) /\ \A k \in DOMAIN Ending(worker) : Ending(worker)[k].scan = scan
    BY <2>1, EndingIs
  <2>5. QED
    BY <1>4, <1>5, <2>2, <2>3, <2>4 DEF WorkerReturns
<1>6. CASE WorkerRaises
  <2> DEFINE list == <<Completion(worker.scan, 0, worker.kind = "checklist")>>
  <2>1. worker.scan = scan /\ worker # None
    BY <1>0, <1>6 DEF WorkerRaises, ScanInv
  <2>2. /\ list \in Seq(Scans) /\ 1 \in DOMAIN list /\ list[1].type = "finish"
        /\ \A k \in DOMAIN list : k = 1 /\ list[k].scan = scan
    BY <1>0, <2>1 DEF Completion, Scans
  <2>3. callbacks' = callbacks \o list /\ worker' = None /\ UNCHANGED <<inProgress, stranded, scan>>
    BY <1>6 DEF WorkerRaises, Post
  <2> HIDE DEF list
  <2>4. QED
    BY <1>4, <2>1, <2>2, <2>3
<1>7. CASE PollUiCallbacks
  <2> DEFINE c == Head(callbacks)
  <2>1. /\ callbacks # <<>> /\ UNCHANGED <<scan, worker>> /\ callbacks' = Tail(callbacks)
        /\ UpdateProgress(c) \/ FinishScan(c) \/ FinishRaises(c) \/ Deliver(c)
    BY <1>7 DEF PollUiCallbacks
  <2>2. /\ 1 \in DOMAIN callbacks /\ c = callbacks[1]
        /\ \A k \in DOMAIN callbacks' : k + 1 \in DOMAIN callbacks /\ callbacks'[k] = callbacks[k + 1]
        /\ \A k \in DOMAIN callbacks : k = 1 \/ k - 1 \in DOMAIN callbacks'
        /\ callbacks' \in Seq(Scans \cup Texts)
    BY <1>0, <2>1, Fetched
  <2>3. /\ \A k \in DOMAIN callbacks' : k \in Nat /\ k >= 1
        /\ \A k \in DOMAIN callbacks : k \in Nat /\ k >= 1
    BY <1>0, <2>2
  <2> HIDE DEF c
  <2>4. CASE c.type # "finish"
    <3>1. inProgress' = inProgress /\ stranded' = stranded
      BY <2>1, <2>4 DEF UpdateProgress, FinishScan, FinishRaises, Deliver
    <3>2. \A k \in DOMAIN callbacks : Ends(k) => k - 1 \in DOMAIN callbacks' /\ Ends(k - 1)'
      <4>1. SUFFICES ASSUME NEW k \in DOMAIN callbacks, Ends(k)
                     PROVE  k - 1 \in DOMAIN callbacks' /\ callbacks'[k - 1].type = "finish"
        BY DEF Ends
      <4>2. k # 1
        BY <2>2, <2>4, <4>1 DEF Ends
      <4>3. QED
        BY <2>2, <2>3, <4>1, <4>2 DEF Ends
    <3>3. \A k \in DOMAIN callbacks' : k + 1 \in DOMAIN callbacks /\ callbacks'[k] = callbacks[k + 1]
      BY <2>2
    <3>4. \A k \in DOMAIN callbacks' : callbacks'[k].type = "progress" =>
            callbacks'[k].scan = scan /\ \E j \in DOMAIN callbacks' : k < j /\ Ends(j)'
      <4>1. SUFFICES ASSUME NEW k \in DOMAIN callbacks', callbacks'[k].type = "progress"
                     PROVE  callbacks'[k].scan = scan /\ \E j \in DOMAIN callbacks' : k < j /\ Ends(j)'
        OBVIOUS
      <4>2. callbacks[k + 1].scan = scan /\ \E j \in DOMAIN callbacks : k + 1 < j /\ Ends(j)
        BY <1>0, <3>3, <4>1 DEF ScanInv
      <4>3. PICK j \in DOMAIN callbacks : k + 1 < j /\ Ends(j)
        BY <4>2
      <4>4. j - 1 \in DOMAIN callbacks' /\ Ends(j - 1)' /\ k < j - 1
        BY <2>3, <3>2, <4>3
      <4>5. QED
        BY <3>3, <4>2, <4>4
    <3>5. \A k \in DOMAIN callbacks' : Ends(k)' => inProgress' /\ ~ stranded' /\ callbacks'[k].scan = scan'
      BY <1>0, <2>1, <3>1, <3>3 DEF ScanInv, Ends
    <3>6. \A j, k \in DOMAIN callbacks' : Ends(j)' /\ Ends(k)' => j = k
      BY <1>0, <2>3, <3>3 DEF ScanInv, Ends
    <3>7. worker' # None => /\ inProgress' /\ ~ stranded' /\ worker'.scan = scan'
                            /\ \A k \in DOMAIN callbacks' : ~ Ends(k)'
      BY <1>0, <2>1, <3>1, <3>3 DEF ScanInv, Ends
    <3>8. /\ inProgress' => worker' # None \/ stranded' \/ \E k \in DOMAIN callbacks' : Ends(k)'
          /\ stranded' => inProgress'
      BY <1>0, <2>1, <3>1, <3>2 DEF ScanInv
    <3>9. QED
      BY <2>1, <3>4, <3>5, <3>6, <3>7, <3>8 DEF ScanInv, Ends
  <2>5. CASE c.type = "finish"
    <3>1. inProgress' <=> stranded'
      <4>1. inProgress /\ ~ stranded
        BY <1>0, <2>2, <2>5 DEF ScanInv, Ends
      <4>2. CASE FinishScan(c)
        BY <4>1, <4>2, Zenon DEF FinishScan
      <4>3. CASE FinishRaises(c)
        BY <4>1, <4>3, Zenon DEF FinishRaises
      <4>4. QED
        BY <2>1, <2>5, <4>2, <4>3 DEF UpdateProgress, Deliver
    <3>2. Ends(1) /\ worker = None
      BY <1>0, <2>2, <2>5 DEF ScanInv, Ends
    <3>3. \A k \in DOMAIN callbacks : k # 1 => ~ Ends(k)
      BY <1>0, <2>2, <3>2 DEF ScanInv
    <3>4. \A k \in DOMAIN callbacks : callbacks[k].type # "progress"
      BY <1>0, <2>3, <3>3 DEF ScanInv
    <3>5. \A k \in DOMAIN callbacks' : callbacks'[k].type \notin {"finish", "progress"}
      BY <2>2, <2>3, <3>3, <3>4 DEF Ends
    <3>6. QED
      BY <2>1, <3>1, <3>2, <3>5 DEF ScanInv, Ends
  <2>6. QED
    BY <2>4, <2>5
<1>8. ASSUME NEW r \in readers, ReaderDone(r)
      PROVE  ScanInv'
  <2>1. r \in Scans \cup Texts /\ r.type = "evidence"
    BY DEF SessionInv, SessionTypeOK, Texts
  <2>2. callbacks' = callbacks \o <<r>> /\ UNCHANGED <<inProgress, stranded, scan, worker>>
    BY <1>8 DEF ReaderDone, Post
  <2>3. /\ \A k \in DOMAIN callbacks : k \in DOMAIN callbacks' /\ callbacks'[k] = callbacks[k]
        /\ \A k \in DOMAIN callbacks' : k \in DOMAIN callbacks \/ callbacks'[k].type = "evidence"
    BY <1>0, <2>1, <2>2
  <2>4. QED
    BY <1>0, <2>2, <2>3 DEF ScanInv, Ends
<1>9. ASSUME NEW a, Load(a)
      PROVE  ScanInv'
  BY <1>1, <1>9 DEF Load
<1>10. ASSUME NEW s, ShowContext(s)
       PROVE  ScanInv'
  BY <1>1, <1>9, <1>10 DEF ShowContext
<1>11. CASE CancelScan \/ PollScanEvents \/ UNCHANGED sessionVars
  BY <1>1, <1>11 DEF CancelScan, PollScanEvents, sessionVars
<1>12. QED
  BY <1>2, <1>3, <1>5, <1>6, <1>7, <1>8, <1>9, <1>10, <1>11 DEF SessionNext, Kinds, SelectArtifact

LEMMA ControlStep ==
  ASSUME SessionInv, [SessionNext]_sessionVars
  PROVE  ControlInv'
<1>0. /\ ScanInv /\ ControlInv /\ scan \in Nat /\ events \in Seq(Scans)
      /\ worker # None => worker \in [scan : Nat, kind : Kinds, done : Nat]
      /\ callbacks \in Seq(Scans \cup Texts)
  BY DEF SessionInv, SessionTypeOK
<1> USE DEF scanVars, evidenceVars
<1>1. ASSUME UNCHANGED <<inProgress, cancelled, polling, scan, asked, events, controls>>
      PROVE  ControlInv'
  BY <1>0, <1>1 DEF ControlInv
<1>2. ASSUME NEW kind \in Kinds, StartScan(kind) \/ StartFails(kind)
      PROVE  ControlInv'
  <2>1. events' = <<>> /\ cancelled' = FALSE /\ polling'
    BY <1>2 DEF StartScan, StartFails, BeginScan, Begin
  <2>2. inProgress' => controls'.running /\ controls'.scan = scan'
    BY <1>2, Showing DEF StartScan, StartFails, BeginScan, Begin
  <2>3. QED
    BY <2>1, <2>2 DEF ControlInv
<1>3. CASE CancelScan
  BY <1>0, <1>3 DEF CancelScan, ControlInv
<1>4. CASE DeviceDone
  <2>1. worker # None /\ worker.scan = scan /\ inProgress
    BY <1>0, <1>4 DEF DeviceDone, ScanInv
  <2>2. /\ UNCHANGED <<inProgress, cancelled, polling, scan, asked, controls>>
        /\ events' = events \/ events' = Append(events, Progress(worker.scan, worker'.done))
    BY <1>4 DEF DeviceDone
  <2>3. \A k \in DOMAIN events' : events'[k].scan = scan
    <3>1. CASE events' = events
      BY <1>0, <3>1 DEF ControlInv
    <3>2. ASSUME NEW e, e.scan = scan, events' = Append(events, e)
          PROVE  \A k \in DOMAIN events' : events'[k].scan = scan
      BY <1>0, <3>2 DEF ControlInv
    <3>3. Progress(worker.scan, worker'.done).scan = scan
      BY <2>1 DEF Progress
    <3>4. QED
      BY <2>2, <3>1, <3>2, <3>3
  <2>4. QED
    BY <1>0, <2>1, <2>2, <2>3 DEF ControlInv
<1>5. CASE WorkerReturns \/ WorkerRaises
  BY <1>1, <1>5 DEF WorkerReturns, WorkerRaises
<1>6. CASE PollScanEvents
  <2>1. /\ polling' = inProgress /\ events' = <<>>
        /\ UNCHANGED <<inProgress, cancelled, scan, asked>>
    BY <1>6 DEF PollScanEvents
  <2>2. events # <<>> => Last(events).scan = scan
    BY <1>0 DEF ControlInv, Last
  <2>3. inProgress => controls'.running /\ controls'.scan = scan
    <3>1. CASE events = <<>>
      BY <1>0, <1>6, <3>1 DEF PollScanEvents, ControlInv
    <3>2. CASE events # <<>>
      BY <1>6, <2>2, <3>2 DEF PollScanEvents, Shows
    <3>3. QED
      BY <3>1, <3>2
  <2>4. QED
    BY <1>0, <2>1, <2>3 DEF ControlInv
<1>7. CASE PollUiCallbacks
  <2> DEFINE c == Head(callbacks)
  <2>1. /\ callbacks # <<>> /\ UNCHANGED <<cancelled, polling, scan, asked, events>>
        /\ UpdateProgress(c) \/ FinishScan(c) \/ FinishRaises(c) \/ Deliver(c)
    BY <1>7 DEF PollUiCallbacks
  <2>2. c.type = "progress" => c.scan = scan
    BY <1>0, <2>1, Fetched DEF ScanInv
  <2> HIDE DEF c
  <2>3. inProgress' => /\ inProgress
                       /\ controls' = controls \/ (controls'.running /\ controls'.scan = scan)
    BY <2>1, <2>2, Showing DEF UpdateProgress, FinishScan, FinishRaises, Deliver
  <2>4. QED
    BY <1>0, <2>1, <2>3 DEF ControlInv
<1>8. ASSUME NEW a, Load(a)
      PROVE  ControlInv'
  BY <1>1, <1>8 DEF Load
<1>9. ASSUME NEW s, ShowContext(s)
      PROVE  ControlInv'
  BY <1>1, <1>8, <1>9 DEF ShowContext
<1>10. ASSUME NEW r, ReaderDone(r)
       PROVE  ControlInv'
  BY <1>1, <1>10 DEF ReaderDone
<1>11. CASE UNCHANGED sessionVars
  BY <1>1, <1>11 DEF sessionVars
<1>12. QED
  BY <1>2, <1>3, <1>4, <1>5, <1>6, <1>7, <1>8, <1>9, <1>10, <1>11 DEF SessionNext, SelectArtifact

LEMMA EvidenceStep ==
  ASSUME SessionInv, [SessionNext]_sessionVars
  PROVE  EvidenceInv'
<1>0. /\ EvidenceInv /\ generation \in Nat /\ readers \subseteq Texts
      /\ worker # None => worker \in [scan : Nat, kind : Kinds, done : Nat]
      /\ callbacks \in Seq(Scans \cup Texts)
  BY DEF SessionInv, SessionTypeOK
<1> USE DEF scanVars, evidenceVars
<1>1. ASSUME UNCHANGED <<callbacks, evidenceVars>>
      PROVE  EvidenceInv'
  BY <1>0, <1>1 DEF EvidenceInv, Latest
<1>2. ASSUME NEW list \in Seq(Scans \cup Texts), callbacks' = callbacks \o list,
             UNCHANGED <<context, chosen, view, generation, sought>>, readers' \subseteq readers,
             \A k \in DOMAIN list : list[k].type = "evidence" => list[k] \in readers
      PROVE  EvidenceInv'
  <2>1. \A k \in DOMAIN callbacks' : callbacks'[k].type = "evidence" => Latest(callbacks'[k])
    <3>1. SUFFICES ASSUME NEW k \in DOMAIN callbacks', callbacks'[k].type = "evidence"
                   PROVE  Latest(callbacks'[k])
      OBVIOUS
    <3>2. CASE k \in DOMAIN callbacks
      BY <1>0, <1>2, <3>1, <3>2, Posted DEF EvidenceInv
    <3>3. CASE k \notin DOMAIN callbacks
      <4>1. k - Len(callbacks) \in DOMAIN list /\ k \in Nat /\ Len(callbacks) \in Nat
        BY <1>0, <1>2, <3>1, <3>3, Posted
      <4>2. callbacks'[k] = list[k - Len(callbacks)]
        BY <1>0, <1>2, <4>1
      <4>3. QED
        BY <1>0, <1>2, <3>1, <4>1, <4>2 DEF EvidenceInv
    <3>4. QED
      BY <3>2, <3>3
  <2>2. QED
    BY <1>0, <1>2, <2>1 DEF EvidenceInv, Latest
<1>3. CASE WorkerReturns
  <2>1. /\ worker \in [scan : Nat, kind : Kinds, done : Nat] /\ callbacks' = callbacks \o Ending(worker)
        /\ UNCHANGED evidenceVars
    BY <1>0, <1>3 DEF WorkerReturns, Post, Ending
  <2>2. Ending(worker) \in Seq(Scans)
    BY <2>1, EndingIs
  <2>3. Ending(worker) \in Seq(Scans \cup Texts) /\ \A k \in DOMAIN Ending(worker) : Ending(worker)[k].type # "evidence"
    <3>1. \A c \in Scans : c.type # "evidence"
      BY DEF Scans
    <3>2. QED
      BY <2>2, <3>1
  <2>4. QED
    BY <1>2, <2>1, <2>3
<1>4. CASE WorkerRaises
  <2> DEFINE c == Completion(worker.scan, 0, worker.kind = "checklist")
  <2>1. callbacks' = callbacks \o <<c>> /\ UNCHANGED evidenceVars
    BY <1>4 DEF WorkerRaises, Post
  <2>2. c \in Scans /\ c.type = "finish"
    BY <1>0, <1>4 DEF WorkerRaises, Completion, Scans
  <2> HIDE DEF c
  <2>3. <<c>> \in Seq(Scans \cup Texts) /\ \A k \in DOMAIN <<c>> : <<c>>[k].type # "evidence"
    BY <2>2
  <2>4. QED
    BY <1>2, <2>1, <2>3
<1>5. ASSUME NEW r \in readers, ReaderDone(r)
      PROVE  EvidenceInv'
  <2>1. callbacks' = callbacks \o <<r>> /\ readers' \subseteq readers /\ UNCHANGED <<context, chosen, view, generation, sought>>
    BY <1>5 DEF ReaderDone, Post
  <2>2. <<r>> \in Seq(Scans \cup Texts) /\ \A k \in DOMAIN <<r>> : <<r>>[k] \in readers
    BY <1>0
  <2>3. QED
    BY <1>2, <2>1, <2>2
<1>6. CASE PollUiCallbacks
  <2> DEFINE c == Head(callbacks)
  <2>1. /\ callbacks # <<>> /\ callbacks' = Tail(callbacks) /\ UNCHANGED <<context, chosen, generation, readers, sought>>
        /\ UpdateProgress(c) \/ FinishScan(c) \/ FinishRaises(c) \/ Deliver(c)
    BY <1>6 DEF PollUiCallbacks
  <2>2. /\ c.type = "evidence" => Latest(c)
        /\ \A k \in DOMAIN callbacks' : callbacks'[k].type = "evidence" => Latest(callbacks'[k])
    BY <1>0, <2>1, Fetched DEF EvidenceInv
  <2> HIDE DEF c
  <2>3. view' = view \/ (Latest(c) /\ c.generation = generation /\ view' = c.artifact)
    BY <2>1, <2>2 DEF UpdateProgress, FinishScan, FinishRaises, Deliver
  <2>4. QED
    BY <1>0, <2>1, <2>2, <2>3 DEF EvidenceInv, Latest
<1>7. ASSUME NEW a, Load(a), context' # {} => a \in context'
      PROVE  EvidenceInv'
  <2> DEFINE r == [type |-> "evidence", generation |-> generation + 1, artifact |-> a]
  <2>1. /\ generation' = generation + 1 /\ chosen' = a /\ sought' = a /\ view' = None
        /\ readers' = readers \cup {r} /\ callbacks' = callbacks
    BY <1>7 DEF Load
  <2>2. r.generation = generation + 1 /\ r.artifact = a
    OBVIOUS
  <2> HIDE DEF r
  <2>3. \A x \in readers : x.generation \in Nat /\ x.generation <= generation
    BY <1>0 DEF EvidenceInv, Latest, Texts
  <2>4. \A k \in DOMAIN callbacks : callbacks[k].type = "evidence" =>
          callbacks[k].generation \in Nat /\ callbacks[k].generation <= generation
    <3>1. \A k \in DOMAIN callbacks : callbacks[k].type = "evidence" => callbacks[k] \in Texts
      BY <1>0 DEF Scans
    <3>2. QED
      BY <1>0, <3>1 DEF EvidenceInv, Latest, Texts
  <2>5. QED
    BY <1>0, <1>7, <2>1, <2>2, <2>3, <2>4 DEF EvidenceInv, Latest
<1>8. ASSUME NEW s, ShowContext(s)
      PROVE  EvidenceInv'
  <2>1. CASE s = {}
    BY <1>0, <1>8, <2>1 DEF ShowContext, EvidenceInv, Latest
  <2>2. CASE s # {}
    BY <1>7, <1>8, <2>2 DEF ShowContext
  <2>3. QED
    BY <2>1, <2>2
<1>9. ASSUME NEW kind, StartScan(kind) \/ StartFails(kind)
      PROVE  EvidenceInv'
  BY <1>1, <1>9 DEF StartScan, StartFails, BeginScan, Begin
<1>10. CASE CancelScan \/ DeviceDone \/ PollScanEvents \/ UNCHANGED sessionVars
  BY <1>1, <1>10 DEF CancelScan, DeviceDone, PollScanEvents, sessionVars
<1>11. QED
  BY <1>3, <1>4, <1>5, <1>6, <1>7, <1>8, <1>9, <1>10 DEF SessionNext, SelectArtifact

--------------------------------------------------------------------------------
(* The theorems                                                                *)

(* Every reachable state satisfies the inductive invariant: the guards of      *)
(* _begin_scan, the queues of the window and the read counter of the evidence  *)
(* pane keep it, main_window.py:1852-2015.                                     *)
THEOREM SessionInvariance ==
  ASSUME SessionAssumption
  PROVE  SessionSpec => []SessionInv
<1>1. SessionInit => SessionInv
  BY InitSessionInv
<1>2. SessionInv /\ [SessionNext]_sessionVars => SessionInv'
  BY SessionTypeStep, ScanStep, ControlStep, EvidenceStep DEF SessionInv
<1>3. QED
  BY <1>1, <1>2, PTL DEF SessionSpec

(* The flags, queues, threads and controls of the window stay what they are    *)
(* declared to be, main_window.py:265-285.                                     *)
THEOREM SessionTypeCorrect ==
  ASSUME SessionAssumption
  PROVE  SessionSpec => []SessionTypeOK
<1>1. SessionInv => SessionTypeOK
  BY DEF SessionInv
<1>2. QED
  BY <1>1, SessionInvariance, PTL

LEMMA InvFollowsScan ==
  ASSUME SessionInv
  PROVE  WindowFollowsTheScan
<1> DEFINE working == IF worker = None THEN {} ELSE {worker.scan}
           ending  == {k \in DOMAIN callbacks : callbacks[k].type = "finish"}
           ended   == {callbacks[k].scan : k \in ending}
<1>0. ScanInv /\ ControlInv
  BY DEF SessionInv
<1>1. CASE worker # None
  <2>1. ending = {} /\ working = {scan} /\ inProgress /\ ~ stranded
    BY <1>0, <1>1 DEF ScanInv, Ends
  <2>2. Cardinality(working) + Cardinality(ending) = 1
    <3>1. Cardinality(ending) = 0 /\ Cardinality({scan}) = 1
      BY <2>1, FS_EmptySet, FS_Singleton
    <3> HIDE DEF working, ending
    <3>2. QED
      BY <2>1, <3>1
  <2>3. working \cup ended = {scan}
    BY <2>1
  <2>4. QED
    BY <1>0, <2>1, <2>2, <2>3 DEF WindowFollowsTheScan, ControlInv
<1>2. CASE worker = None /\ inProgress /\ ~ stranded
  <2>1. PICK k \in DOMAIN callbacks : Ends(k)
    BY <1>0, <1>2 DEF ScanInv
  <2>2. ending = {k} /\ callbacks[k].scan = scan /\ working = {}
    BY <1>0, <1>2, <2>1 DEF ScanInv, Ends
  <2>3. Cardinality(working) + Cardinality(ending) = 1
    <3>1. Cardinality(working) = 0 /\ Cardinality({k}) = 1
      BY <2>2, FS_EmptySet, FS_Singleton
    <3> HIDE DEF working, ending
    <3>2. QED
      BY <2>2, <3>1
  <2>4. working \cup ended = {scan}
    BY <2>2
  <2>5. QED
    BY <1>0, <1>2, <2>3, <2>4 DEF WindowFollowsTheScan, ControlInv
<1>3. CASE ~ inProgress
  <2>1. ending = {} /\ working = {}
    BY <1>0, <1>3 DEF ScanInv, Ends
  <2>2. Cardinality(working) + Cardinality(ending) = 0
    BY <2>1, FS_EmptySet
  <2>3. QED
    BY <1>0, <1>3, <2>2 DEF WindowFollowsTheScan, ControlInv, ScanInv
<1>4. CASE stranded
  <2>1. ending = {} /\ working = {} /\ inProgress
    BY <1>0, <1>4 DEF ScanInv, Ends
  <2>2. Cardinality(working) + Cardinality(ending) = 0
    BY <2>1, FS_EmptySet
  <2>3. QED
    BY <1>0, <1>4, <2>1, <2>2 DEF WindowFollowsTheScan, ControlInv
<1>5. QED
  BY <1>1, <1>2, <1>3, <1>4

(* The window is busy exactly while one scan works, its completion is on the   *)
(* way, or after a completion or the start of an import has raised; it shows   *)
(* and cancels that scan, for any number of scans and devices:                 *)
(* main_window.py:462-477, :1088-1093, :1852-1876, :1930-2015.                 *)
THEOREM WindowNeverDriftsFromItsScan ==
  ASSUME SessionAssumption
  PROVE  SessionSpec => []WindowFollowsTheScan
<1>1. SessionInv => WindowFollowsTheScan
  BY InvFollowsScan
<1>2. QED
  BY <1>1, SessionInvariance, PTL

(* Whatever the readers' order, the evidence shown is of the artifact looked   *)
(* for last, which is the one selected while the pane lists any:               *)
(* main_window.py:1095-1122, evidence_tab.py:88-142.                           *)
THEOREM ReadersNeverCross ==
  ASSUME SessionAssumption
  PROVE  SessionSpec => []ReadersDoNotCross
<1>1. SessionInv => ReadersDoNotCross
  BY DEF SessionInv, EvidenceInv, ReadersDoNotCross
<1>2. QED
  BY <1>1, SessionInvariance, PTL

--------------------------------------------------------------------------------
(* THE STIG LIBRARY.  The inductive invariant.                                 *)

Jobs      == {"none", "fetch", "metadata", "store", "compare", "refresh", "starters"}
Importing == {"fetch", "metadata", "store", "compare"}

(* Types of what is stored and of the job.                                     *)
LibraryTypeOK ==
  /\ releases \in Seq(Packages) /\ queue \in Seq(Packages)
  /\ cached \in [FamiliesOf -> Packages \cup {None, Torn}]
  /\ shown \subseteq Packages \cup {Torn}
  /\ done \subseteq Packages /\ reported \subseteq Packages
  /\ DOMAIN files = {Main, Generated}
  /\ job \in Jobs /\ up \in BOOLEAN

(* A release is stored once, and before it is compared; what a job has stored  *)
(* keeps the difference to its predecessor.                                    *)
Installed(p) == p \in ToSet(releases) /\ p \in DOMAIN differences /\ differences[p] = Predecessor(p)
ImportInv ==
  /\ job \in Importing => queue # <<>>
  /\ job = "compare" => Head(queue) \in ToSet(releases)
  /\ \A j, k \in DOMAIN releases : releases[j] = releases[k] => j = k
  /\ \A p \in done \cup reported : Installed(p)

(* The window never shows metadata cut off in the middle.                      *)
ShownInv == Torn \notin shown

(* A check of a library that says it was reviewed is an operator's.            *)
FilesInv ==
  \A f \in DOMAIN files : files[f] \notin {None, Torn} =>
    \A c \in files[f] : c.seen = None \/ \E l \in Libraries : c \in l

(* A mapping is a record, and says that a text was reviewed because an operator *)
(* did for this rule, or because a check that matches the rule does.           *)
MappingColumns == {"check", "file", "in", "vuln", "reviewed"}
Vouched(m) ==
  /\ DOMAIN m = MappingColumns
  /\ \E q \in m.in.rules :
       /\ q.vuln = m.vuln
       /\ \/ m.reviewed = None
          \/ <<m.in, m.vuln, m.reviewed>> \in decisions
          \/ \E l \in Libraries : \E c \in l : CheckMatchesRule(c, q) /\ c.seen = m.reviewed
ReviewInv == \A m \in mappings : Vouched(m)

LibraryInv == LibraryTypeOK /\ ImportInv /\ ShownInv /\ FilesInv /\ ReviewInv

--------------------------------------------------------------------------------
(* A set of positions has a last one; the predecessor of a stored release does *)
(* not change when another one is stored.                                      *)

LEMMA LastOne ==
  ASSUME NEW n \in Nat, NEW S \in SUBSET (1 .. n), S # {}
  PROVE  \E k \in S : \A j \in S : j <= k
<1> DEFINE R == OpToRel(<, Nat)
           T == {y \in Nat : n - y \in S}
<1>1. T \subseteq Nat /\ T # {}
  <2>1. PICK k \in S : TRUE
    OBVIOUS
  <2>2. n - (n - k) = k /\ n - k \in Nat
    BY <2>1
  <2> HIDE DEF R
  <2>3. n - k \in T
    BY <2>2
  <2>4. QED
    BY <2>3
<1>2. IsWellFoundedOn(R, Nat)
  BY NatLessThanWellFounded
<1>3. PICK x \in T : \A y \in T : ~ (<<y, x>> \in R)
  <2> HIDE DEF T, R
  <2>1. QED
    BY <1>1, <1>2, WFMin, Zenon
<1>4. ASSUME NEW y \in T, y < x
      PROVE  FALSE
  <2>1. <<y, x>> \in R
    BY <1>1, <1>3, <1>4, Zenon DEF OpToRel
  <2>2. QED
    BY <1>3, <2>1, Zenon
<1> HIDE DEF R
<1>5. n - x \in S
  OBVIOUS
<1>6. ASSUME NEW j \in S
      PROVE  j <= n - x
  <2>1. n - j \in Nat /\ n - (n - j) = j
    OBVIOUS
  <2>2. n - j \in T
    BY <2>1
  <2>3. ~ (n - j < x)
    <3> HIDE DEF T
    <3>1. QED
      BY <1>4, <2>2
  <2>4. x \in Nat
    OBVIOUS
  <2>5. QED
    BY <2>1, <2>3, <2>4
<1>7. QED
  BY <1>5, <1>6

LEMMA PredecessorStays ==
  ASSUME LibraryTypeOK, ImportInv, NEW new \in Packages, new \notin ToSet(releases),
         releases' = Append(releases, new), NEW p \in ToSet(releases)
  PROVE  p \in ToSet(releases') /\ Predecessor(p)' = Predecessor(p)
<1> DEFINE n == Len(releases)
           Top(S)  == CHOOSE k \in S : \A j \in S : j <= k
           Before  == {k \in DOMAIN releases : releases[k].family = p.family /\ k < Position(p)}
           Before1 == {k \in DOMAIN releases' : releases'[k].family = p.family /\ k < Position(p)'}
<1>1. /\ n \in Nat /\ DOMAIN releases = 1 .. n /\ DOMAIN releases' = 1 .. n + 1
      /\ \A k \in 1 .. n : releases'[k] = releases[k]
      /\ releases'[n + 1] = new
  BY DEF LibraryTypeOK
<1>2. PICK at \in 1 .. n : releases[at] = p
  BY <1>1 DEF ToSet
<1>3. Position(p) = at
  <2>1. \A k \in DOMAIN releases : releases[k] = p => k = at
    BY <1>1, <1>2 DEF ImportInv
  <2>2. QED
    BY <1>1, <1>2, <2>1 DEF Position
<1>4. Position(p)' = at
  <2>1. \A k \in DOMAIN releases' : releases'[k] = p => k = at
    <3>1. releases'[n + 1] # p
      BY <1>1
    <3>2. \A k \in 1 .. n : releases[k] = p => k = at
      BY <1>1, <1>2 DEF ImportInv
    <3>3. QED
      BY <1>1, <3>1, <3>2
  <2>2. at \in DOMAIN releases' /\ releases'[at] = p
    BY <1>1, <1>2
  <2>3. QED
    BY <2>1, <2>2 DEF Position
<1>5. Before1 = Before
  BY <1>1, <1>3, <1>4
<1>6. Before # {} => Top(Before) \in 1 .. n
  <2>1. Before \in SUBSET (1 .. n)
    BY <1>1
  <2> HIDE DEF Before
  <2>2. QED
    BY <1>1, <2>1, LastOne
<1>7. Predecessor(p) = IF Before = {} THEN None ELSE releases[Top(Before)]
  BY Zenon DEF Predecessor
<1>8. Predecessor(p)' = IF Before1 = {} THEN None ELSE releases'[Top(Before1)]
  BY Zenon DEF Predecessor
<1>9. p \in ToSet(releases')
  BY <1>1, <1>2 DEF ToSet
<1> HIDE DEF Before, Before1, Top
<1>10. QED
  BY <1>1, <1>5, <1>6, <1>7, <1>8, <1>9

--------------------------------------------------------------------------------
(* The invariant holds initially and is preserved by every step.               *)

LEMMA LibraryStart ==
  ASSUME LibraryAssumption, LibraryInit
  PROVE  LibraryInv
<1> USE DEF LibraryInit
<1>1. LibraryTypeOK
  BY DEF LibraryTypeOK, Jobs
<1>2. ImportInv /\ ShownInv /\ ReviewInv
  BY DEF ImportInv, Importing, ShownInv, ReviewInv
<1>3. FilesInv
  BY DEF FilesInv, Main, Generated
<1>4. QED
  BY <1>1, <1>2, <1>3 DEF LibraryInv

\* The package a job is at.
LEMMA HeadOfQueue ==
  ASSUME LibraryAssumption, LibraryTypeOK, ImportInv, job \in Importing
  PROVE  /\ Head(queue) \in Packages /\ Head(queue).family \in FamiliesOf
         /\ Tail(queue) \in Seq(Packages)
<1>1. queue \in Seq(Packages) /\ queue # <<>>
  BY DEF LibraryTypeOK, ImportInv
<1>2. Head(queue) \in Packages /\ Tail(queue) \in Seq(Packages)
  BY <1>1, HeadTailProperties
<1>3. QED
  BY <1>2 DEF FamiliesOf

LEMMA LibraryTypeStep ==
  ASSUME LibraryAssumption, LibraryTypeOK, ImportInv, [LibraryNext]_libraryVars
  PROVE  LibraryTypeOK'
<1> USE DEF LibraryTypeOK
<1>1. CASE UNCHANGED libraryVars
  BY <1>1 DEF libraryVars
<1>2. CASE RequestImport
  <2>1. queue' \in Seq(Packages)
    BY <1>2 DEF RequestImport, LibraryAssumption
  <2>2. QED
    BY <1>2, <2>1 DEF RequestImport, Press, Stored, Windows, Histories, Jobs
<1>3. CASE FetchSource \/ WriteMetadata
  <2>1. Head(queue) \in Packages /\ Head(queue).family \in FamiliesOf
    BY <1>3, HeadOfQueue DEF FetchSource, WriteMetadata, Importing
  <2>2. cached' \in [FamiliesOf -> Packages \cup {None, Torn}]
    BY <1>3, <2>1 DEF FetchSource, WriteMetadata
  <2>3. QED
    BY <1>3, <2>2 DEF FetchSource, WriteMetadata, Stored, Windows, Histories, Jobs
<1>4. CASE AddBenchmark
  <2>1. Head(queue) \in Packages
    BY <1>4, HeadOfQueue DEF AddBenchmark, Importing
  <2>2. releases' \in Seq(Packages)
    BY <1>4, <2>1 DEF AddBenchmark
  <2>3. QED
    BY <1>4, <2>2 DEF AddBenchmark, Windows, Histories, Jobs
<1>5. CASE SaveDifference
  <2>1. Head(queue) \in Packages /\ Tail(queue) \in Seq(Packages)
    BY <1>5, HeadOfQueue DEF SaveDifference, Importing
  <2>2. queue' \in Seq(Packages) /\ done' \subseteq Packages /\ job' \in Jobs
    BY <1>5, <2>1 DEF SaveDifference, Jobs
  <2>3. QED
    BY <1>5, <2>2 DEF SaveDifference, Windows, Histories
<1>6. CASE ReportImport
  BY <1>6 DEF ReportImport, Stored, Cached, Jobs
<1>7. CASE ShowCoverage \/ MarkReviewed
  BY <1>7 DEF ShowCoverage, MarkReviewed, Press, Windows, Tasks, Histories
<1>8. CASE GenerateMissing \/ BuildStarters \/ WriteStarters \/ SaveChecks
  <2>1. DOMAIN files' = {Main, Generated}
    BY <1>8 DEF GenerateMissing, BuildStarters, WriteStarters, SaveChecks, Replaces
  <2>2. shown' \subseteq Packages \cup {Torn}
    BY <1>8 DEF GenerateMissing, BuildStarters, WriteStarters, SaveChecks, Cached
  <2>3. QED
    BY <1>8, <2>1, <2>2 DEF GenerateMissing, BuildStarters, WriteStarters, SaveChecks, Press, Stored, Tasks, Histories, Jobs
<1>9. CASE StepRaises \/ WindowEnds \/ OpenWindow
  <2>1. shown' \subseteq Packages \cup {Torn}
    BY <1>9 DEF StepRaises, WindowEnds, OpenWindow, Windows, Cached
  <2>2. <<>> \in Seq(Packages)
    OBVIOUS
  <2>3. CASE StepRaises \/ WindowEnds
    BY <2>1, <2>2, <2>3 DEF StepRaises, WindowEnds, Stored, Windows, Histories, Jobs
  <2>4. CASE OpenWindow
    BY <2>1, <2>4 DEF OpenWindow, Stored, Tasks, Histories
  <2>5. QED
    BY <1>9, <2>3, <2>4
<1>10. QED
  BY <1>1, <1>2, <1>3, <1>4, <1>5, <1>6, <1>7, <1>8, <1>9 DEF LibraryNext

LEMMA ImportStep ==
  ASSUME LibraryAssumption, LibraryTypeOK, ImportInv, [LibraryNext]_libraryVars
  PROVE  ImportInv'
<1> USE DEF ImportInv, Importing
<1>1. CASE /\ UNCHANGED <<releases, differences>> /\ done' \cup reported' \subseteq done \cup reported
           /\ job' \in Importing => queue' # <<>>
           /\ job' # "compare"
  BY <1>1 DEF Installed, Predecessor, Position
<1>2. CASE UNCHANGED <<releases, differences, queue, done, reported, job>>
  <2>1. \A p : Installed(p)' = Installed(p)
    BY <1>2 DEF Installed, Predecessor, Position
  <2>2. QED
    BY <1>2, <2>1
<1>3. CASE RequestImport
  <2>1. queue' # <<>>
    BY <1>3 DEF RequestImport, LibraryAssumption
  <2>2. QED
    BY <1>1, <1>3, <2>1 DEF RequestImport, Stored, Histories
<1>4. CASE FetchSource \/ WriteMetadata
  BY <1>1, <1>4 DEF FetchSource, WriteMetadata, Stored, Histories
<1>5. CASE AddBenchmark
  <2>1. Head(queue) \in Packages /\ releases \in Seq(Packages)
    BY <1>5, HeadOfQueue DEF AddBenchmark, LibraryTypeOK
  <2>2. CASE Head(queue) \in ToSet(releases)
    BY <1>5, <2>2 DEF AddBenchmark, Histories, Installed, Predecessor, Position
  <2>3. CASE Head(queue) \notin ToSet(releases)
    <3>1. releases' = Append(releases, Head(queue))
      BY <1>5, <2>3 DEF AddBenchmark
    <3>2. \A p \in ToSet(releases) : p \in ToSet(releases') /\ Predecessor(p)' = Predecessor(p)
      BY <2>1, <2>3, <3>1, PredecessorStays
    <3>3. \A p \in done \cup reported : Installed(p)'
      BY <1>5, <3>2 DEF AddBenchmark, Histories, Installed
    <3>4. Head(queue) \in ToSet(releases')
      BY <2>1, <3>1 DEF ToSet
    <3>5. \A j, k \in DOMAIN releases' : releases'[j] = releases'[k] => j = k
      <4>1. \A k \in DOMAIN releases : releases[k] # Head(queue)
        BY <2>3 DEF ToSet
      <4>2. QED
        BY <2>1, <3>1, <4>1
    <3>6. UNCHANGED <<queue, done, reported>> /\ queue # <<>>
      BY <1>5 DEF AddBenchmark, Histories
    <3>7. QED
      BY <3>3, <3>4, <3>5, <3>6
  <2>4. QED
    BY <2>2, <2>3
<1>6. CASE SaveDifference
  <2> DEFINE new == Head(queue)
  <2>1. /\ new \in ToSet(releases) /\ UNCHANGED <<releases, reported>> /\ done' = done \cup {new}
        /\ differences' = [q \in DOMAIN differences \cup {new} |-> IF q = new THEN Predecessor(new) ELSE differences[q]]
        /\ queue' = Tail(queue) /\ job' = IF Tail(queue) = <<>> THEN "refresh" ELSE "fetch"
    BY <1>6 DEF SaveDifference, Histories
  <2>2. \A p : Predecessor(p)' = Predecessor(p)
    BY <2>1 DEF Predecessor, Position
  <2> HIDE DEF new
  <2>3. \A p \in done' \cup reported' : Installed(p)'
    BY <2>1, <2>2 DEF Installed
  <2>4. QED
    BY <2>1, <2>3
<1>7. CASE ReportImport
  BY <1>1, <1>7 DEF ReportImport, Stored
<1>8. CASE ShowCoverage \/ MarkReviewed
  <2>1. /\ UNCHANGED <<releases, differences, queue, done, reported>> /\ job = "none" /\ job' = job
    BY <1>8 DEF ShowCoverage, MarkReviewed, Press, Tasks, Histories
  <2>2. QED
    BY <1>1, <2>1
<1>9. CASE GenerateMissing \/ BuildStarters \/ WriteStarters \/ SaveChecks
  <2>1. /\ UNCHANGED <<releases, differences, queue, done, reported>> /\ job' \in {"none", "starters"}
    BY <1>9 DEF GenerateMissing, BuildStarters, WriteStarters, SaveChecks, Press, Stored, Tasks, Histories
  <2>2. QED
    BY <1>1, <2>1
<1>10. CASE StepRaises \/ WindowEnds
  BY <1>1, <1>10 DEF StepRaises, WindowEnds, Stored, Histories
<1>11. CASE OpenWindow \/ UNCHANGED libraryVars
  BY <1>2, <1>11 DEF OpenWindow, Stored, Tasks, Histories, libraryVars
<1>12. QED
  BY <1>3, <1>4, <1>5, <1>6, <1>7, <1>8, <1>9, <1>10, <1>11 DEF LibraryNext

LEMMA ShownStep ==
  ASSUME LibraryAssumption, ShownInv, [LibraryNext]_libraryVars
  PROVE  ShownInv'
<1> USE DEF ShownInv
<1>1. CASE UNCHANGED shown
  BY <1>1
<1>2. CASE Torn \notin Cached /\ shown' = Cached
  BY <1>2
<1>3. CASE shown' = {}
  BY <1>3
<1>4. CASE ReportImport \/ BuildStarters \/ OpenWindow
  BY <1>2, <1>4 DEF ReportImport, BuildStarters, OpenWindow
<1>5. CASE WindowEnds
  BY <1>3, <1>5 DEF WindowEnds
<1>6. CASE RequestImport \/ FetchSource \/ WriteMetadata \/ AddBenchmark \/ SaveDifference \/ StepRaises
  BY <1>1, <1>6 DEF RequestImport, FetchSource, WriteMetadata, AddBenchmark, SaveDifference, StepRaises, Windows
<1>7. CASE ShowCoverage \/ MarkReviewed \/ GenerateMissing \/ WriteStarters \/ SaveChecks
  BY <1>1, <1>7 DEF ShowCoverage, MarkReviewed, GenerateMissing, WriteStarters, SaveChecks, Windows
<1>8. CASE UNCHANGED libraryVars
  BY <1>1, <1>8 DEF libraryVars
<1>9. QED
  BY <1>4, <1>5, <1>6, <1>7, <1>8 DEF LibraryNext

\* What an operator writes is one of the libraries; a starter says nothing of a review.
LEMMA FilesStep ==
  ASSUME LibraryAssumption, LibraryTypeOK, FilesInv, [LibraryNext]_libraryVars
  PROVE  FilesInv'
<1> DEFINE Honest(S) == S \notin {None, Torn} => \A c \in S : c.seen = None \/ \E l \in Libraries : c \in l
<1>1. FilesInv <=> \A f \in {Main, Generated} : Honest(files[f])
  BY DEF FilesInv, LibraryTypeOK
<1>2. ASSUME NEW f \in {Main, Generated}, NEW S, files' = [files EXCEPT ![f] = S], Honest(S)
      PROVE  FilesInv'
  <2>1. DOMAIN files' = {Main, Generated} /\ files'[f] = S /\ \A g \in {Main, Generated} : g # f => files'[g] = files[g]
    BY <1>2 DEF LibraryTypeOK
  <2> HIDE DEF Honest
  <2>2. \A g \in {Main, Generated} : Honest(files'[g])
    BY <1>1, <1>2, <2>1
  <2>3. QED
    BY <2>1, <2>2 DEF FilesInv, Honest
<1>3. \A rules : Honest(Starters(rules))
  BY DEF Starters
<1>4. CASE UNCHANGED files
  BY <1>4 DEF FilesInv
<1>5. CASE GenerateMissing
  <2> HIDE DEF Honest
  <2>1. PICK release \in ToSet(releases) : files' = [files EXCEPT ![Generated] = Starters(release.rules)]
    BY <1>5 DEF GenerateMissing, Replaces
  <2>2. QED
    BY <1>2, <1>3, <2>1, Zenon
<1>6. CASE BuildStarters
  <2>1. files' = [files EXCEPT ![Generated] = Torn]
    BY <1>6 DEF BuildStarters
  <2>2. Honest(Torn)
    OBVIOUS
  <2> HIDE DEF Honest
  <2>3. QED
    BY <1>2, <2>1, <2>2, Zenon
<1>7. CASE WriteStarters
  <2> HIDE DEF Honest
  <2>1. files' = [files EXCEPT ![Generated] = Starters(UNION {p.rules : p \in shown})]
    BY <1>7 DEF WriteStarters, Replaces
  <2>2. QED
    BY <1>2, <1>3, <2>1, Zenon
<1>8. CASE SaveChecks
  <2>1. PICK f \in Present(files), l \in Libraries : files' = [files EXCEPT ![f] = l]
    BY <1>8 DEF SaveChecks, Replaces
  <2>2. f \in {Main, Generated}
    BY DEF Present, LibraryTypeOK
  <2>3. Honest(l)
    OBVIOUS
  <2> HIDE DEF Honest
  <2>4. QED
    BY <1>2, <2>1, <2>2, <2>3, Zenon
<1>9. CASE \/ RequestImport \/ FetchSource \/ WriteMetadata \/ AddBenchmark \/ SaveDifference \/ ReportImport
           \/ ShowCoverage \/ MarkReviewed \/ StepRaises \/ WindowEnds \/ OpenWindow \/ UNCHANGED libraryVars
  BY <1>4, <1>9 DEF RequestImport, FetchSource, WriteMetadata, AddBenchmark, SaveDifference, ReportImport,
       ShowCoverage, MarkReviewed, StepRaises, WindowEnds, OpenWindow, libraryVars
<1>10. QED
  BY <1>5, <1>6, <1>7, <1>8, <1>9 DEF LibraryNext

\* A mapping that is synchronised says what its check says, of a rule it matches.
LEMMA SynchronizedIsVouched ==
  ASSUME LibraryTypeOK, FilesInv, ReviewInv, Readable(files), NEW release
  PROVE  \A m \in Synchronized(release) : Vouched(m)
<1> SUFFICES ASSUME NEW m \in Synchronized(release), m \notin mappings
             PROVE  Vouched(m)
  BY DEF ReviewInv
<1>1. PICK a \in AllChecks(files) : \E r \in Unmapped(a, release) :
        m = [check |-> a.check.vuln, file |-> a.file, in |-> release, vuln |-> r.vuln, reviewed |-> a.check.seen]
  BY DEF Synchronized
<1>2. PICK r \in Unmapped(a, release) :
        m = [check |-> a.check.vuln, file |-> a.file, in |-> release, vuln |-> r.vuln, reviewed |-> a.check.seen]
  BY <1>1
<1>3. r \in release.rules /\ CheckMatchesRule(a.check, r)
  BY DEF Unmapped
<1>4. PICK f \in Present(files) : \E c \in files[f] : a = [check |-> c, file |-> f]
  BY DEF AllChecks
<1>5. PICK c \in files[f] : a = [check |-> c, file |-> f]
  BY <1>4
<1>6. files[f] \notin {None, Torn}
  BY DEF Present, Readable
<1>7. c.seen = None \/ \E l \in Libraries : c \in l
  BY <1>6 DEF FilesInv, Present
<1>8. /\ DOMAIN m = MappingColumns
      /\ m.in = release /\ m.vuln = r.vuln /\ m.reviewed = c.seen /\ a.check = c
  BY <1>2, <1>5 DEF MappingColumns
<1>9. QED
  BY <1>3, <1>7, <1>8 DEF Vouched

LEMMA ReviewStep ==
  ASSUME LibraryAssumption, LibraryTypeOK, FilesInv, ReviewInv, [LibraryNext]_libraryVars
  PROVE  ReviewInv'
<1>1. ASSUME decisions \subseteq decisions', NEW m, Vouched(m)
      PROVE  Vouched(m)'
  BY <1>1 DEF Vouched
<1>2. CASE UNCHANGED <<mappings, decisions>>
  BY <1>2 DEF ReviewInv, Vouched
<1>3. CASE ShowCoverage
  <2>1. PICK release \in ToSet(releases) : mappings' = Synchronized(release)
    BY <1>3 DEF ShowCoverage
  <2>2. Readable(files) /\ decisions' = decisions
    BY <1>3 DEF ShowCoverage, Histories
  <2>3. \A m \in mappings' : Vouched(m)
    BY <2>1, <2>2, SynchronizedIsVouched
  <2>4. QED
    BY <1>1, <2>2, <2>3 DEF ReviewInv
<1>4. CASE MarkReviewed
  <2> DEFINE Its(known, release, r) == {m \in known : m.check = r.vuln /\ m.in = release /\ m.vuln = r.vuln}
  <2>1. PICK release \in ToSet(releases) : \E r \in release.rules :
          LET known == Synchronized(release)
              its   == Its(known, release, r)
          IN  \/ /\ mappings' = (known \ its) \cup {[m EXCEPT !.reviewed = r.print] : m \in its}
                 /\ decisions' = decisions \cup {<<release, r.vuln, r.print>>}
              \/ mappings' = known /\ decisions' = decisions
    BY <1>4 DEF MarkReviewed
  <2>2. PICK r \in release.rules :
          LET known == Synchronized(release)
              its   == Its(known, release, r)
          IN  \/ /\ mappings' = (known \ its) \cup {[m EXCEPT !.reviewed = r.print] : m \in its}
                 /\ decisions' = decisions \cup {<<release, r.vuln, r.print>>}
              \/ mappings' = known /\ decisions' = decisions
    BY <2>1
  <2> DEFINE known == Synchronized(release)
  <2>3. decisions \subseteq decisions'
    BY <2>2
  <2>4. \A m \in known : Vouched(m)
    BY <1>4, SynchronizedIsVouched DEF MarkReviewed
  <2> HIDE DEF known
  <2>5. \A m \in known : Vouched(m)'
    BY <1>1, <2>3, <2>4
  <2>6. ASSUME NEW m \in Its(known, release, r), <<release, r.vuln, r.print>> \in decisions'
        PROVE  Vouched([m EXCEPT !.reviewed = r.print])'
    <3> DEFINE n == [m EXCEPT !.reviewed = r.print]
    <3>1. DOMAIN m = MappingColumns /\ m.in = release /\ m.vuln = r.vuln
      BY <2>4, <2>6 DEF Vouched
    <3>2. DOMAIN n = MappingColumns /\ n.in = release /\ n.vuln = r.vuln /\ n.reviewed = r.print
      BY <3>1 DEF MappingColumns
    <3> HIDE DEF n
    <3>3. Vouched(n)'
      BY <2>6, <3>2 DEF Vouched
    <3>4. QED
      BY <3>3 DEF n
  <2>7. \A m \in mappings' : \/ m \in known
                            \/ /\ <<release, r.vuln, r.print>> \in decisions'
                               /\ \E k \in Its(known, release, r) : m = [k EXCEPT !.reviewed = r.print]
    BY <2>2 DEF known
  <2> HIDE DEF Its
  <2>8. QED
    BY <2>5, <2>6, <2>7 DEF ReviewInv
<1>5. CASE GenerateMissing \/ BuildStarters \/ WriteStarters \/ SaveChecks
  BY <1>2, <1>5 DEF GenerateMissing, BuildStarters, WriteStarters, SaveChecks, Stored, Histories
<1>6. CASE \/ RequestImport \/ FetchSource \/ WriteMetadata \/ AddBenchmark \/ SaveDifference \/ ReportImport
           \/ StepRaises \/ WindowEnds \/ OpenWindow \/ UNCHANGED libraryVars
  BY <1>2, <1>6 DEF RequestImport, FetchSource, WriteMetadata, AddBenchmark, SaveDifference, ReportImport,
       StepRaises, WindowEnds, OpenWindow, Stored, Histories, libraryVars
<1>7. QED
  BY <1>3, <1>4, <1>5, <1>6 DEF LibraryNext

(* Every reachable state of the library satisfies the invariant, whatever      *)
(* failed or ended on the way (stig_repository.py:94-310,                      *)
(* source_manager.py:86-155, :413, main_window.py:1521-1605).                  *)
THEOREM LibraryInvariance ==
  ASSUME LibraryAssumption
  PROVE  LibrarySpec => []LibraryInv
<1>1. LibraryInit => LibraryInv
  BY LibraryStart
<1>2. LibraryInv /\ [LibraryNext]_libraryVars => LibraryInv'
  BY LibraryTypeStep, ImportStep, ShownStep, FilesStep, ReviewStep DEF LibraryInv
<1>3. QED
  BY <1>1, <1>2, PTL DEF LibrarySpec

--------------------------------------------------------------------------------
(* For every set of packages, of buttons and of libraries an operator may      *)
(* write, and however often a step raises or the process ends: what the        *)
(* operator was told is imported is stored with the difference to the release  *)
(* before it, and metadata cut off is never shown (main_window.py:1521-1605,   *)
(* source_manager.py:129-155, stig_repository.py:94-121).                      *)
THEOREM ImportsStayInstalled ==
  ASSUME LibraryAssumption
  PROVE  LibrarySpec => []ImportsAreInstalled
<1>1. LibraryInv => ImportsAreInstalled
  BY DEF LibraryInv, ImportInv, Installed, ShownInv, ImportsAreInstalled
<1>2. QED
  BY <1>1, LibraryInvariance, PTL

(* For all of them: the coverage of a release counts as reviewed no rule whose *)
(* text nobody said was reviewed (stig_repository.py:178-310,                  *)
(* main_window.py:1640-1664).                                                  *)
LEMMA CountedAreReviewed ==
  ASSUME LibraryAssumption, LibraryInv
  PROVE  ReviewsAreOfThisText
<1> DEFINE said(release, r) ==
      \/ <<release, r.vuln, r.print>> \in decisions
      \/ \E l \in Libraries : \E c \in l : CheckMatchesRule(c, r) /\ c.seen = r.print
<1> SUFFICES ASSUME Readable(files), NEW release \in ToSet(releases)
             PROVE  CurrentReviewed(Synchronized(release), release)
                      <= Cardinality({r \in Automated(release) : said(release, r)})
  BY DEF ReviewsAreOfThisText
<1> DEFINE known   == Synchronized(release)
           auto    == Automated(release)
           stale   == StaleRules(known, release)
           current == {r \in auto : ReviewedCurrent(known, release, r)}
           fresh   == {r \in auto : said(release, r)}
<1>1. release \in Packages
  BY DEF LibraryInv, LibraryTypeOK, ToSet
<1>2. IsFiniteSet(release.rules) /\ auto \subseteq release.rules /\ stale \subseteq release.rules
  BY <1>1 DEF LibraryAssumption, Automated, StaleRules
<1>3. \A m \in known : Vouched(m)
  BY SynchronizedIsVouched DEF LibraryInv
<1> HIDE DEF known
<1>4. current \subseteq fresh
  <2> SUFFICES ASSUME NEW r \in current PROVE said(release, r)
    OBVIOUS
  <2>1. r \in release.rules
    BY <1>2
  <2>2. PICK m \in known : m.in = release /\ m.vuln = r.vuln /\ m.reviewed = r.print
    BY DEF ReviewedCurrent
  <2>3. PICK q \in release.rules :
          /\ q.vuln = r.vuln
          /\ \/ r.print = None
             \/ <<release, r.vuln, r.print>> \in decisions
             \/ \E l \in Libraries : \E c \in l : CheckMatchesRule(c, q) /\ c.seen = r.print
    BY <1>3, <2>2 DEF Vouched
  <2>4. q = r /\ r.print # None
    BY <1>1, <2>1, <2>3 DEF LibraryAssumption
  <2>5. QED
    BY <2>3, <2>4
<1>5. auto \ current \subseteq stale
  BY DEF StaleRules
<1> HIDE DEF auto, stale, fresh, said
<1>6. /\ IsFiniteSet(auto) /\ IsFiniteSet(stale) /\ Cardinality(auto) \in Nat /\ Cardinality(stale) \in Nat
  BY <1>2, FS_Subset, FS_CardinalityType
<1>7. current \subseteq auto /\ fresh \subseteq auto
  BY DEF fresh
<1> HIDE DEF current
<1>8. Cardinality(auto \ current) <= Cardinality(stale)
  BY <1>5, <1>6, FS_Subset
<1>9. Cardinality(current) <= Cardinality(fresh) /\ Cardinality(current) \in Nat /\ Cardinality(fresh) \in Nat
  BY <1>4, <1>6, <1>7, FS_Subset, FS_CardinalityType
<1>10. Cardinality(auto \ current) = Cardinality(auto) - Cardinality(current)
  <2>1. auto \cap current = current /\ IsFiniteSet(current)
    BY <1>6, <1>7, FS_Subset
  <2>2. QED
    BY <1>6, <2>1, FS_Difference
<1>11. CurrentReviewed(known, release) =
         IF Cardinality(auto) - Cardinality(stale) < 0 THEN 0 ELSE Cardinality(auto) - Cardinality(stale)
  BY DEF CurrentReviewed, auto, stale
<1>12. CurrentReviewed(known, release) <= Cardinality(fresh)
  BY <1>6, <1>8, <1>9, <1>10, <1>11
<1>13. QED
  BY <1>12 DEF known, fresh, auto

(* So no state shows a coverage above what was said to be reviewed             *)
(* (stig_repository.py:178-310, main_window.py:1640-1664).                     *)
THEOREM CoverageIsOfReviewedText ==
  ASSUME LibraryAssumption
  PROVE  LibrarySpec => []ReviewsAreOfThisText
<1>1. LibraryInv => ReviewsAreOfThisText
  BY CountedAreReviewed
<1>2. QED
  BY <1>1, LibraryInvariance, PTL

--------------------------------------------------------------------------------
(* THE TARGET TABLE.  The inductive invariant.                                 *)

Settings == [checked : BOOLEAN, profile : Profiles \cup {None}]
Records  == [ip : Hosts, checked : BOOLEAN, profile : Profiles \cup {None}]

\* A list of targets with every address once.
Distinct(rows) ==
  /\ rows \in Seq(Records)
  /\ \A j, k \in DOMAIN rows : rows[j].ip = rows[k].ip => j = k

(* Types: every list of targets there is, in the table or in a group, has each *)
(* address once; there is a row of widgets for each target, and a selected row *)
(* when there is any.                                                          *)
TableTypeOK ==
  /\ Distinct(targets)
  /\ widgets \in Seq(Settings) /\ Len(widgets) = Len(targets)
  /\ selected \in DOMAIN targets \/ (selected = None /\ targets = <<>>)
  /\ values \subseteq Profiles
  /\ DOMAIN groups = {FileOf(g) : g \in Groups}
  /\ \A f \in DOMAIN groups : groups[f] # None => Distinct(groups[f].targets)

(* What was audited is what the rows showed of the targets in the scope.       *)
AuditInv ==
  audited # None =>
    \A k \in DOMAIN audited.shown :
      LET wanted == CASE audited.scope = "checked"  -> audited.shown[k].checked
                      [] audited.scope = "selected" -> audited.row = k
                      [] OTHER                      -> TRUE
          got    == {t \in ToSet(audited.targets) : t.ip = audited.ips[k]}
      IN  got = IF wanted THEN {Row(audited.ips[k], audited.shown[k])} ELSE {}

TableInv == TableTypeOK /\ AuditInv

--------------------------------------------------------------------------------
(* The operations on lists of targets keep each address once.                  *)

LEMMA FunctionIsRows ==
  ASSUME NEW S, NEW n \in Nat, NEW f \in [1 .. n -> S]
  PROVE  f \in Seq(S) /\ Len(f) = n /\ DOMAIN f = 1 .. n
OBVIOUS

\* Reading the rows back changes neither the addresses nor their number.
LEMMA SyncedRows ==
  ASSUME NEW rows, Distinct(rows), widgets \in Seq(Settings)
  PROVE  /\ Distinct(Synced(rows)) /\ Len(Synced(rows)) = Len(rows) /\ DOMAIN Synced(rows) = DOMAIN rows
         /\ \A k \in DOMAIN rows : Synced(rows)[k].ip = rows[k].ip
<1> DEFINE s == Synced(rows)
<1>1. rows \in Seq(Records) /\ Len(rows) \in Nat /\ DOMAIN rows = 1 .. Len(rows)
  BY DEF Distinct
<1>2. ASSUME NEW k \in 1 .. Len(rows)
      PROVE  s[k] \in Records /\ s[k].ip = rows[k].ip
  <2>1. rows[k] \in Records
    BY <1>1
  <2>2. CASE k \in DOMAIN widgets
    <3>1. widgets[k] \in Settings
      BY <2>2
    <3>2. s[k] = [ip |-> rows[k].ip, checked |-> widgets[k].checked, profile |-> widgets[k].profile]
      BY <1>1, <2>2 DEF Synced, Row
    <3>3. QED
      BY <2>1, <3>1, <3>2 DEF Records, Settings
  <2>3. CASE k \notin DOMAIN widgets
    BY <1>1, <2>1, <2>3 DEF Synced
  <2>4. QED
    BY <2>2, <2>3
<1>3. s = [k \in 1 .. Len(rows) |-> s[k]]
  BY <1>1 DEF Synced
<1> HIDE DEF s
<1>4. s \in Seq(Records) /\ Len(s) = Len(rows) /\ DOMAIN s = DOMAIN rows
  <2>1. s \in [1 .. Len(rows) -> Records]
    BY <1>2, <1>3
  <2>2. QED
    BY <1>1, <2>1, FunctionIsRows
<1>5. QED
  BY <1>1, <1>2, <1>4 DEF Distinct, s

\* Drawing a list of targets gives it a row each.
LEMMA DrawnRows ==
  ASSUME NEW rows, Distinct(rows), Draw(rows)
  PROVE  targets' = rows /\ widgets' \in Seq(Settings) /\ Len(widgets') = Len(rows)
<1>1. rows \in Seq(Records) /\ Len(rows) \in Nat /\ DOMAIN rows = 1 .. Len(rows)
  BY DEF Distinct
<1>2. ASSUME NEW k \in 1 .. Len(rows)
      PROVE  [checked |-> rows[k].checked, profile |-> rows[k].profile] \in Settings
  <2>1. rows[k] \in Records
    BY <1>1
  <2>2. QED
    BY <2>1 DEF Records, Settings
<1>3. Shown(rows) = [k \in 1 .. Len(rows) |-> [checked |-> rows[k].checked, profile |-> rows[k].profile]]
  BY <1>1 DEF Shown
<1>4. Shown(rows) \in Seq(Settings) /\ Len(Shown(rows)) = Len(rows)
  <2>1. Shown(rows) \in [1 .. Len(rows) -> Settings]
    BY <1>2, <1>3
  <2>2. QED
    BY <1>1, <2>1, FunctionIsRows
<1>5. QED
  BY <1>4 DEF Draw

\* A list without one of its rows.
LEMMA RemovedAt ==
  ASSUME NEW S, NEW s \in Seq(S), NEW k \in 1 .. Len(s)
  PROVE  /\ RemoveAt(s, k) \in Seq(S) /\ Len(RemoveAt(s, k)) = Len(s) - 1
         /\ \A j \in 1 .. Len(s) - 1 : RemoveAt(s, k)[j] = IF j < k THEN s[j] ELSE s[j + 1]
<1> DEFINE n == Len(s)
           a == SubSeq(s, 1, k - 1)
           b == SubSeq(s, k + 1, n)
<1>1. n \in Nat /\ k \in 1 .. n /\ \A i \in 1 .. n : s[i] \in S
  BY ElementOfSeq
<1>2. a \in Seq(S) /\ Len(a) = k - 1 /\ \A j \in 1 .. k - 1 : a[j] = s[j]
  <2>1. 1 \in Int /\ k - 1 \in Int /\ \A i \in 1 .. k - 1 : s[i] \in S
    BY <1>1
  <2> HIDE DEF n
  <2>2. QED
    BY <1>1, <2>1, SubSeqProperties
<1>3. b \in Seq(S) /\ Len(b) = n - k /\ \A j \in 1 .. n - k : b[j] = s[k + j]
  <2>1. k + 1 \in Int /\ n \in Int /\ \A i \in k + 1 .. n : s[i] \in S
    BY <1>1
  <2> HIDE DEF n
  <2>2. /\ b \in Seq(S) /\ Len(b) = IF k + 1 <= n THEN n - (k + 1) + 1 ELSE 0
        /\ \A j \in 1 .. n - (k + 1) + 1 : b[j] = s[(k + 1) + j - 1]
    BY <2>1, SubSeqProperties
  <2> HIDE DEF b
  <2>3. n - (k + 1) + 1 = n - k /\ \A j \in 1 .. n - k : (k + 1) + j - 1 = k + j
    BY <1>1
  <2>4. QED
    BY <1>1, <2>2, <2>3
<1> HIDE DEF a, b, n
<1>4. RemoveAt(s, k) = a \o b
  BY DEF RemoveAt, a, b, n
<1>5. /\ a \o b \in Seq(S) /\ Len(a \o b) = (k - 1) + (n - k)
      /\ \A j \in 1 .. (k - 1) + (n - k) : (a \o b)[j] = IF j <= k - 1 THEN a[j] ELSE b[j - (k - 1)]
  <2>1. /\ a \o b \in Seq(S) /\ Len(a \o b) = Len(a) + Len(b)
        /\ \A j \in 1 .. Len(a) + Len(b) : (a \o b)[j] = IF j <= Len(a) THEN a[j] ELSE b[j - Len(a)]
    BY <1>2, <1>3, ConcatProperties, Zenon
  <2>2. Len(a) = k - 1 /\ Len(b) = n - k
    BY <1>2, <1>3
  <2>3. QED
    BY <2>1, <2>2, Zenon
<1>6. (k - 1) + (n - k) = n - 1
  BY <1>1
<1>7. ASSUME NEW j \in 1 .. n - 1
      PROVE  (a \o b)[j] = IF j < k THEN s[j] ELSE s[j + 1]
  <2>1. j <= k - 1 => (a \o b)[j] = s[j]
    BY <1>1, <1>2, <1>5, <1>6
  <2>2. ~ (j <= k - 1) => j - (k - 1) \in 1 .. n - k /\ k + (j - (k - 1)) = j + 1
    BY <1>1
  <2>3. ~ (j <= k - 1) => (a \o b)[j] = s[j + 1]
    BY <1>3, <1>5, <1>6, <2>2
  <2>4. j < k <=> j <= k - 1
    BY <1>1
  <2>5. QED
    BY <2>1, <2>3, <2>4
<1>8. QED
  BY <1>4, <1>5, <1>6, <1>7 DEF n

LEMMA RemovedRow ==
  ASSUME NEW rows, Distinct(rows), NEW k \in DOMAIN rows
  PROVE  Distinct(RemoveAt(rows, k)) /\ Len(RemoveAt(rows, k)) = Len(rows) - 1
<1> DEFINE rest == RemoveAt(rows, k)
           n    == Len(rows)
<1>1. rows \in Seq(Records) /\ n \in Nat /\ DOMAIN rows = 1 .. n /\ k \in 1 .. n
  BY DEF Distinct
<1>2. /\ rest \in Seq(Records) /\ Len(rest) = n - 1
      /\ \A j \in 1 .. n - 1 : rest[j] = IF j < k THEN rows[j] ELSE rows[j + 1]
  BY <1>1, RemovedAt
<1> HIDE DEF rest, n
<1>3. DOMAIN rest = 1 .. n - 1
  BY <1>2, LenProperties
<1>4. ASSUME NEW i \in 1 .. n - 1, NEW j \in 1 .. n - 1, rest[i].ip = rest[j].ip
      PROVE  i = j
  <2> DEFINE Old(x) == IF x < k THEN x ELSE x + 1
  <2>1. Old(i) \in 1 .. n /\ Old(j) \in 1 .. n /\ (Old(i) = Old(j) => i = j)
    BY <1>1
  <2>2. rest[i] = rows[Old(i)] /\ rest[j] = rows[Old(j)]
    BY <1>2
  <2> HIDE DEF Old
  <2>3. rows[Old(i)].ip = rows[Old(j)].ip => Old(i) = Old(j)
    BY <1>1, <2>1 DEF Distinct
  <2>4. QED
    BY <1>4, <2>1, <2>2, <2>3
<1>5. Distinct(rest)
  BY <1>2, <1>3, <1>4 DEF Distinct
<1>6. QED
  BY <1>2, <1>5 DEF rest, n

\* The order of a finite set of places goes through all of them, each once.
LEMMA OrderIsOfAll ==
  ASSUME NEW n \in Nat, NEW places \in SUBSET (1 .. n), NEW at \in Orders(places)
  PROVE  /\ Len(at) \in Nat /\ DOMAIN at = 1 .. Len(at)
         /\ \A i \in DOMAIN at : at[i] \in places
         /\ \A i, j \in DOMAIN at : at[i] = at[j] => i = j
         /\ \A k \in places : \E i \in DOMAIN at : at[i] = k
         /\ DOMAIN at = {} <=> places = {}
<1> DEFINE m == Cardinality(places)
<1>1. IsFiniteSet(places) /\ m \in Nat
  <2>1. IsFiniteSet(1 .. n)
    BY FS_Interval
  <2>2. QED
    BY <2>1, FS_Subset, FS_CardinalityType
<1>2. at \in [1 .. m -> places] /\ \A i, j \in 1 .. m : i < j => at[i] < at[j]
  BY DEF Orders
<1> HIDE DEF m
<1>3. \A i, j \in 1 .. m : at[i] = at[j] => i = j
  <2> SUFFICES ASSUME NEW i \in 1 .. m, NEW j \in 1 .. m, i # j PROVE at[i] # at[j]
    OBVIOUS
  <2>1. at[i] \in 1 .. n /\ at[j] \in 1 .. n
    <3>1. at[i] \in places /\ at[j] \in places
      BY <1>2, Zenon
    <3>2. QED
      BY <3>1
  <2>2. i < j \/ j < i
    BY <1>1
  <2>3. QED
    BY <1>2, <2>1, <2>2
<1>4. at \in Injection(1 .. m, places)
  BY <1>2, <1>3 DEF Injection, IsInjective
<1>5. Cardinality(1 .. m) = m
  BY <1>1, FS_Interval
<1>6. at \in Surjection(1 .. m, places)
  BY <1>1, <1>4, <1>5, FS_Injection DEF m
<1>7. \A k \in places : \E i \in 1 .. m : at[i] = k
  BY <1>6 DEF Surjection
<1>8. Len(at) = m /\ DOMAIN at = 1 .. m
  BY <1>1, <1>2, FunctionIsRows
<1>9. QED
  BY <1>1, <1>2, <1>3, <1>7, <1>8

\* A list with new addresses at its end, in the order they are given.
LEMMA AddedRows ==
  ASSUME NEW ips \in Seq(Hosts), NEW at \in Orders(NewPlaces(ips)), Distinct(targets)
  PROVE  /\ Distinct(targets \o [i \in DOMAIN at |-> Row(ips[at[i]], [checked |-> TRUE, profile |-> None])])
         /\ LET all == targets \o [i \in DOMAIN at |-> Row(ips[at[i]], [checked |-> TRUE, profile |-> None])]
            IN  Len(all) = Len(targets) + Len(at) /\ Len(at) \in Nat /\ (Len(at) = 0 <=> NewPlaces(ips) = {})
<1> DEFINE places == NewPlaces(ips)
           more   == [i \in DOMAIN at |-> Row(ips[at[i]], [checked |-> TRUE, profile |-> None])]
           all    == targets \o more
           n      == Len(targets)
           m      == Len(at)
<1>1. Len(ips) \in Nat /\ DOMAIN ips = 1 .. Len(ips) /\ \A k \in 1 .. Len(ips) : ips[k] \in Hosts
  BY ElementOfSeq
<1>2. /\ places \in SUBSET (1 .. Len(ips))
      /\ \A k \in places : ips[k] \notin Listed(targets) /\ \A j \in 1 .. k - 1 : ips[j] # ips[k]
  BY <1>1 DEF NewPlaces
<1> HIDE DEF places
<1>3. /\ m \in Nat /\ DOMAIN at = 1 .. m
      /\ \A i \in 1 .. m : at[i] \in places
      /\ \A i, j \in 1 .. m : at[i] = at[j] => i = j
      /\ (DOMAIN at = {} <=> places = {})
  <2>1. at \in Orders(places) /\ places \in SUBSET (1 .. Len(ips)) /\ Len(ips) \in Nat
    BY <1>1, <1>2 DEF places
  <2>2. /\ Len(at) \in Nat /\ DOMAIN at = 1 .. Len(at)
        /\ \A i \in DOMAIN at : at[i] \in places
        /\ \A i, j \in DOMAIN at : at[i] = at[j] => i = j
        /\ (DOMAIN at = {} <=> places = {})
    BY <2>1, OrderIsOfAll, Zenon
  <2>3. QED
    BY <2>2, Zenon
<1> HIDE DEF m
<1>4. \A i \in 1 .. m : /\ more[i] \in Records /\ more[i].ip = ips[at[i]]
                        /\ ips[at[i]] \notin Listed(targets)
  <2> TAKE i \in 1 .. m
  <2>1. at[i] \in places /\ ips[at[i]] \in Hosts /\ ips[at[i]] \notin Listed(targets)
    BY <1>1, <1>2, <1>3
  <2>2. more[i] = [ip |-> ips[at[i]], checked |-> TRUE, profile |-> None]
    BY <1>3 DEF Row
  <2> HIDE DEF more
  <2>3. QED
    BY <2>1, <2>2 DEF Records
<1>5. more \in Seq(Records) /\ Len(more) = m
  <2>1. more \in [1 .. m -> Records]
    BY <1>3, <1>4
  <2>2. QED
    BY <1>3, <2>1, FunctionIsRows
<1> HIDE DEF more
<1>6. targets \in Seq(Records) /\ n \in Nat /\ DOMAIN targets = 1 .. n
  BY DEF Distinct
<1>7. /\ all \in Seq(Records) /\ Len(all) = n + m
      /\ \A i \in 1 .. n + m : all[i] = IF i <= n THEN targets[i] ELSE more[i - n]
  <2>1. /\ all \in Seq(Records) /\ Len(all) = Len(targets) + Len(more)
        /\ \A i \in 1 .. Len(targets) + Len(more) :
             all[i] = IF i <= Len(targets) THEN targets[i] ELSE more[i - Len(targets)]
    BY <1>5, <1>6, ConcatProperties, Zenon
  <2>2. QED
    BY <1>5, <2>1, Zenon
<1>8. DOMAIN all = 1 .. n + m
  BY <1>7, LenProperties
<1> HIDE DEF all, n
<1>9. \A i \in 1 .. n : targets[i].ip \in Listed(targets) /\ \A j \in 1 .. n : targets[i].ip = targets[j].ip => i = j
  BY <1>6 DEF Listed, Distinct
<1>10. \A i, j \in 1 .. m : ips[at[i]] = ips[at[j]] => i = j
  <2> SUFFICES ASSUME NEW i \in 1 .. m, NEW j \in 1 .. m, ips[at[i]] = ips[at[j]]
               PROVE  at[i] = at[j]
    BY <1>3
  <2>1. at[i] \in places /\ at[j] \in places
    BY <1>3
  <2>2. at[i] \in 1 .. Len(ips) /\ at[j] \in 1 .. Len(ips)
    BY <1>2, <2>1
  <2>3. ~ (at[i] \in 1 .. at[j] - 1) /\ ~ (at[j] \in 1 .. at[i] - 1)
    BY <1>2, <2>1, Zenon
  <2>4. QED
    BY <1>1, <2>2, <2>3
<1>11. ASSUME NEW i \in 1 .. n + m, NEW j \in 1 .. n + m, all[i].ip = all[j].ip
       PROVE  i = j
  <2>1. \A k \in 1 .. n + m : ~ (k <= n) => k - n \in 1 .. m
    BY <1>3, <1>6
  <2>2. CASE i <= n /\ j <= n
    BY <1>6, <1>7, <1>9, <1>11, <2>2
  <2>3. CASE ~ (i <= n) /\ ~ (j <= n)
    <3>1. i - n \in 1 .. m /\ j - n \in 1 .. m
      BY <2>1, <2>3
    <3>2. more[i - n].ip = more[j - n].ip
      BY <1>7, <1>11, <2>3
    <3>3. i - n = j - n
      BY <1>4, <1>10, <3>1, <3>2
    <3>4. QED
      BY <1>6, <3>3
  <2>4. CASE i <= n /\ ~ (j <= n)
    <3>1. i \in 1 .. n /\ j - n \in 1 .. m
      BY <1>6, <2>1, <2>4
    <3>2. targets[i].ip = more[j - n].ip
      BY <1>7, <1>11, <2>4
    <3>3. QED
      BY <1>4, <1>9, <3>1, <3>2
  <2>5. CASE ~ (i <= n) /\ j <= n
    <3>1. j \in 1 .. n /\ i - n \in 1 .. m
      BY <1>6, <2>1, <2>5
    <3>2. more[i - n].ip = targets[j].ip
      BY <1>7, <1>11, <2>5
    <3>3. QED
      BY <1>4, <1>9, <3>1, <3>2
  <2>6. QED
    BY <2>2, <2>3, <2>4, <2>5
<1>12. Distinct(all)
  BY <1>7, <1>8, <1>11 DEF Distinct
<1>13. m = 0 <=> places = {}
  BY <1>3
<1>14. QED
  BY <1>3, <1>7, <1>12, <1>13 DEF all, more, n, m, places

\* A list whose rows take the setting of their widgets.
LEMMA RelabeledRows ==
  ASSUME NEW rows, Distinct(rows), NEW w \in Seq(Settings), Len(w) = Len(rows)
  PROVE  LET new == [i \in DOMAIN rows |-> Row(rows[i].ip, w[i])]
         IN  Distinct(new) /\ Len(new) = Len(rows)
<1> DEFINE new == [i \in DOMAIN rows |-> Row(rows[i].ip, w[i])]
           n   == Len(rows)
<1>1. rows \in Seq(Records) /\ n \in Nat /\ DOMAIN rows = 1 .. n
  BY DEF Distinct
<1>2. ASSUME NEW i \in 1 .. n
      PROVE  new[i] \in Records /\ new[i].ip = rows[i].ip
  <2>1. rows[i] \in Records /\ w[i] \in Settings
    BY <1>1
  <2>2. new[i] = [ip |-> rows[i].ip, checked |-> w[i].checked, profile |-> w[i].profile]
    BY <1>1 DEF Row
  <2> HIDE DEF new
  <2>3. QED
    BY <2>1, <2>2 DEF Records, Settings
<1>3. new \in [1 .. n -> Records]
  BY <1>1, <1>2
<1> HIDE DEF new, n
<1>4. new \in Seq(Records) /\ Len(new) = n /\ DOMAIN new = 1 .. n
  BY <1>1, <1>3, FunctionIsRows
<1>5. Distinct(new)
  BY <1>1, <1>2, <1>4 DEF Distinct
<1>6. QED
  BY <1>4, <1>5 DEF new, n

\* The row selected after a removal is one that is left.
LEMMA RemainingRow ==
  ASSUME NEW rows, Distinct(rows), NEW k \in Nat \ {0}
  PROVE  \/ Remaining(rows, k) \in DOMAIN rows
         \/ Remaining(rows, k) = None /\ rows = <<>>
<1>1. rows \in Seq(Records) /\ Len(rows) \in Nat /\ DOMAIN rows = 1 .. Len(rows)
  BY DEF Distinct
<1>2. rows # <<>> => Len(rows) > 0
  BY <1>1, EmptySeq
<1>3. QED
  BY <1>1, <1>2 DEF Remaining

--------------------------------------------------------------------------------
(* The invariant holds initially and is preserved by every step.               *)

LEMMA TableStart ==
  ASSUME TableInit
  PROVE  TableInv
<1>1. Distinct(<<>>) /\ <<>> \in Seq(Settings)
  BY DEF Distinct
<1>2. targets = <<>> /\ widgets = <<>> /\ selected = None /\ values = Profiles
  BY DEF TableInit
<1>3. DOMAIN groups = {FileOf(g) : g \in Groups} /\ \A f \in DOMAIN groups : groups[f] = None
  BY DEF TableInit
<1>4. TableTypeOK
  BY <1>1, <1>2, <1>3 DEF TableTypeOK
<1>5. QED
  BY <1>4 DEF TableInit, TableInv, AuditInv

\* The rows are drawn from a list: a step of most operations.
LEMMA DrawnTable ==
  ASSUME NEW rows, Distinct(rows), Draw(rows),
         selected' \in DOMAIN rows \/ (selected' = None /\ rows = <<>>),
         values' \subseteq Profiles, TableTypeOK, UNCHANGED groups
  PROVE  TableTypeOK'
<1>1. targets' = rows /\ widgets' \in Seq(Settings) /\ Len(widgets') = Len(rows)
  BY DrawnRows
<1>2. QED
  BY <1>1 DEF TableTypeOK

LEMMA OperationTypes ==
  ASSUME TableAssumption, TableTypeOK, Operate
  PROVE  TableTypeOK'
<1>1. /\ Distinct(targets) /\ targets \in Seq(Records)
      /\ Len(targets) \in Nat /\ DOMAIN targets = 1 .. Len(targets)
      /\ widgets \in Seq(Settings) /\ Len(widgets) = Len(targets) /\ DOMAIN widgets = 1 .. Len(targets)
      /\ values \subseteq Profiles
  BY DEF TableTypeOK, Distinct
<1>2. Distinct(Synced(targets)) /\ DOMAIN Synced(targets) = DOMAIN targets /\ Len(Synced(targets)) = Len(targets)
  BY <1>1, SyncedRows
<1>3. \A rows : DOMAIN rows = DOMAIN targets /\ Len(rows) = Len(targets) /\ rows \in Seq(Records)
                  => selected \in DOMAIN rows \/ (selected = None /\ rows = <<>>)
  BY <1>1 DEF TableTypeOK
<1>4. ASSUME NEW w \in Seq(Settings), Len(w) = Len(targets), widgets' = w,
             targets' = [i \in DOMAIN targets |-> Row(targets[i].ip, w[i])],
             values' \subseteq Profiles, UNCHANGED <<selected, groups>>
      PROVE  TableTypeOK'
  <2>1. Distinct(targets') /\ Len(targets') = Len(targets) /\ DOMAIN targets' = DOMAIN targets
    BY <1>1, <1>4, RelabeledRows
  <2>2. QED
    BY <1>3, <1>4, <2>1 DEF TableTypeOK, Distinct
<1>5. ASSUME NEW k \in DOMAIN targets, ClickCheck(k)
      PROVE  TableTypeOK'
  <2> DEFINE w == [widgets EXCEPT ![k].checked = ~ @]
  <2>1. w \in Seq(Settings) /\ Len(w) = Len(targets)
    <3>1. widgets[k] \in Settings
      BY <1>1
    <3>2. [widgets[k] EXCEPT !.checked = ~ @] \in Settings
      BY <3>1 DEF Settings
    <3>3. QED
      BY <1>1, <3>2, ExceptSeq
  <2>2. widgets' = w /\ targets' = [i \in DOMAIN targets |-> Row(targets[i].ip, w[i])]
    BY <1>5 DEF ClickCheck
  <2> HIDE DEF w
  <2>3. QED
    BY <1>1, <1>4, <1>5, <2>1, <2>2 DEF ClickCheck
<1>6. ASSUME NEW k \in DOMAIN targets, ChooseProfile(k)
      PROVE  TableTypeOK'
  <2>1. PICK p \in {None} \cup values : widgets' = [widgets EXCEPT ![k].profile = p]
    BY <1>6 DEF ChooseProfile
  <2>2. [widgets[k] EXCEPT !.profile = p] \in Settings
    <3>1. widgets[k] \in Settings
      BY <1>1
    <3>2. QED
      BY <1>1, <3>1 DEF Settings
  <2>3. widgets' \in Seq(Settings) /\ Len(widgets') = Len(targets)
    BY <1>1, <2>1, <2>2, ExceptSeq
  <2>4. QED
    BY <1>6, <2>3 DEF ChooseProfile, TableTypeOK
<1>7. ASSUME NEW k \in DOMAIN targets, SelectRow(k)
      PROVE  TableTypeOK'
  BY <1>1, <1>2, <1>7, DrawnTable DEF SelectRow, SyncAndDraw
<1>8. ASSUME NEW k \in DOMAIN targets, RemoveRow(k)
      PROVE  TableTypeOK'
  <2> DEFINE rest == RemoveAt(Synced(targets), k)
  <2>1. Distinct(rest)
    BY <1>2, RemovedRow
  <2>2. SyncAndDraw(rest) /\ selected' = Remaining(rest, k) /\ UNCHANGED <<values, groups>>
    BY <1>8 DEF RemoveRow
  <2> HIDE DEF rest
  <2>3. Distinct(Synced(rest)) /\ DOMAIN Synced(rest) = DOMAIN rest /\ Len(Synced(rest)) = Len(rest)
    BY <1>1, <2>1, SyncedRows
  <2>4. selected' \in DOMAIN rest \/ (selected' = None /\ rest = <<>>)
    BY <1>1, <2>1, <2>2, RemainingRow
  <2>5. rest = <<>> => Synced(rest) = <<>>
    BY <2>3 DEF Distinct
  <2>6. QED
    BY <1>1, <2>2, <2>3, <2>4, <2>5, DrawnTable DEF SyncAndDraw
<1>9. CASE RemoveSelected
  <2> DEFINE rest == RemoveAt(targets, selected)
  <2>1. selected \in DOMAIN targets
    BY <1>9 DEF RemoveSelected, TableTypeOK
  <2>2. Distinct(rest)
    BY <1>1, <2>1, RemovedRow
  <2>3. SyncAndDraw(rest) /\ selected' = Remaining(rest, selected) /\ UNCHANGED <<values, groups>>
    BY <1>9 DEF RemoveSelected
  <2> HIDE DEF rest
  <2>4. Distinct(Synced(rest)) /\ DOMAIN Synced(rest) = DOMAIN rest /\ Len(Synced(rest)) = Len(rest)
    BY <1>1, <2>2, SyncedRows
  <2>5. selected' \in DOMAIN rest \/ (selected' = None /\ rest = <<>>)
    BY <1>1, <2>1, <2>2, <2>3, RemainingRow
  <2>6. rest = <<>> => Synced(rest) = <<>>
    BY <2>4 DEF Distinct
  <2>7. QED
    BY <1>1, <2>3, <2>4, <2>5, <2>6, DrawnTable DEF SyncAndDraw
<1>10. ASSUME NEW ips \in Lists, AddTargets(ips)
       PROVE  TableTypeOK'
  <2>1. ips \in Seq(Hosts)
    BY FunctionIsRows DEF Lists
  <2>2. PICK at \in Orders(NewPlaces(ips)) :
          SyncAndDraw(targets \o [i \in DOMAIN at |-> Row(ips[at[i]], [checked |-> TRUE, profile |-> None])])
    BY <1>10 DEF AddTargets
  <2> DEFINE all == targets \o [i \in DOMAIN at |-> Row(ips[at[i]], [checked |-> TRUE, profile |-> None])]
  <2>3. /\ Distinct(all) /\ Len(all) = Len(targets) + Len(at) /\ Len(at) \in Nat
        /\ (Len(at) = 0 <=> NewPlaces(ips) = {})
    BY <1>1, <2>1, AddedRows
  <2>4. SyncAndDraw(all)
    BY <2>2
  <2> HIDE DEF all
  <2>5. /\ Distinct(Synced(all)) /\ DOMAIN Synced(all) = 1 .. Len(targets) + Len(at)
        /\ Len(Synced(all)) = Len(targets) + Len(at)
    <3>1. Distinct(Synced(all)) /\ DOMAIN Synced(all) = DOMAIN all /\ Len(Synced(all)) = Len(all)
      BY <1>1, <2>3, SyncedRows
    <3>2. DOMAIN all = 1 .. Len(all)
      BY <2>3 DEF Distinct
    <3>3. QED
      BY <2>3, <3>1, <3>2
  <2>6. \/ selected' \in 1 .. Len(targets) + Len(at)
        \/ selected' = None /\ Len(targets) + Len(at) = 0
    <3>1. selected' = IF NewPlaces(ips) # {} /\ selected = None THEN 1 ELSE selected
      BY <1>10 DEF AddTargets
    <3>2. selected \in 1 .. Len(targets) \/ (selected = None /\ Len(targets) = 0)
      BY <1>1 DEF TableTypeOK
    <3>3. None \notin Nat
      BY DEF TableAssumption
    <3>4. QED
      BY <1>1, <2>3, <3>1, <3>2, <3>3
  <2>7. Len(targets) + Len(at) = 0 => Synced(all) = <<>>
    BY <2>5 DEF Distinct
  <2>8. QED
    BY <1>1, <1>10, <2>4, <2>5, <2>6, <2>7, DrawnTable DEF SyncAndDraw, AddTargets
<1>11. ASSUME NEW rows, Distinct(rows), SetTargets(rows), UNCHANGED groups
       PROVE  TableTypeOK'
  <2>1. rows # <<>> => 1 \in DOMAIN rows
    BY <1>11, EmptySeq DEF Distinct
  <2>2. QED
    BY <1>1, <1>11, <2>1, DrawnTable DEF SetTargets
<1>12. ASSUME NEW a \in Hosts, RetryFailed(<<a>>)
       PROVE  TableTypeOK'
  <2> DEFINE rows == [k \in DOMAIN <<a>> |-> Row(<<a>>[k], [checked |-> TRUE, profile |-> None])]
  <2>1. DOMAIN <<a>> = 1 .. 1 /\ <<a>>[1] = a
    OBVIOUS
  <2>2. rows \in [1 .. 1 -> Records]
    BY <2>1 DEF Row, Records
  <2>3. rows \in Seq(Records) /\ DOMAIN rows = 1 .. 1
    BY <2>2, FunctionIsRows
  <2>4. Distinct(rows)
    BY <2>3 DEF Distinct
  <2>5. SetTargets(rows) /\ UNCHANGED groups
    BY <1>12 DEF RetryFailed
  <2> HIDE DEF rows
  <2>6. QED
    BY <1>11, <2>4, <2>5
<1>13. ASSUME NEW on \in BOOLEAN, CheckAll(on)
       PROVE  TableTypeOK'
  <2> DEFINE rows == [k \in DOMAIN targets |-> [targets[k] EXCEPT !.checked = on]]
  <2>1. ASSUME NEW k \in 1 .. Len(targets)
        PROVE  rows[k] \in Records /\ rows[k].ip = targets[k].ip
    <3>1. targets[k] \in Records
      BY <1>1
    <3>2. rows[k] = [targets[k] EXCEPT !.checked = on]
      BY <1>1
    <3> HIDE DEF rows
    <3>3. QED
      BY <3>1, <3>2 DEF Records
  <2>2. rows \in [1 .. Len(targets) -> Records]
    BY <1>1, <2>1
  <2>3. Draw(rows) /\ UNCHANGED <<selected, values, groups>>
    BY <1>13 DEF CheckAll
  <2> HIDE DEF rows
  <2>4. rows \in Seq(Records) /\ Len(rows) = Len(targets) /\ DOMAIN rows = DOMAIN targets
    BY <1>1, <2>2, FunctionIsRows
  <2>5. Distinct(rows)
    BY <1>1, <2>1, <2>4 DEF Distinct
  <2>6. QED
    BY <1>1, <1>3, <2>3, <2>4, <2>5, DrawnTable
<1>14. CASE ClearTargets
  <2>1. Distinct(<<>>)
    BY DEF Distinct
  <2>2. QED
    BY <1>1, <1>14, <2>1, DrawnTable DEF ClearTargets
<1>15. CASE ProfilesChange
  <2> DEFINE w == [k \in DOMAIN widgets |-> [widgets[k] EXCEPT !.profile = IF @ \in values' THEN @ ELSE None]]
  <2>1. ASSUME NEW k \in 1 .. Len(targets)
        PROVE  w[k] \in Settings
    <3>1. widgets[k] \in Settings
      BY <1>1
    <3>2. w[k] = [widgets[k] EXCEPT !.profile = IF @ \in values' THEN @ ELSE None]
      BY <1>1
    <3> HIDE DEF w
    <3>3. QED
      BY <3>1, <3>2 DEF Settings
  <2>2. w \in [1 .. Len(targets) -> Settings]
    BY <1>1, <2>1
  <2>3. /\ widgets' = w /\ targets' = [k \in DOMAIN targets |-> Row(targets[k].ip, w[k])]
        /\ values' \subseteq Profiles /\ UNCHANGED <<selected, groups>>
    BY <1>15 DEF ProfilesChange
  <2> HIDE DEF w
  <2>4. w \in Seq(Settings) /\ Len(w) = Len(targets)
    BY <1>1, <2>2, FunctionIsRows
  <2>5. QED
    BY <1>4, <2>3, <2>4
<1>16. CASE DeviceStatus
  BY <1>1, <1>2, <1>3, <1>16, DrawnTable DEF DeviceStatus, SyncAndDraw, Distinct
<1>17. ASSUME NEW g \in Groups, SaveGroup(g)
       PROVE  TableTypeOK'
  <2>1. targets' = Synced(targets) /\ UNCHANGED <<widgets, selected, values>>
    BY <1>17 DEF SaveGroup
  <2>2. groups' = [groups EXCEPT ![FileOf(g)] = [name |-> g, targets |-> targets']]
    BY <1>17 DEF SaveGroup
  <2>3. DOMAIN groups' = DOMAIN groups /\ \A f \in DOMAIN groups' : groups'[f] # None => Distinct(groups'[f].targets)
    <3>1. Distinct([name |-> g, targets |-> targets'].targets)
      BY <1>2, <2>1
    <3>2. QED
      BY <2>2, <3>1 DEF TableTypeOK
  <2>4. selected' \in DOMAIN targets' \/ (selected' = None /\ targets' = <<>>)
    BY <1>2, <1>3, <2>1 DEF Distinct
  <2>5. QED
    BY <1>1, <1>2, <2>1, <2>3, <2>4 DEF TableTypeOK
<1>18. ASSUME NEW g \in Groups, LoadGroup(g)
       PROVE  TableTypeOK'
  <2>1. FileOf(g) \in DOMAIN groups
    BY DEF TableTypeOK
  <2>2. Distinct(groups[FileOf(g)].targets)
    BY <1>18, <2>1 DEF LoadGroup, TableTypeOK
  <2>3. QED
    BY <1>11, <1>18, <2>2 DEF LoadGroup
<1>19. QED
  BY <1>5, <1>6, <1>7, <1>8, <1>9, <1>10, <1>12, <1>13, <1>14, <1>15, <1>16, <1>17, <1>18 DEF Operate

\* What an audit of a scope gets.
LEMMA AuditGets ==
  ASSUME TableTypeOK, NEW scope \in {"checked", "selected", "all"}, RunAudit(scope)
  PROVE  AuditInv'
<1> DEFINE n == Len(targets)
           places == InScope(scope, targets')
<1>1. /\ Distinct(targets) /\ n \in Nat /\ DOMAIN targets = 1 .. n /\ DOMAIN widgets = 1 .. n
      /\ widgets \in Seq(Settings)
  BY DEF TableTypeOK, Distinct
<1>2. targets' = Synced(targets) /\ UNCHANGED <<widgets, selected>>
  BY DEF RunAudit
<1>3. /\ DOMAIN targets' = 1 .. n
      /\ \A j, k \in 1 .. n : targets'[j].ip = targets'[k].ip => j = k
      /\ \A k \in 1 .. n : targets'[k] = Row(targets[k].ip, widgets[k]) /\ targets'[k].ip = targets[k].ip
  <2>1. /\ Distinct(targets') /\ DOMAIN targets' = DOMAIN targets
        /\ \A k \in DOMAIN targets : targets'[k].ip = targets[k].ip
    BY <1>1, <1>2, SyncedRows
  <2>2. \A k \in 1 .. n : targets'[k] = Row(targets[k].ip, widgets[k])
    BY <1>1, <1>2 DEF Synced
  <2>3. QED
    BY <1>1, <2>1, <2>2 DEF Distinct
<1>4. PICK at \in Orders(places) :
        audited' = [scope |-> scope, shown |-> widgets, ips |-> [k \in DOMAIN targets |-> targets[k].ip],
                    row |-> selected, targets |-> [i \in DOMAIN at |-> targets'[at[i]]]]
  BY DEF RunAudit
<1>5. places \in SUBSET (1 .. n)
  BY <1>3 DEF InScope
<1> HIDE DEF places, n
<1>6. /\ \A i \in DOMAIN at : at[i] \in places
      /\ \A k \in places : \E i \in DOMAIN at : at[i] = k
  BY <1>1, <1>4, <1>5, OrderIsOfAll
<1>7. ToSet(audited'.targets) = {targets'[k] : k \in places}
  BY <1>4, <1>6 DEF ToSet
<1>8. /\ audited'.scope = scope /\ audited'.shown = widgets /\ audited'.row = selected
      /\ \A k \in 1 .. n : audited'.ips[k] = targets[k].ip
  BY <1>1, <1>4
<1>9. ASSUME NEW k \in 1 .. n
      PROVE  {t \in ToSet(audited'.targets) : t.ip = audited'.ips[k]}
               = IF k \in places THEN {Row(audited'.ips[k], audited'.shown[k])} ELSE {}
  <2>1. \A j \in places : targets'[j].ip = targets[k].ip => j = k
    BY <1>3, <1>5
  <2>2. targets'[k] = Row(audited'.ips[k], audited'.shown[k]) /\ targets'[k].ip = audited'.ips[k]
    BY <1>3, <1>8
  <2>3. audited'.ips[k] = targets[k].ip
    BY <1>8
  <2>4. QED
    BY <1>7, <2>1, <2>2, <2>3
<1>10. ASSUME NEW k \in 1 .. n
       PROVE  k \in places <=> CASE audited'.scope = "checked"  -> audited'.shown[k].checked
                                  [] audited'.scope = "selected" -> audited'.row = k
                                  [] OTHER                       -> TRUE
  <2>1. targets'[k].checked = widgets[k].checked
    BY <1>3 DEF Row
  <2>2. k \in places <=> \/ scope = "all"
                         \/ scope = "checked" /\ targets'[k].checked
                         \/ scope = "selected" /\ k = selected
    BY <1>3 DEF places, InScope
  <2>3. CASE scope = "checked"
    BY <1>8, <2>1, <2>2, <2>3
  <2>4. CASE scope = "selected"
    BY <1>8, <2>2, <2>4
  <2>5. CASE scope = "all"
    BY <1>8, <2>2, <2>5
  <2>6. QED
    BY <2>3, <2>4, <2>5
<1>11. DOMAIN audited'.shown = 1 .. n
  BY <1>1, <1>8
<1>12. QED
  BY <1>9, <1>10, <1>11 DEF AuditInv

(* Every reachable state of the table satisfies the invariant: one row per      *)
(* target, each address once, whatever was clicked, added, removed or loaded   *)
(* (targets_tab.py:943-1075, :1106-1196).                                      *)
THEOREM TableInvariance ==
  ASSUME TableAssumption
  PROVE  TableSpec => []TableInv
<1>1. TableInit => TableInv
  BY TableStart
<1>2. ASSUME TableInv, [TableNext]_tableVars
      PROVE  TableInv'
  <2>1. CASE UNCHANGED tableVars
    BY <1>2, <2>1 DEF tableVars, TableInv, TableTypeOK, AuditInv
  <2>2. CASE Operate /\ audited' = None
    BY <1>2, <2>2, OperationTypes DEF TableInv, AuditInv
  <2>3. ASSUME NEW scope \in {"checked", "selected", "all"}, RunAudit(scope)
        PROVE  TableInv'
    <3>1. Distinct(targets) /\ widgets \in Seq(Settings)
      BY <1>2 DEF TableInv, TableTypeOK
    <3>2. Distinct(targets') /\ Len(targets') = Len(targets) /\ DOMAIN targets' = DOMAIN targets
      BY <2>3, <3>1, SyncedRows DEF RunAudit
    <3>3. targets = <<>> => targets' = <<>>
      BY <3>1, <3>2 DEF Distinct
    <3>4. TableTypeOK'
      BY <1>2, <2>3, <3>2, <3>3 DEF TableInv, TableTypeOK, RunAudit
    <3>5. QED
      BY <1>2, <2>3, <3>4, AuditGets DEF TableInv
  <2>4. QED
    BY <1>2, <2>1, <2>2, <2>3 DEF TableNext
<1>3. QED
  BY <1>1, <1>2, PTL DEF TableSpec

(* For any addresses, profiles and groups, and any sequence of clicks, adds,   *)
(* removals, loads and worker reports: an audit gets the targets its scope     *)
(* shows, as their rows show them (targets_tab.py:761-769, :1106-1165,         *)
(* :1188-1196).                                                                *)
THEOREM AuditGetsWhatIsShown ==
  ASSUME TableAssumption
  PROVE  TableSpec => []AuditIsWhatIsShown
<1>1. ASSUME TableInv
      PROVE  AuditIsWhatIsShown
  <2> DEFINE n == Len(targets)
  <2>1. /\ Distinct(targets) /\ n \in Nat /\ DOMAIN targets = 1 .. n /\ Len(widgets) = n
        /\ selected \in 1 .. n \/ (selected = None /\ targets = <<>>)
    BY <1>1 DEF TableInv, TableTypeOK, Distinct
  <2>2. None \notin Nat
    BY DEF TableAssumption
  <2>3. Cardinality(Listed(targets)) = n
    <3> DEFINE f == [k \in 1 .. n |-> targets[k].ip]
    <3>1. Listed(targets) = {targets[k].ip : k \in 1 .. n}
      BY <2>1 DEF Listed
    <3>2. \A j, k \in 1 .. n : targets[j].ip = targets[k].ip => j = k
      BY <2>1 DEF Distinct
    <3> HIDE DEF n
    <3>3. f \in Bijection(1 .. n, Listed(targets))
      BY <3>1, <3>2 DEF Bijection, Injection, Surjection, IsInjective
    <3>4. ExistsBijection(1 .. n, Listed(targets))
      BY <3>3 DEF ExistsBijection
    <3>5. IsFiniteSet(1 .. n) /\ Cardinality(1 .. n) = n
      BY <2>1, FS_Interval
    <3>6. QED
      BY <3>4, <3>5, FS_Bijection
  <2>4. /\ selected = None \/ selected \in DOMAIN targets
        /\ targets # <<>> => selected # None
    BY <2>1, <2>2
  <2>5. AuditInv
    BY <1>1 DEF TableInv
  <2>6. QED
    BY <2>1, <2>3, <2>4, <2>5 DEF AuditIsWhatIsShown, AuditInv
<1>2. QED
  BY <1>1, TableInvariance, PTL
================================================================================
