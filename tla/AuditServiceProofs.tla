--------------------------- MODULE AuditServiceProofs ---------------------------
(***************************************************************************)
(* Theorems about AuditService, for every number of targets, every pool    *)
(* size and every number of commands: the workers keep the contract of the *)
(* orchestrator, whose theorems therefore hold of the composition, and the *)
(* evidence and cancellation properties of run "audit".                    *)
(***************************************************************************)
EXTENDS AuditService, ScanOrchestratorProofs

-------------------------------------------------------------------------------
(* The inductive invariant *)

OnlyLive    == {"connect", "look", "send"}
Judging     == {"profile", "parse", "evaluate"}
Stages      == {"start", "load", "store", "over"} \cup OnlyLive \cup Judging

\* No thread is in the worker of such a target, and none has been.
Untouched   == {"none", "queued", "withdrawn", "entered", "cleared"}

\* Types of what AuditService adds to the variables of the orchestrator.
AuditTypeOK ==
    /\ live \in BOOLEAN
    /\ stage \in [Targets -> Stages]
    /\ sent \in [Targets -> 0..NCommands]
    /\ evidence \in [Targets -> {"none", "partial", "stored"}]
    /\ sentAtCancel \in [Targets -> 0..NCommands]

\* Where a worker stands against the state of its future.
StageInv ==
    \A t \in Targets :
        /\ fut[t] \in Untouched => stage[t] = "start"
        /\ ret[t] # None => fut[t] = "done"
        /\ stage[t] \in OnlyLive => live
        /\ stage[t] = "load" => ~live

\* What a worker has collected and stored where it stands.
EvidenceInv ==
    \A t \in Targets :
        /\ stage[t] = "send" => sent[t] < NCommands
        /\ stage[t] \in {"store"} \cup Judging => sent[t] = NCommands
        /\ stage[t] \in {"start", "load", "store"} \cup OnlyLive => evidence[t] = "none"
        /\ stage[t] \in Judging => evidence[t] = "stored"
        /\ evidence[t] # "none" => sent[t] = NCommands

\* What the worker has said and returned, and what came of it.
VerdictInv ==
    \A t \in Targets :
        /\ shown[t] \in {"PARSING", "EVALUATING", "COMPLETE"} => evidence[t] = "stored"
        /\ ret[t] = "COMPLETE" => evidence[t] = "stored"
        /\ ret[t] \in {"CANCELLED"} \cup ConnectionFailures => evidence[t] = "none"
        /\ outcome[t] # None => \/ outcome[t] = ret[t]
                                \/ outcome[t] = "CANCELLED" /\ fut[t] \in {"none", "withdrawn"}

\* A live collection after the request: the command that was on its way may
\* still arrive, and no other one is sent.
LateInv ==
    cancel => \A t \in Targets :
        live => /\ sent[t] <= sentAtCancel[t] + 1
                /\ stage[t] = "send" => sent[t] <= sentAtCancel[t]

AuditInv == AuditTypeOK /\ StageInv /\ EvidenceInv /\ VerdictInv /\ LateInv

-------------------------------------------------------------------------------
(* Every step is a step of the orchestrator, or invisible to it *)

\* The steps of the real worker are those of the generic one, or only move its
\* own variables: it reports the statuses it may report and returns CANCELLED
\* only where it has found the event set.
LEMMA WorkerKeepsContract ==
    ASSUME NEW t \in Targets, AuditWorker(t)
    PROVE  WorkerStep(t) \/ UNCHANGED vars
<1> USE StatusAssumption, AuditAssumption DEF WorkerStep, Returnable, End, ConnectionFailures
<1>1. CASE BeginLive(t)
  BY <1>1 DEF BeginLive
<1>2. CASE Connect(t)
  BY <1>2 DEF Connect
<1>3. CASE LookBeforeCommand(t)
  BY <1>3 DEF LookBeforeCommand
<1>4. CASE SendCommand(t)
  BY <1>4 DEF SendCommand
<1>5. CASE BeginOffline(t) \/ LoadOutputs(t)
  BY <1>5 DEF BeginOffline, LoadOutputs
<1>6. CASE StoreEvidence(t)
  BY <1>6 DEF StoreEvidence
<1>7. CASE ResolveProfile(t) \/ ExtractAsset(t) \/ Evaluate(t)
  BY <1>7 DEF ResolveProfile, ExtractAsset, Evaluate
<1>8. QED
  BY <1>1, <1>2, <1>3, <1>4, <1>5, <1>6, <1>7 DEF AuditWorker

LEMMA AuditStepIsStep == [AuditNext]_allVars => [Next]_vars
<1> SUFFICES ASSUME [AuditNext]_allVars
             PROVE  [Next]_vars
  OBVIOUS
<1>1. CASE MainStep \/ Done \/ AuditCancel
  BY <1>1 DEF Next, AuditCancel
<1>2. ASSUME NEW t \in Targets, PoolStep(t)
      PROVE  Next
  BY <1>2 DEF Next
<1>3. ASSUME NEW t \in Targets, AuditWorker(t)
      PROVE  [Next]_vars
  BY <1>3, WorkerKeepsContract DEF Next
<1>4. CASE UNCHANGED allVars
  BY <1>4 DEF allVars
<1>5. QED
  BY <1>1, <1>2, <1>3, <1>4 DEF AuditNext

\* The safety half of ImplementsOrchestrator: the composition is a run of the
\* orchestrator, so its properties hold with the real workers inside.
THEOREM WorkersKeepContract == AuditSpec => Spec
<1>1. AuditInit => Init
  BY DEF AuditInit
<1>2. QED
  BY <1>1, AuditStepIsStep, PTL DEF AuditSpec, Spec

-------------------------------------------------------------------------------
(* The invariant holds initially and is preserved by every step *)

LEMMA InitAuditInv == AuditInit => AuditInv
<1> SUFFICES ASSUME AuditInit PROVE AuditInv
  OBVIOUS
<1> USE AuditAssumption DEF AuditInit, Init
<1>1. AuditTypeOK
  BY DEF AuditTypeOK, Stages
<1>2. StageInv /\ EvidenceInv
  BY DEF StageInv, EvidenceInv, OnlyLive, Judging, Untouched, None
<1>3. VerdictInv /\ LateInv
  BY DEF VerdictInv, LateInv, None
<1>4. QED
  BY <1>1, <1>2, <1>3 DEF AuditInv

\* What every step of a worker has in common.
LEMMA WorkerMoves ==
    ASSUME AuditTypeOK, NEW t \in Targets, AuditWorker(t)
    PROVE  /\ fut[t] = "working"
           /\ UNCHANGED <<live, sentAtCancel, cancel, outcome>>
           /\ \E to \in Stages : stage' = [stage EXCEPT ![t] = to]
<1> USE DEF Goto, End, Report, Finish, vars, Stages, OnlyLive, Judging, mainVars, eventVars, workerVars
<1>1. CASE BeginLive(t) \/ Connect(t)
  BY <1>1 DEF BeginLive, Connect
<1>2. CASE LookBeforeCommand(t)
  BY <1>2 DEF LookBeforeCommand
<1>3. CASE SendCommand(t)
  BY <1>3 DEF SendCommand
<1>4. CASE BeginOffline(t) \/ LoadOutputs(t)
  BY <1>4 DEF BeginOffline, LoadOutputs
<1>5. CASE StoreEvidence(t)
  BY <1>5 DEF StoreEvidence
<1>6. CASE ResolveProfile(t) \/ ExtractAsset(t) \/ Evaluate(t)
  BY <1>6 DEF ResolveProfile, ExtractAsset, Evaluate
<1>7. QED
  BY <1>1, <1>2, <1>3, <1>4, <1>5, <1>6 DEF AuditWorker

LEMMA AuditTypeStep == AuditInv /\ [AuditNext]_allVars => AuditTypeOK'
<1> SUFFICES ASSUME AuditInv, [AuditNext]_allVars
             PROVE  AuditTypeOK'
  OBVIOUS
<1> USE AuditAssumption DEF AuditInv, AuditTypeOK
<1>1. CASE UNCHANGED auditVars
  BY <1>1 DEF auditVars
<1>2. ASSUME NEW t \in Targets, AuditWorker(t)
      PROVE  AuditTypeOK'
  <2>1. /\ UNCHANGED <<live, sentAtCancel>>
        /\ stage' \in [Targets -> Stages]
    BY <1>2, WorkerMoves
  <2>2. sent' \in [Targets -> 0..NCommands]
    <3>1. CASE SendCommand(t)
      BY <3>1 DEF SendCommand, Goto, End, EvidenceInv
    <3>2. CASE LoadOutputs(t)
      BY <3>2 DEF LoadOutputs
    <3>3. CASE UNCHANGED sent
      BY <3>3
    <3>4. QED
      BY <1>2, <3>1, <3>2, <3>3
         DEF AuditWorker, BeginLive, Connect, LookBeforeCommand, BeginOffline,
             StoreEvidence, ResolveProfile, ExtractAsset, Evaluate
  <2>3. evidence' \in [Targets -> {"none", "partial", "stored"}]
    <3>1. CASE StoreEvidence(t)
      BY <3>1 DEF StoreEvidence
    <3>2. CASE UNCHANGED evidence
      BY <3>2
    <3>3. QED
      BY <1>2, <3>1, <3>2
         DEF AuditWorker, BeginLive, Connect, LookBeforeCommand, SendCommand, BeginOffline,
             LoadOutputs, ResolveProfile, ExtractAsset, Evaluate
  <2>4. QED
    BY <2>1, <2>2, <2>3
<1>3. CASE AuditCancel
  BY <1>3 DEF AuditCancel
<1>4. QED
  BY <1>1, <1>2, <1>3 DEF AuditNext, allVars

\* What a step of the orchestrator may do to a target: its future reaches a
\* worker and comes back, and what is said or recorded of it is the
\* orchestrator's own word or what the worker returned.
Handling(u) ==
    /\ cancel' = cancel
    /\ fut[u] \in Untouched => fut'[u] \in Untouched \cup {"working", "done"}
    /\ fut[u] \notin Untouched => fut'[u] = fut[u]
    /\ outcome[u] # None => fut'[u] = fut[u]
    /\ fut'[u] \in Untouched => fut[u] \in Untouched
    /\ \/ ret'[u] = ret[u]
       \/ ret'[u] = "CANCELLED" /\ fut[u] = "entered" /\ fut'[u] = "done"
    /\ shown'[u] \in {shown[u], ret[u], "QUEUED", "CONNECTING", "CANCELLED"}
    /\ \/ outcome'[u] = outcome[u]
       \/ outcome'[u] = ret[u] /\ ret'[u] = ret[u]
       \/ outcome'[u] = "CANCELLED" /\ fut'[u] \in {"none", "withdrawn"}

LEMMA OrchestratorHandles ==
    ASSUME IInv, MainStep \/ Done \/ (\E t \in Targets : PoolStep(t)), NEW u \in Targets
    PROVE  Handling(u)
<1> USE NTargetsAssumption DEF IInv, TypeOK, Untouched, Handling
<1>1. CASE Begin \/ Admit \/ LeaveLoop \/ WaitDone \/ Purge \/ Return
  BY <1>1 DEF Begin, Admit, LeaveLoop, WaitDone, Purge, Return, workerVars, eventVars, FutureStates, Executing
<1>2. CASE Submit
  <2>1. /\ nxt + 1 \in Targets
        /\ outcome[nxt + 1] = None
        /\ fut[nxt + 1] = "none"
    BY <1>2 DEF Submit, MainInv, FutureInv, OutcomeInv, Concluding, Targets
  <2>2. QED
    BY <1>2, <2>1 DEF Submit, eventVars
<1>3. ASSUME NEW t \in Targets, Collect(t)
      PROVE  Handling(u)
  BY <1>3 DEF Collect, workerVars
<1>4. ASSUME NEW t \in Targets, Withdraw(t)
      PROVE  Handling(u)
  BY <1>4 DEF Withdraw, eventVars, MainInv, FutureInv
<1>5. CASE RepresentUnsubmitted
  BY <1>5 DEF RepresentUnsubmitted, workerVars, FutureInv
<1>6. ASSUME NEW t \in Targets, PoolStep(t)
      PROVE  Handling(u)
  BY <1>6 DEF PoolStep, PickUp, LookAtEvent, ReportConnecting, mainVars, eventVars, FutureInv, Executing
<1>7. CASE Done
  BY <1>7 DEF Done, vars
<1>8. QED
  BY <1>1, <1>2, <1>3, <1>4, <1>5, <1>6, <1>7 DEF MainStep

\* The steps of AuditSpec, as the proofs below tell them apart.
LEMMA AuditSteps ==
    ASSUME [AuditNext]_allVars
    PROVE  \/ /\ MainStep \/ Done \/ \E t \in Targets : PoolStep(t)
              /\ UNCHANGED auditVars
           \/ \E t \in Targets : AuditWorker(t)
           \/ AuditCancel
           \/ UNCHANGED allVars
BY DEF AuditNext

LEMMA StageStep == IInv /\ AuditInv /\ [AuditNext]_allVars => StageInv'
<1> SUFFICES ASSUME IInv, AuditInv, [AuditNext]_allVars, NEW u \in Targets
             PROVE  StageInv!(u)'
  BY DEF StageInv
<1> USE DEF IInv, AuditInv, AuditTypeOK, StageInv, TypeOK
<1>1. CASE /\ MainStep \/ Done \/ \E t \in Targets : PoolStep(t)
           /\ UNCHANGED auditVars
  BY <1>1, OrchestratorHandles DEF Handling, auditVars, Untouched
<1>2. ASSUME NEW t \in Targets, AuditWorker(t)
      PROVE  StageInv!(u)'
  <2> USE <1>2, WorkerMoves DEF Goto, End, Report, Finish, vars, mainVars, eventVars, workerVars,
                                OnlyLive, Untouched
  <2>1. CASE BeginLive(t) \/ Connect(t)
    BY <2>1 DEF BeginLive, Connect
  <2>2. CASE LookBeforeCommand(t) \/ SendCommand(t)
    BY <2>2 DEF LookBeforeCommand, SendCommand
  <2>3. CASE BeginOffline(t) \/ LoadOutputs(t)
    BY <2>3 DEF BeginOffline, LoadOutputs
  <2>4. CASE StoreEvidence(t) \/ ResolveProfile(t) \/ ExtractAsset(t) \/ Evaluate(t)
    BY <2>4 DEF StoreEvidence, ResolveProfile, ExtractAsset, Evaluate
  <2>5. QED
    BY <2>1, <2>2, <2>3, <2>4 DEF AuditWorker
<1>3. CASE AuditCancel
  BY <1>3 DEF AuditCancel, RequestCancel, workerVars
<1>4. CASE UNCHANGED allVars
  BY <1>4 DEF allVars, vars, auditVars
<1>5. QED
  BY <1>1, <1>2, <1>3, <1>4, AuditSteps

\* Evidence is stored in one step, from a full collection.
LEMMA EvidenceStep == AuditInv /\ [AuditNext]_allVars => EvidenceInv'
<1> SUFFICES ASSUME AuditInv, [AuditNext]_allVars, NEW u \in Targets
             PROVE  EvidenceInv!(u)'
  BY DEF EvidenceInv
<1> USE AuditAssumption DEF AuditInv, AuditTypeOK, EvidenceInv
<1>1. CASE UNCHANGED auditVars
  BY <1>1 DEF auditVars
<1>2. ASSUME NEW t \in Targets, AuditWorker(t)
      PROVE  EvidenceInv!(u)'
  <2> USE <1>2 DEF Goto, End, OnlyLive, Judging
  <2>1. CASE BeginLive(t) \/ Connect(t)
    BY <2>1 DEF BeginLive, Connect
  <2>2. CASE LookBeforeCommand(t)
    BY <2>2 DEF LookBeforeCommand
  <2>3. CASE SendCommand(t)
    BY <2>3 DEF SendCommand
  <2>4. CASE BeginOffline(t) \/ LoadOutputs(t)
    BY <2>4 DEF BeginOffline, LoadOutputs
  <2>5. CASE StoreEvidence(t)
    BY <2>5 DEF StoreEvidence
  <2>6. CASE ResolveProfile(t) \/ ExtractAsset(t) \/ Evaluate(t)
    BY <2>6 DEF ResolveProfile, ExtractAsset, Evaluate
  <2>7. QED
    BY <2>1, <2>2, <2>3, <2>4, <2>5, <2>6 DEF AuditWorker
<1>3. CASE AuditCancel
  BY <1>3 DEF AuditCancel
<1>4. QED
  BY <1>1, <1>2, <1>3, AuditSteps DEF allVars

LEMMA VerdictStep == IInv /\ AuditInv /\ [AuditNext]_allVars => VerdictInv'
<1> SUFFICES ASSUME IInv, AuditInv, [AuditNext]_allVars, NEW u \in Targets
             PROVE  VerdictInv!(u)'
  BY DEF VerdictInv
<1> USE StatusAssumption
    DEF IInv, AuditInv, AuditTypeOK, StageInv, EvidenceInv, VerdictInv, TypeOK, ConnectionFailures
<1>1. CASE /\ MainStep \/ Done \/ \E t \in Targets : PoolStep(t)
           /\ UNCHANGED auditVars
  <2>1. Handling(u)
    BY <1>1, OrchestratorHandles
  <2>2. UNCHANGED evidence
    BY <1>1 DEF auditVars
  <2>3. fut[u] \in Untouched => evidence[u] = "none"
    OBVIOUS
  <2>4. shown'[u] \in {"PARSING", "EVALUATING", "COMPLETE"} => evidence'[u] = "stored"
    BY <2>1, <2>2 DEF Handling, TerminalStatuses, FailureStatuses, None
  <2>5. /\ ret'[u] = "COMPLETE" => evidence'[u] = "stored"
        /\ ret'[u] \in {"CANCELLED"} \cup ConnectionFailures => evidence'[u] = "none"
    BY <2>1, <2>2, <2>3 DEF Handling, Untouched
  <2>6. outcome'[u] # None =>
          \/ outcome'[u] = ret'[u]
          \/ outcome'[u] = "CANCELLED" /\ fut'[u] \in {"none", "withdrawn"}
    <3>1. CASE outcome'[u] = outcome[u]
      <4>1. outcome[u] # None => fut'[u] = fut[u] /\ ret'[u] = ret[u]
        BY <2>1 DEF Handling
      <4>2. QED
        BY <3>1, <4>1
    <3>2. CASE outcome'[u] = ret[u] /\ ret'[u] = ret[u]
      BY <3>2
    <3>3. CASE outcome'[u] = "CANCELLED" /\ fut'[u] \in {"none", "withdrawn"}
      BY <3>3
    <3>4. QED
      BY <2>1, <3>1, <3>2, <3>3 DEF Handling
  <2>7. QED
    BY <2>4, <2>5, <2>6
<1>2. ASSUME NEW t \in Targets, AuditWorker(t)
      PROVE  VerdictInv!(u)'
  <2> USE <1>2, WorkerMoves DEF Goto, End, Report, Finish, vars, mainVars, eventVars, workerVars,
                                OnlyLive, Judging, FailureStatuses, None
  <2>1. CASE BeginLive(t) \/ Connect(t)
    BY <2>1 DEF BeginLive, Connect
  <2>2. CASE LookBeforeCommand(t)
    BY <2>2 DEF LookBeforeCommand
  <2>3. CASE SendCommand(t)
    BY <2>3 DEF SendCommand
  <2>4. CASE BeginOffline(t) \/ LoadOutputs(t)
    BY <2>4 DEF BeginOffline, LoadOutputs
  <2>5. CASE StoreEvidence(t)
    BY <2>5 DEF StoreEvidence
  <2>6. CASE ResolveProfile(t) \/ ExtractAsset(t)
    BY <2>6 DEF ResolveProfile, ExtractAsset
  <2>7. CASE Evaluate(t)
    BY <2>7 DEF Evaluate
  <2>8. QED
    BY <2>1, <2>2, <2>3, <2>4, <2>5, <2>6, <2>7 DEF AuditWorker
<1>3. CASE AuditCancel
  BY <1>3 DEF AuditCancel, RequestCancel, workerVars, eventVars
<1>4. CASE UNCHANGED allVars
  BY <1>4 DEF allVars, vars, auditVars
<1>5. QED
  BY <1>1, <1>2, <1>3, <1>4, AuditSteps

LEMMA LateStep == IInv /\ AuditInv /\ [AuditNext]_allVars => LateInv'
<1> SUFFICES ASSUME IInv, AuditInv, [AuditNext]_allVars, cancel', NEW u \in Targets, live'
             PROVE  /\ sent'[u] <= sentAtCancel'[u] + 1
                    /\ stage'[u] = "send" => sent'[u] <= sentAtCancel'[u]
  BY DEF LateInv
<1> USE AuditAssumption DEF IInv, AuditInv, AuditTypeOK, StageInv, LateInv, TypeOK
<1>1. CASE /\ MainStep \/ Done \/ \E t \in Targets : PoolStep(t)
           /\ UNCHANGED auditVars
  BY <1>1, OrchestratorHandles DEF Handling, auditVars
<1>2. ASSUME NEW t \in Targets, AuditWorker(t)
      PROVE  /\ sent'[u] <= sentAtCancel'[u] + 1
             /\ stage'[u] = "send" => sent'[u] <= sentAtCancel'[u]
  <2> USE <1>2, WorkerMoves DEF Goto, End
  <2>1. cancel /\ live
    OBVIOUS
  <2>2. CASE BeginLive(t) \/ Connect(t)
    BY <2>1, <2>2 DEF BeginLive, Connect
  <2>3. CASE LookBeforeCommand(t)
    BY <2>1, <2>3 DEF LookBeforeCommand
  <2>4. CASE SendCommand(t)
    BY <2>1, <2>4 DEF SendCommand
  <2>5. CASE BeginOffline(t) \/ LoadOutputs(t)
    BY <2>1, <2>5 DEF BeginOffline, LoadOutputs
  <2>6. CASE StoreEvidence(t) \/ ResolveProfile(t) \/ ExtractAsset(t) \/ Evaluate(t)
    BY <2>1, <2>6 DEF StoreEvidence, ResolveProfile, ExtractAsset, Evaluate
  <2>7. QED
    BY <2>2, <2>3, <2>4, <2>5, <2>6 DEF AuditWorker
<1>3. CASE AuditCancel
  BY <1>3 DEF AuditCancel
<1>4. CASE UNCHANGED allVars
  BY <1>4 DEF allVars, vars, auditVars
<1>5. QED
  BY <1>1, <1>2, <1>3, <1>4, AuditSteps

\* The two invariants, of the orchestrator and of its workers, hold together.
THEOREM AuditInvariance == AuditSpec => [](IInv /\ AuditInv)
<1>1. AuditInv /\ IInv /\ [AuditNext]_allVars => AuditInv'
  BY AuditTypeStep, StageStep, EvidenceStep, VerdictStep, LateStep DEF AuditInv
<1>2. AuditSpec => []IInv
  BY WorkersKeepContract, Invariance
<1>3. QED
  BY InitAuditInv, <1>1, <1>2, PTL DEF AuditSpec

-------------------------------------------------------------------------------
(* The properties of run "audit" *)

\* Types of stage, sent and evidence, and of the orchestrator's variables.
THEOREM AuditTypeCorrect == AuditSpec => [](TypeOK /\ AuditTypeOK)
<1>1. IInv /\ AuditInv => TypeOK /\ AuditTypeOK
  BY DEF IInv, AuditInv
<1>2. QED
  BY AuditInvariance, <1>1, PTL

\* Whatever a device is reported or judged to be, its complete evidence is in
\* the sink before: no later failure can leave a verdict without its bytes.
THEOREM JudgedEvidenceIsStored == AuditSpec => []EvidenceBeforeJudgement
<1>1. IInv /\ AuditInv => EvidenceBeforeJudgement
  BY DEF AuditInv, VerdictInv, EvidenceBeforeJudgement
<1>2. QED
  BY AuditInvariance, <1>1, PTL

\* A collection that was cut off leaves no evidence, and neither does a target
\* that was withdrawn or never submitted.
THEOREM NoFragmentOfCollection == AuditSpec => []EvidenceIsOfFullCollection
<1>1. ASSUME IInv, AuditInv, NEW t \in Targets
      PROVE  /\ evidence[t] # "none" => sent[t] = NCommands
             /\ outcome[t] \in {"CANCELLED"} \cup ConnectionFailures => evidence[t] = "none"
  <2>1. evidence[t] # "none" => sent[t] = NCommands
    BY <1>1 DEF AuditInv, EvidenceInv
  <2>2. CASE outcome[t] = "CANCELLED" /\ fut[t] \in {"none", "withdrawn"}
    BY <1>1, <2>1, <2>2 DEF AuditInv, StageInv, EvidenceInv, Untouched
  <2>3. CASE outcome[t] = ret[t]
    BY <1>1, <2>1, <2>3 DEF AuditInv, VerdictInv
  <2>4. CASE outcome[t] = None
    BY <2>1, <2>4, StatusAssumption DEF ConnectionFailures, FailureStatuses, None
  <2>5. QED
    BY <1>1, <2>2, <2>3, <2>4 DEF AuditInv, VerdictInv
<1>2. IInv /\ AuditInv => EvidenceIsOfFullCollection
  BY <1>1 DEF EvidenceIsOfFullCollection
<1>3. QED
  BY AuditInvariance, <1>2, PTL

\* After a cancellation at most one more command reaches each device.
THEOREM CancellationStopsCommands == AuditSpec => []AtMostOneMoreCommand
<1>1. IInv /\ AuditInv => AtMostOneMoreCommand
  BY DEF AuditInv, LateInv, AtMostOneMoreCommand
<1>2. QED
  BY AuditInvariance, <1>1, PTL
===============================================================================
