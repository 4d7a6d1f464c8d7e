------------------------ MODULE ScanOrchestratorProofs ------------------------
(***************************************************************************)
(* Theorems about ScanOrchestrator, for every number of targets and every  *)
(* concurrency the constructor accepts.                                    *)
(***************************************************************************)
EXTENDS ScanOrchestrator, FiniteSetTheorems, TLAPS

-------------------------------------------------------------------------------
(* The inductive invariant *)

Concluding == {"summarise", "returned"}

\* What the main thread knows between two of its steps.
MainInv ==
    /\ phase = "begin" => nxt = 0
    /\ admitted => /\ phase \in {"prime", "refill"}
                   /\ nxt < NTargets
                   /\ Cardinality(pending) < Concurrency
    /\ Cardinality(pending) <= Concurrency
    /\ phase \in {"collect", "withdraw"} <=> batch # {}
    /\ batch \subseteq pending
    /\ phase = "collect" => \A t \in batch : fut[t] = "done"
    /\ phase = "withdraw" => cancel
    /\ phase \in {"purge", "withdraw", "wait"} /\ pending = {} /\ nxt < NTargets
          => cancel
    /\ phase \in Concluding => pending = {}

\* The pending dict is exactly the submitted targets without an outcome; a
\* future is in the executor only while its target is pending.
FutureInv ==
    \A t \in Targets :
        /\ fut[t] = "none" <=> t > nxt
        /\ fut[t] \in Executing \cup {"queued"} => t \in pending
        /\ t \in pending => fut[t] \in Executing \cup {"queued", "done"}
        /\ t \in pending => outcome[t] = None
        /\ t <= nxt /\ t \notin pending => outcome[t] # None
        /\ fut[t] = "done" => ret[t] # None
        /\ ret[t] = "CANCELLED" => cancel

\* Outcomes and what the reader of the queue was told about them.
OutcomeInv ==
    /\ \A t \in Targets :
        /\ outcome[t] = "CANCELLED" => cancel
        /\ t > nxt /\ phase \notin Concluding => outcome[t] = None
        /\ t > nxt /\ phase \in Concluding => outcome[t] # None
        /\ outcome[t] # None => shown[t] = outcome[t] \/ fut[t] = "withdrawn"
    /\ phase = "returned" <=> final # None
    /\ phase = "returned" => final = RunStatusOf(outcome, cancel)

\* What cancellation can still be overtaken by.
CancelInv ==
    cancel => /\ nxt <= atCancel.nxt + 1
              /\ admitted => nxt <= atCancel.nxt
              /\ Cleared \subseteq atCancel.cleared

IInv == TypeOK /\ MainInv /\ FutureInv /\ OutcomeInv /\ CancelInv

-------------------------------------------------------------------------------
(* Finite sets of targets *)

\* Every set of targets is finite and no larger than the target list.
LEMMA TargetSets ==
    \A S \in SUBSET Targets :
        /\ IsFiniteSet(S)
        /\ Cardinality(S) \in 0..NTargets
<1>1. IsFiniteSet(Targets) /\ Cardinality(Targets) = NTargets
  <2>1. NTargets \in Int /\ 1 \in Int
    BY NTargetsAssumption
  <2>2. /\ IsFiniteSet(1..NTargets)
        /\ Cardinality(1..NTargets) = IF 1 > NTargets THEN 0 ELSE NTargets - 1 + 1
    BY <2>1, FS_Interval
  <2>3. QED
    BY <2>2, NTargetsAssumption DEF Targets
<1>2. SUFFICES ASSUME NEW S \in SUBSET Targets
               PROVE  IsFiniteSet(S) /\ Cardinality(S) \in 0..NTargets
  OBVIOUS
<1>3. IsFiniteSet(S) /\ Cardinality(S) <= NTargets
  BY <1>1, FS_Subset
<1>4. Cardinality(S) \in Nat
  BY <1>3, FS_CardinalityType
<1>5. QED
  BY <1>3, <1>4, NTargetsAssumption

\* Submitting adds at most one to the pending dict, collecting removes one.
LEMMA OneMoreOneLess ==
    ASSUME NEW S \in SUBSET Targets, NEW t
    PROVE  /\ Cardinality(S \cup {t}) <= Cardinality(S) + 1
           /\ Cardinality(S \ {t}) <= Cardinality(S)
<1>1. IsFiniteSet(S) /\ Cardinality(S) \in Int
  BY TargetSets, NTargetsAssumption
<1>2. Cardinality(S \cup {t}) = IF t \in S THEN Cardinality(S) ELSE Cardinality(S) + 1
  BY <1>1, FS_AddElement
<1>3. Cardinality(S \ {t}) = IF t \in S THEN Cardinality(S) - 1 ELSE Cardinality(S)
  BY <1>1, FS_RemoveElement
<1>4. QED
  BY <1>1, <1>2, <1>3

\* _run_status answers with one of the four final statuses.
LEMMA RunStatusType ==
    ASSUME NEW o, NEW c
    PROVE  RunStatusOf(o, c) \in FinalRunStatuses
BY DEF RunStatusOf, FinalRunStatuses

-------------------------------------------------------------------------------
(* The invariant holds initially and is preserved by every step *)

LEMMA InitIInv == Init => IInv
<1> SUFFICES ASSUME Init PROVE IInv
  OBVIOUS
<1> USE NTargetsAssumption, ConcurrencyAssumption DEF Init
<1>1. TypeOK
  <2>1. phase = "begin" /\ nxt \in 0..NTargets /\ progress \in 0..NTargets
    OBVIOUS
  <2>2. pending \subseteq Targets /\ batch \subseteq Targets
    OBVIOUS
  <2>3. fut \in [Targets -> FutureStates]
    BY DEF FutureStates
  <2>4. /\ ret \in [Targets -> TerminalStatuses \cup {None}]
        /\ outcome \in [Targets -> TerminalStatuses \cup {None}]
        /\ shown \in [Targets -> DeviceStatuses \cup {None}]
    OBVIOUS
  <2>5. atCancel \in [nxt : 0..NTargets, cleared : SUBSET Targets]
    OBVIOUS
  <2>6. QED
    BY <2>1, <2>2, <2>3, <2>4, <2>5 DEF TypeOK
<1>2. MainInv
  BY FS_EmptySet DEF MainInv, Concluding
<1>3. FutureInv
  BY DEF FutureInv, Targets, Executing, None
<1>4. OutcomeInv /\ CancelInv
  BY DEF OutcomeInv, CancelInv, Concluding, Targets, None
<1>5. QED
  BY <1>1, <1>2, <1>3, <1>4 DEF IInv

LEMMA TypeStep == IInv /\ [Next]_vars => TypeOK'
<1> SUFFICES ASSUME IInv, [Next]_vars
             PROVE  TypeOK'
  OBVIOUS
<1> USE NTargetsAssumption, StatusAssumption DEF IInv, TypeOK
<1>1. CASE Begin
  BY <1>1 DEF Begin, workerVars, DeviceStatuses
<1>2. CASE Admit \/ LeaveLoop \/ WaitDone \/ Purge
  BY <1>2 DEF Admit, LeaveLoop, WaitDone, Purge, workerVars, eventVars
<1>3. CASE Submit
  <2>1. nxt + 1 \in Targets
    BY <1>3 DEF Submit, MainInv, Targets
  <2>2. nxt' \in 0..NTargets
    BY <1>3, <2>1 DEF Submit, Targets
  <2>3. QED
    BY <1>3, <2>1, <2>2 DEF Submit, eventVars, FutureStates
<1>4. ASSUME NEW t \in Targets, Collect(t)
      PROVE  TypeOK'
  <2>1. {u \in Targets : outcome'[u] # None} \in SUBSET Targets
    OBVIOUS
  <2>2. progress' \in 0..NTargets
    BY <1>4, <2>1, TargetSets DEF Collect
  <2>3. QED
    BY <1>4, <2>2 DEF Collect, workerVars, DeviceStatuses
<1>5. ASSUME NEW t \in Targets, Withdraw(t)
      PROVE  TypeOK'
  BY <1>5 DEF Withdraw, eventVars, FutureStates, TerminalStatuses
<1>6. CASE RepresentUnsubmitted
  BY <1>6 DEF RepresentUnsubmitted, workerVars, DeviceStatuses, TerminalStatuses
<1>7. CASE Return
  BY <1>7, RunStatusType DEF Return, workerVars
<1>8. ASSUME NEW t \in Targets, PoolStep(t)
      PROVE  TypeOK'
  BY <1>8 DEF PoolStep, PickUp, LookAtEvent, ReportConnecting, mainVars, eventVars,
              FutureStates, Executing, TerminalStatuses, DeviceStatuses, InFlightStatuses
<1>9. ASSUME NEW t \in Targets, WorkerStep(t)
      PROVE  TypeOK'
  BY <1>9 DEF WorkerStep, Report, Finish, Returnable, mainVars, workerVars, eventVars,
              FutureStates, TerminalStatuses, DeviceStatuses
<1>10. CASE RequestCancel
  BY <1>10 DEF RequestCancel, mainVars, workerVars, eventVars, Cleared
<1>11. CASE UNCHANGED vars
  BY <1>11 DEF vars
<1>12. QED
  BY <1>1, <1>2, <1>3, <1>4, <1>5, <1>6, <1>7, <1>8, <1>9, <1>10, <1>11
     DEF Next, MainStep, Done

LEMMA MainStepInv == IInv /\ [Next]_vars => MainInv'
<1> SUFFICES ASSUME IInv, [Next]_vars
             PROVE  MainInv'
  OBVIOUS
<1> USE NTargetsAssumption, ConcurrencyAssumption DEF IInv, MainInv, Concluding
<1>1. Cardinality(pending) \in Nat /\ Cardinality({}) = 0
  BY TargetSets, FS_EmptySet, NTargetsAssumption DEF TypeOK
<1>2. CASE Begin
  BY <1>2 DEF Begin, workerVars, TypeOK
<1>3. CASE Admit
  BY <1>3 DEF Admit, MayAdmit, workerVars, eventVars, TypeOK
<1>4. CASE Submit
  <2>1. nxt + 1 \in Targets
    BY <1>4 DEF Submit, Targets, TypeOK
  <2>2. Cardinality(pending') <= Cardinality(pending) + 1
    BY <1>4, OneMoreOneLess DEF Submit, TypeOK
  <2>3. Cardinality(pending') \in Nat /\ Cardinality(pending') <= Concurrency
    BY <1>1, <1>4, <2>1, <2>2, TargetSets DEF Submit, TypeOK
  <2>4. QED
    BY <1>4, <2>1, <2>3 DEF Submit, eventVars, TypeOK
<1>5. CASE LeaveLoop
  BY <1>1, <1>5 DEF LeaveLoop, MayAdmit, workerVars, eventVars, TypeOK
<1>6. CASE WaitDone
  BY <1>6 DEF WaitDone, workerVars, eventVars, TypeOK
<1>7. ASSUME NEW t \in Targets, Collect(t)
      PROVE  MainInv'
  <2>1. Cardinality(pending') <= Cardinality(pending)
    BY <1>7, OneMoreOneLess DEF Collect, TypeOK
  <2>2. Cardinality(pending') \in Nat
    BY <1>7, TargetSets, NTargetsAssumption DEF Collect, TypeOK
  <2>3. QED
    BY <1>1, <1>7, <2>1, <2>2 DEF Collect, workerVars, TypeOK
<1>8. CASE Purge
  BY <1>8 DEF Purge, workerVars, eventVars, TypeOK
<1>9. ASSUME NEW t \in Targets, Withdraw(t)
      PROVE  MainInv'
  <2>1. pending' = pending \/ pending' = pending \ {t}
    BY <1>9 DEF Withdraw
  <2>2. Cardinality(pending') \in Nat /\ Cardinality(pending') <= Cardinality(pending)
    <3>1. Cardinality(pending \ {t}) <= Cardinality(pending)
      BY OneMoreOneLess DEF TypeOK
    <3>2. Cardinality(pending \ {t}) \in Nat
      BY TargetSets, NTargetsAssumption DEF TypeOK
    <3>3. QED
      BY <1>1, <2>1, <3>1, <3>2
  <2>3. cancel' /\ phase' \in {"wait", "withdraw"} /\ ~admitted'
    BY <1>9 DEF Withdraw
  <2>4. /\ batch' \subseteq pending'
        /\ phase' = "withdraw" <=> batch' # {}
    BY <1>9, <2>1 DEF Withdraw
  <2>5. QED
    BY <1>1, <2>2, <2>3, <2>4
<1>10. CASE RepresentUnsubmitted \/ Return
  BY <1>10 DEF RepresentUnsubmitted, Return, workerVars, eventVars, TypeOK
<1>11. ASSUME NEW t \in Targets, PoolStep(t)
       PROVE  MainInv'
  BY <1>11 DEF PoolStep, PickUp, LookAtEvent, ReportConnecting, mainVars, eventVars, TypeOK
<1>12. ASSUME NEW t \in Targets, WorkerStep(t)
       PROVE  MainInv'
  BY <1>12 DEF WorkerStep, Report, Finish, mainVars, workerVars, eventVars, TypeOK
<1>13. CASE RequestCancel
  BY <1>13 DEF RequestCancel, mainVars, workerVars, eventVars, TypeOK
<1>14. CASE UNCHANGED vars
  BY <1>14 DEF vars
<1>15. QED
  BY <1>2, <1>3, <1>4, <1>5, <1>6, <1>7, <1>8, <1>9, <1>10, <1>11, <1>12, <1>13, <1>14
     DEF Next, MainStep, Done

LEMMA FutureStep == IInv /\ [Next]_vars => FutureInv'
<1> SUFFICES ASSUME IInv, [Next]_vars,
                    NEW u \in Targets
             PROVE  FutureInv!(u)'
  BY DEF FutureInv
<1> USE NTargetsAssumption DEF IInv, FutureInv, TypeOK, Executing
<1>1. CASE Begin \/ Admit \/ LeaveLoop \/ WaitDone \/ Purge \/ Return
  BY <1>1 DEF Begin, Admit, LeaveLoop, WaitDone, Purge, Return, workerVars, eventVars
<1>2. CASE Submit
  <2>1. nxt + 1 \in Targets
    BY <1>2 DEF Submit, MainInv, Targets
  <2>2. outcome[nxt + 1] = None
    BY <1>2, <2>1 DEF Submit, MainInv, OutcomeInv, Concluding
  <2>3. QED
    BY <1>2, <2>1, <2>2 DEF Submit, Targets
<1>3. ASSUME NEW t \in Targets, Collect(t)
      PROVE  FutureInv!(u)'
  BY <1>3 DEF Collect, MainInv, workerVars
<1>4. ASSUME NEW t \in Targets, Withdraw(t)
      PROVE  FutureInv!(u)'
  BY <1>4 DEF Withdraw, None
<1>5. CASE RepresentUnsubmitted
  BY <1>5 DEF RepresentUnsubmitted, workerVars, Targets, None
<1>6. ASSUME NEW t \in Targets, PoolStep(t)
      PROVE  FutureInv!(u)'
  BY <1>6 DEF PoolStep, PickUp, LookAtEvent, ReportConnecting, mainVars, eventVars, None
<1>7. ASSUME NEW t \in Targets, WorkerStep(t)
      PROVE  FutureInv!(u)'
  BY <1>7, StatusAssumption
     DEF WorkerStep, Report, Finish, Returnable, mainVars, workerVars, eventVars,
         FailureStatuses, None
<1>8. CASE RequestCancel
  BY <1>8 DEF RequestCancel, mainVars, workerVars, eventVars
<1>9. CASE UNCHANGED vars
  BY <1>9 DEF vars
<1>10. QED
  BY <1>1, <1>2, <1>3, <1>4, <1>5, <1>6, <1>7, <1>8, <1>9 DEF Next, MainStep, Done

LEMMA OutcomeStep == IInv /\ [Next]_vars => OutcomeInv'
<1> SUFFICES ASSUME IInv, [Next]_vars
             PROVE  OutcomeInv'
  OBVIOUS
<1> USE NTargetsAssumption DEF IInv, OutcomeInv, TypeOK, Concluding
<1>1. CASE Begin \/ Admit \/ LeaveLoop \/ WaitDone \/ Purge
  BY <1>1 DEF Begin, Admit, LeaveLoop, WaitDone, Purge, workerVars, eventVars, MainInv, Targets
<1>2. CASE Submit
  BY <1>2 DEF Submit, eventVars, MainInv, Targets
<1>3. ASSUME NEW t \in Targets, Collect(t)
      PROVE  OutcomeInv'
  BY <1>3 DEF Collect, MainInv, FutureInv, workerVars
<1>4. ASSUME NEW t \in Targets, Withdraw(t)
      PROVE  OutcomeInv'
  BY <1>4 DEF Withdraw, MainInv, FutureInv, eventVars, None
<1>5. CASE RepresentUnsubmitted
  <2>1. /\ phase = "wait" /\ phase' = "summarise" /\ pending = {}
        /\ UNCHANGED <<nxt, fut, cancel, final>>
    BY <1>5 DEF RepresentUnsubmitted, workerVars
  <2>2. ASSUME NEW t \in Targets
        PROVE  /\ outcome'[t] = "CANCELLED" => cancel'
               /\ outcome'[t] # None
               /\ outcome'[t] # None => shown'[t] = outcome'[t] \/ fut'[t] = "withdrawn"
    <3>1. CASE t > nxt
      BY <1>5, <2>1, <3>1 DEF RepresentUnsubmitted, MainInv, Targets, None
    <3>2. CASE ~(t > nxt)
      <4>1. outcome'[t] = outcome[t] /\ shown'[t] = shown[t]
        BY <1>5, <3>2 DEF RepresentUnsubmitted
      <4>2. outcome[t] # None
        BY <2>1, <3>2 DEF FutureInv, Targets
      <4>3. QED
        BY <2>1, <4>1, <4>2
    <3>3. QED
      BY <3>1, <3>2
  <2>3. QED
    BY <2>1, <2>2
<1>6. CASE Return
  BY <1>6, RunStatusType DEF Return, workerVars, None, FinalRunStatuses
<1>7. ASSUME NEW t \in Targets, PoolStep(t)
      PROVE  OutcomeInv'
  BY <1>7 DEF PoolStep, PickUp, LookAtEvent, ReportConnecting, mainVars, eventVars,
              FutureInv, Executing
<1>8. ASSUME NEW t \in Targets, WorkerStep(t)
      PROVE  OutcomeInv'
  BY <1>8 DEF WorkerStep, Report, Finish, mainVars, workerVars, eventVars,
              FutureInv, Executing
<1>9. CASE RequestCancel
  BY <1>9 DEF RequestCancel, mainVars, workerVars, eventVars
<1>10. CASE UNCHANGED vars
  BY <1>10 DEF vars
<1>11. QED
  BY <1>1, <1>2, <1>3, <1>4, <1>5, <1>6, <1>7, <1>8, <1>9, <1>10 DEF Next, MainStep, Done

LEMMA CancelStep == IInv /\ [Next]_vars => CancelInv'
<1> SUFFICES ASSUME IInv, [Next]_vars
             PROVE  CancelInv'
  OBVIOUS
<1> USE NTargetsAssumption DEF IInv, CancelInv, TypeOK, Cleared
<1>1. CASE Begin \/ LeaveLoop \/ WaitDone \/ Purge \/ RepresentUnsubmitted \/ Return
  BY <1>1 DEF Begin, LeaveLoop, WaitDone, Purge, RepresentUnsubmitted, Return,
              workerVars, eventVars
<1>2. CASE Admit
  BY <1>2 DEF Admit, MayAdmit
<1>3. CASE Submit
  BY <1>3 DEF Submit, eventVars
<1>4. ASSUME NEW t \in Targets, Collect(t) \/ Withdraw(t)
      PROVE  CancelInv'
  BY <1>4 DEF Collect, Withdraw, workerVars, eventVars
<1>5. ASSUME NEW t \in Targets, PoolStep(t)
      PROVE  CancelInv'
  BY <1>5 DEF PoolStep, PickUp, LookAtEvent, ReportConnecting, mainVars, eventVars
<1>6. ASSUME NEW t \in Targets, WorkerStep(t)
      PROVE  CancelInv'
  BY <1>6 DEF WorkerStep, Report, Finish, mainVars, workerVars, eventVars
<1>7. CASE RequestCancel
  BY <1>7 DEF RequestCancel, mainVars, workerVars, eventVars, MainInv
<1>8. CASE UNCHANGED vars
  BY <1>8 DEF vars
<1>9. QED
  BY <1>1, <1>2, <1>3, <1>4, <1>5, <1>6, <1>7, <1>8 DEF Next, MainStep, Done

\* IInv is an invariant of every run: what the theorems below start from.
THEOREM Invariance == Spec => []IInv
<1>1. IInv /\ [Next]_vars => IInv'
  BY TypeStep, MainStepInv, FutureStep, OutcomeStep, CancelStep DEF IInv
<1>2. QED
  BY InitIInv, <1>1, PTL DEF Spec

-------------------------------------------------------------------------------
(* The properties the runs check *)

\* Type correctness of one run of the orchestrator.
THEOREM TypeCorrect == Spec => []TypeOK
<1>1. IInv => TypeOK
  BY DEF IInv
<1>2. QED
  BY Invariance, <1>1, PTL

\* The concurrency bound of the constructor holds in every state, and no
\* device is worked on that the pending dict does not account for.
THEOREM ConcurrencyBounded == Spec => []StrictConcurrencyBound
<1>1. IInv => StrictConcurrencyBound
  BY DEF IInv, MainInv, FutureInv, StrictConcurrencyBound, InPool, Executing
<1>2. QED
  BY Invariance, <1>1, PTL

\* run never returns a summary with a missing or non-terminal outcome, nor a
\* CANCELLED one nobody asked for.
THEOREM OutcomesComplete == Spec => []ReturnsPossibleOutcomes
<1>1. IInv => ReturnsPossibleOutcomes
  <2> SUFFICES ASSUME IInv, phase = "returned"
               PROVE  outcome \in PossibleOutcomes(Targets, cancel)
    BY DEF ReturnsPossibleOutcomes
  <2>1. \A t \in Targets : outcome[t] # None
    BY NTargetsAssumption
       DEF IInv, TypeOK, MainInv, FutureInv, OutcomeInv, Concluding, Targets
  <2>2. \A t \in Targets : outcome[t] = "CANCELLED" => cancel
    BY DEF IInv, OutcomeInv
  <2>3. outcome \in [Targets -> TerminalStatuses]
    BY <2>1 DEF IInv, TypeOK
  <2>4. CASE cancel
    BY <2>3, <2>4 DEF PossibleOutcomes
  <2>5. CASE ~cancel
    BY <2>2, <2>3, <2>5 DEF PossibleOutcomes
  <2>6. QED
    BY <2>4, <2>5
<1>2. QED
  BY Invariance, <1>1, PTL

\* A cancellation is overtaken by at most the one submission whose guard had
\* already been passed.
THEOREM CancellationBoundsSubmission == Spec => []CancelBoundsSubmission
<1>1. IInv => CancelBoundsSubmission
  BY DEF IInv, CancelInv, CancelBoundsSubmission
<1>2. QED
  BY Invariance, <1>1, PTL

\* After a cancellation no further worker is started.
THEOREM CancellationStopsContact == Spec => []CancelStopsContact
<1>1. IInv => CancelStopsContact
  BY DEF IInv, CancelInv, CancelStopsContact
<1>2. QED
  BY Invariance, <1>1, PTL

\* The queue's reader knows every outcome but those withdrawn in the queue.
THEOREM OutcomesAnnounced == Spec => []ReaderIsTold
<1>1. IInv => ReaderIsTold
  <2> SUFFICES ASSUME IInv, phase = "returned", NEW t \in Targets
               PROVE  shown[t] = outcome[t] \/ fut[t] = "withdrawn"
    BY DEF ReaderIsTold
  <2>1. outcome[t] # None
    BY NTargetsAssumption
       DEF IInv, TypeOK, MainInv, FutureInv, OutcomeInv, Concluding, Targets
  <2>2. QED
    BY <2>1 DEF IInv, OutcomeInv
<1>2. QED
  BY Invariance, <1>1, PTL

\* A recorded outcome is final and the last word about its device.
THEOREM DecisionsAreFinal == Spec => DecidedIsQuiet
<1>1. ASSUME IInv, [Next]_vars, NEW u \in Targets, outcome[u] # None
      PROVE  outcome'[u] = outcome[u] /\ shown'[u] = shown[u]
  <2> USE <1>1, NTargetsAssumption
  <2>1. /\ u \notin pending
        /\ fut[u] \notin Executing
    BY DEF IInv, FutureInv
  <2>2. phase \notin Concluding => u <= nxt
    BY DEF IInv, TypeOK, OutcomeInv, Targets
  <2>3. CASE Begin
    BY <2>2, <2>3 DEF Begin, IInv, MainInv, Concluding, Targets
  <2>4. CASE Admit \/ Submit \/ LeaveLoop \/ WaitDone \/ Purge \/ Return
    BY <2>4 DEF Admit, Submit, LeaveLoop, WaitDone, Purge, Return, eventVars
  <2>5. ASSUME NEW t \in Targets, Collect(t)
        PROVE  outcome'[u] = outcome[u] /\ shown'[u] = shown[u]
    BY <2>1, <2>5 DEF Collect, IInv, MainInv, TypeOK
  <2>6. ASSUME NEW t \in Targets, Withdraw(t)
        PROVE  outcome'[u] = outcome[u] /\ shown'[u] = shown[u]
    BY <2>1, <2>6 DEF Withdraw, IInv, MainInv, TypeOK, eventVars
  <2>7. CASE RepresentUnsubmitted
    BY <2>2, <2>7 DEF RepresentUnsubmitted, Concluding, IInv, TypeOK, Targets
  <2>8. ASSUME NEW t \in Targets, PoolStep(t)
        PROVE  outcome'[u] = outcome[u] /\ shown'[u] = shown[u]
    BY <2>1, <2>8 DEF PoolStep, PickUp, LookAtEvent, ReportConnecting, IInv, TypeOK,
                      eventVars, Executing
  <2>9. ASSUME NEW t \in Targets, WorkerStep(t)
        PROVE  outcome'[u] = outcome[u] /\ shown'[u] = shown[u]
    BY <2>1, <2>9 DEF WorkerStep, Report, Finish, IInv, TypeOK, eventVars, Executing
  <2>10. CASE RequestCancel \/ UNCHANGED vars
    BY <2>10 DEF RequestCancel, eventVars, vars
  <2>11. QED
    BY <2>3, <2>4, <2>5, <2>6, <2>7, <2>8, <2>9, <2>10 DEF Next, MainStep, Done
<1>2. IInv /\ [Next]_vars =>
        [\A t \in Targets : outcome[t] # None =>
            outcome'[t] = outcome[t] /\ shown'[t] = shown[t]]_vars
  BY <1>1
<1>3. QED
  BY Invariance, <1>2, PTL DEF Spec, DecidedIsQuiet

\* What the counting early returns of _run_status mean: the counts of complete
\* and cancelled targets are compared with each other and with the total, and
\* the answer is the one that quantifies over the targets.
LEMMA StatusMeaning ==
    ASSUME NEW o \in [Targets -> TerminalStatuses], NEW c \in BOOLEAN,
           Targets # {},
           \A t \in Targets : o[t] = "CANCELLED" => c
    PROVE  LET all(S)  == \A t \in Targets : o[t] \in S
               some(S) == \E t \in Targets : o[t] \in S
               status  == RunStatusOf(o, c)
           IN  /\ status = "COMPLETE"  <=> all({"COMPLETE"})
               /\ status = "PARTIAL"   <=> some({"COMPLETE"}) /\ ~all({"COMPLETE"})
               /\ status = "CANCELLED" <=> all({"CANCELLED"})
               /\ status = "FAILED"    <=> ~some({"COMPLETE"}) /\ some(FailureStatuses)
<1> DEFINE C == WithStatus(o, {"COMPLETE"})
           X == WithStatus(o, {"CANCELLED"})
           n == Cardinality(Targets)
<1>1. DOMAIN o = Targets
  OBVIOUS
<1>2. /\ C \in SUBSET Targets /\ X \in SUBSET Targets /\ C \cup X \in SUBSET Targets
      /\ C \cap X = {}
      /\ \A t \in Targets : (t \in C <=> o[t] = "COMPLETE") /\ (t \in X <=> o[t] = "CANCELLED")
  BY <1>1 DEF WithStatus
<1>3. \A S \in SUBSET Targets :
        /\ IsFiniteSet(S) /\ Cardinality(S) \in Nat /\ Cardinality(S) <= n
        /\ Cardinality(S) = 0 <=> S = {}
        /\ Cardinality(S) = n <=> S = Targets
  <2>1. IsFiniteSet(Targets)
    BY TargetSets
  <2>2. TAKE S \in SUBSET Targets
  <2>3. IsFiniteSet(S) /\ Cardinality(S) <= n /\ (n = Cardinality(S) => S = Targets)
    BY <2>1, FS_Subset
  <2>4. Cardinality(S) \in Nat
    BY <2>3, FS_CardinalityType
  <2>5. Cardinality(S) = 0 <=> S = {}
    BY <2>3, FS_EmptySet
  <2>6. QED
    BY <2>3, <2>4, <2>5
<1>4. Cardinality(C \cup X) = Cardinality(C) + Cardinality(X)
  <2>1. IsFiniteSet(C) /\ IsFiniteSet(X)
    BY <1>2, <1>3
  <2>2. Cardinality(C \cup X) = Cardinality(C) + Cardinality(X) - Cardinality(C \cap X)
    BY <2>1, FS_Union
  <2>3. Cardinality(C) \in Nat /\ Cardinality(X) \in Nat /\ Cardinality(C \cap X) = 0
    BY <1>2, <1>3, FS_EmptySet
  <2>4. QED
    BY <2>2, <2>3
<1>5. n # 0 /\ n \in Nat
  BY <1>3
<1>6. /\ Cardinality(C) \in Nat /\ Cardinality(X) \in Nat
      /\ Cardinality(C) = 0 <=> \A t \in Targets : o[t] # "COMPLETE"
      /\ Cardinality(C) = n <=> \A t \in Targets : o[t] = "COMPLETE"
      /\ Cardinality(X) = 0 <=> \A t \in Targets : o[t] # "CANCELLED"
      /\ Cardinality(X) = n <=> \A t \in Targets : o[t] = "CANCELLED"
      /\ n - Cardinality(C) - Cardinality(X) = 0
            <=> \A t \in Targets : o[t] \in {"COMPLETE", "CANCELLED"}
  <2>1. Cardinality(C) \in Nat /\ Cardinality(X) \in Nat
    BY <1>2, <1>3
  <2>2. /\ Cardinality(C) = 0 <=> \A t \in Targets : o[t] # "COMPLETE"
        /\ Cardinality(X) = 0 <=> \A t \in Targets : o[t] # "CANCELLED"
    BY <1>2, <1>3
  <2>3. /\ Cardinality(C) = n <=> \A t \in Targets : o[t] = "COMPLETE"
        /\ Cardinality(X) = n <=> \A t \in Targets : o[t] = "CANCELLED"
    <3>1. /\ C = Targets <=> \A t \in Targets : o[t] = "COMPLETE"
          /\ X = Targets <=> \A t \in Targets : o[t] = "CANCELLED"
      BY <1>2
    <3>2. QED
      BY <1>2, <1>3, <3>1
  <2>4. Cardinality(C \cup X) = n
            <=> \A t \in Targets : o[t] \in {"COMPLETE", "CANCELLED"}
    <3>1. C \cup X = Targets
            <=> \A t \in Targets : o[t] \in {"COMPLETE", "CANCELLED"}
      BY <1>2
    <3>2. QED
      BY <1>2, <1>3, <3>1
  <2>5. QED
    BY <1>4, <1>5, <2>1, <2>2, <2>3, <2>4
<1>7. RunStatusOf(o, c) =
        IF c /\ Cardinality(C) = 0 /\ n - Cardinality(C) - Cardinality(X) = 0
        THEN "CANCELLED"
        ELSE IF Cardinality(C) = n THEN "COMPLETE"
        ELSE IF Cardinality(C) > 0 THEN "PARTIAL"
        ELSE IF Cardinality(X) = n THEN "CANCELLED"
        ELSE "FAILED"
  BY <1>1, <1>5 DEF RunStatusOf, SuccessCount, CancelledCount, FailureCount
<1>8. \A t \in Targets :
        /\ o[t] \in FailureStatuses <=> o[t] \notin {"COMPLETE", "CANCELLED"}
        /\ o[t] = "COMPLETE" => o[t] # "CANCELLED"
  BY DEF TerminalStatuses, FailureStatuses
<1>9. PICK t0 \in Targets : TRUE
  OBVIOUS
<1>10. CASE \A t \in Targets : o[t] = "COMPLETE"
  BY <1>5, <1>6, <1>7, <1>8, <1>9, <1>10
<1>11. CASE \A t \in Targets : o[t] = "CANCELLED"
  BY <1>5, <1>6, <1>7, <1>8, <1>9, <1>11
<1>12. CASE /\ \E t \in Targets : o[t] = "COMPLETE"
            /\ \E t \in Targets : o[t] # "COMPLETE"
  BY <1>5, <1>6, <1>7, <1>8, <1>12
<1>13. CASE /\ \A t \in Targets : o[t] # "COMPLETE"
            /\ \E t \in Targets : o[t] # "CANCELLED"
  BY <1>5, <1>6, <1>7, <1>8, <1>13
<1>14. QED
  BY <1>10, <1>11, <1>12, <1>13

\* The status in the summary is the one the outcomes call for.
THEOREM StatusCorrect == Spec => []StatusReflectsOutcomes
<1>1. IInv => StatusReflectsOutcomes
  <2> SUFFICES ASSUME IInv, phase = "returned", Targets # {}
               PROVE  StatusReflectsOutcomes
    BY DEF StatusReflectsOutcomes
  <2>1. \A t \in Targets : outcome[t] # None
    BY NTargetsAssumption
       DEF IInv, TypeOK, MainInv, FutureInv, OutcomeInv, Concluding, Targets
  <2>2. /\ outcome \in [Targets -> TerminalStatuses]
        /\ cancel \in BOOLEAN
        /\ \A t \in Targets : outcome[t] = "CANCELLED" => cancel
    BY <2>1 DEF IInv, TypeOK, OutcomeInv
  <2>3. final = RunStatusOf(outcome, cancel)
    BY DEF IInv, OutcomeInv
  <2>4. QED
    BY <2>2, <2>3, StatusMeaning DEF StatusReflectsOutcomes
<1>2. QED
  BY Invariance, <1>1, PTL

-------------------------------------------------------------------------------
(* ScanOrchestrator implements DeviceRun *)

\* The instance of DeviceRun speaks the same vocabulary.
LEMMA SameVocabulary ==
    /\ Run!None = None
    /\ \A T, c : Run!PossibleOutcomes(T, c) = PossibleOutcomes(T, c)
    /\ \A o, c : Run!RunStatusOf(o, c) = RunStatusOf(o, c)
<1>1. Run!None = None
  BY DEF Run!None, None
<1>2. \A T, c : Run!PossibleOutcomes(T, c) = PossibleOutcomes(T, c)
  BY DEF Run!PossibleOutcomes, PossibleOutcomes, Run!TerminalStatuses, TerminalStatuses,
         Run!FailureStatuses, FailureStatuses
<1>3. \A o, c : Run!RunStatusOf(o, c) = RunStatusOf(o, c)
  <2>1. \A S : Run!Cardinality(S) = Cardinality(S)
    BY DEF Run!Cardinality, Cardinality
  <2> TAKE o, c
  <2>2. \A S : Run!WithStatus(o, S) = WithStatus(o, S)
    BY DEF Run!WithStatus, WithStatus
  <2>3. /\ Run!SuccessCount(o) = SuccessCount(o)
        /\ Run!CancelledCount(o) = CancelledCount(o)
    BY <2>1, <2>2 DEF Run!SuccessCount, SuccessCount, Run!CancelledCount, CancelledCount
  <2>4. Run!FailureCount(o) = FailureCount(o)
    BY <2>1, <2>3 DEF Run!FailureCount, FailureCount
  <2>5. QED
    BY <2>1, <2>3, <2>4 DEF Run!RunStatusOf, RunStatusOf
<1>4. QED
  BY <1>1, <1>2, <1>3

\* A set of undecided targets gets verdicts the caller's contract allows.
LEMMA Deciding ==
    ASSUME TypeOK, NEW S \in SUBSET Run!Undecided, S # {},
           NEW v \in TerminalStatuses, v = "CANCELLED" => cancel,
           outcome' = [t \in Targets |-> IF t \in S THEN v ELSE outcome[t]],
           UNCHANGED <<cancel, final>>
    PROVE  Run!Decide
<1> DEFINE verdict == [t \in Targets |-> v]
<1>1. verdict \in PossibleOutcomes(Targets, cancel)
  BY DEF PossibleOutcomes
<1>2. outcome' = [t \in Targets |-> IF t \in S THEN verdict[t] ELSE outcome[t]]
  OBVIOUS
<1>3. verdict \in Run!PossibleOutcomes(Targets, cancel)
  BY <1>1, SameVocabulary
<1>4. S \in (SUBSET Run!Undecided) \ {{}}
  OBVIOUS
<1>5. \E v2 \in Run!PossibleOutcomes(Targets, cancel) :
        outcome' = [t \in Targets |-> IF t \in S THEN v2[t] ELSE outcome[t]]
  BY <1>2, <1>3
<1>6. QED
  BY <1>4, <1>5 DEF Run!Decide

\* Every step of a run is a step of the contract, or invisible to the caller.
LEMMA StepSimulation == IInv /\ [Next]_vars => [Run!RunNext]_(Run!runVars)
<1> SUFFICES ASSUME IInv, [Next]_vars
             PROVE  [Run!RunNext]_(Run!runVars)
  OBVIOUS
<1> USE NTargetsAssumption, SameVocabulary DEF IInv, TypeOK
<1>1. CASE Begin \/ Admit \/ Submit \/ LeaveLoop \/ WaitDone \/ Purge
  BY <1>1 DEF Begin, Admit, Submit, LeaveLoop, WaitDone, Purge, eventVars, Run!runVars
<1>2. ASSUME NEW t \in Targets, Collect(t)
      PROVE  Run!Decide
  <2>1. outcome[t] = None /\ ret[t] # None /\ (ret[t] = "CANCELLED" => cancel)
    BY <1>2 DEF Collect, MainInv, FutureInv
  <2>2. outcome' = [u \in Targets |-> IF u \in {t} THEN ret[t] ELSE outcome[u]]
    BY <1>2 DEF Collect
  <2>3. {t} \in SUBSET Run!Undecided /\ ret[t] \in TerminalStatuses
    BY <2>1 DEF Run!Undecided
  <2>4. UNCHANGED <<cancel, final>>
    BY <1>2 DEF Collect
  <2>5. QED
    BY <2>1, <2>2, <2>3, <2>4, Deciding
<1>3. ASSUME NEW t \in Targets, Withdraw(t)
      PROVE  Run!Decide \/ UNCHANGED Run!runVars
  <2>1. UNCHANGED <<cancel, final>>
    BY <1>3 DEF Withdraw, eventVars
  <2>2. CASE fut[t] = "queued"
    <3>1. outcome[t] = None /\ cancel
      BY <1>3 DEF Withdraw, MainInv, FutureInv
    <3>2. outcome' = [u \in Targets |-> IF u \in {t} THEN "CANCELLED" ELSE outcome[u]]
      BY <1>3, <2>2 DEF Withdraw
    <3>3. {t} \in SUBSET Run!Undecided /\ "CANCELLED" \in TerminalStatuses
      BY <3>1 DEF Run!Undecided, TerminalStatuses
    <3>4. QED
      BY <2>1, <3>1, <3>2, <3>3, Deciding
  <2>3. CASE fut[t] # "queued"
    BY <1>3, <2>1, <2>3 DEF Withdraw, Run!runVars
  <2>4. QED
    BY <2>2, <2>3
<1>4. CASE RepresentUnsubmitted
  <2> DEFINE S == {t \in Targets : t > nxt}
  <2>1. outcome' = [t \in Targets |-> IF t \in S THEN "CANCELLED" ELSE outcome[t]]
    BY <1>4 DEF RepresentUnsubmitted
  <2>2. UNCHANGED <<cancel, final>>
    BY <1>4 DEF RepresentUnsubmitted
  <2>3. CASE S = {}
    <3>1. outcome' = outcome
      BY <2>1, <2>3
    <3>2. QED
      BY <2>2, <3>1 DEF Run!runVars
  <2>4. CASE S # {}
    <3>1. cancel
      BY <1>4, <2>4 DEF RepresentUnsubmitted, MainInv, Targets
    <3>2. S \in SUBSET Run!Undecided /\ "CANCELLED" \in TerminalStatuses
      BY <1>4 DEF RepresentUnsubmitted, OutcomeInv, Concluding, Run!Undecided,
                  TerminalStatuses
    <3>3. QED
      BY <2>1, <2>2, <2>4, <3>1, <3>2, Deciding DEF Run!RunNext
  <2>5. QED
    BY <2>3, <2>4
<1>5. CASE Return
  <2>1. final = None
    BY <1>5 DEF Return, OutcomeInv
  <2>2. Run!Undecided = {}
    BY <1>5 DEF Return, MainInv, FutureInv, OutcomeInv, Concluding, Run!Undecided, Targets
  <2>3. QED
    BY <1>5, <2>1, <2>2 DEF Return, Run!Conclude, Run!RunNext
<1>6. ASSUME NEW t \in Targets, PoolStep(t) \/ WorkerStep(t)
      PROVE  UNCHANGED Run!runVars
  BY <1>6 DEF PoolStep, PickUp, LookAtEvent, ReportConnecting, WorkerStep, Report,
              Finish, eventVars, Run!runVars
<1>7. CASE RequestCancel
  BY <1>7 DEF RequestCancel, eventVars, OutcomeInv, Run!Cancel, Run!RunNext
<1>8. CASE UNCHANGED vars
  BY <1>8 DEF vars, Run!runVars
<1>9. QED
  BY <1>1, <1>2, <1>3, <1>4, <1>5, <1>6, <1>7, <1>8 DEF Next, MainStep, Done, Run!RunNext

\* The safety half of ImplementsDeviceRun: one call of run behaves as the
\* contract says, for every number of targets and every pool size.
THEOREM Refinement == Spec => Run!RunSpec
<1>1. Init => Run!RunInit
  BY SameVocabulary DEF Init, Run!RunInit
<1>2. QED
  BY Invariance, <1>1, StepSimulation, PTL DEF Spec, Run!RunSpec
===============================================================================
