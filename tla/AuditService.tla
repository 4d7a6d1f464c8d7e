----------------------------- MODULE AuditService -----------------------------
(***************************************************************************)
(* application/audit_service.py: the device workers of run_live and        *)
(* run_offline, running inside ScanOrchestrator.  This module keeps the    *)
(* main loop, the pool and the cancel event of ScanOrchestrator and puts   *)
(* the steps of the real worker in the place of its generic one:           *)
(*                                                                         *)
(*   live:     COLLECTING, connect, (look at the event, send a command)*,  *)
(*   offline:  look at the event, COLLECTING, load the outputs,            *)
(*   both:     evidence_sink, profile, PARSING, extract, EVALUATING,       *)
(*             evaluate, COMPLETE.                                         *)
(*                                                                         *)
(* Every blocking call may fail; which failure status results is decided   *)
(* by where it failed (and, for SSH, by the wording of the error, which is *)
(* a nondeterministic choice here).                                        *)
(***************************************************************************)
EXTENDS ScanOrchestrator

CONSTANT NCommands    \* len(commands) planned for every device

\* The worker reports three statuses of its own (the orchestrator reports
\* CONNECTING), and COLLECTION_FAILED is among the failures it may end with.
ASSUME AuditAssumption ==
    /\ NCommands \in Nat \ {0}
    /\ {"COLLECTING", "PARSING", "EVALUATING"} \subseteq InFlight
    /\ "COLLECTION_FAILED" \in Failures

VARIABLES
    live,         \* run_live, else run_offline
    stage,        \* per target, where its worker is
    sent,         \* per target, the commands whose output has arrived
    evidence,     \* per target, what evidence_sink has stored
    sentAtCancel  \* history: sent when the event was set

auditVars == <<live, stage, sent, evidence, sentAtCancel>>
allVars == <<vars, auditVars>>

AuditInit ==
    /\ Init
    /\ live \in BOOLEAN
    /\ stage = [t \in Targets |-> "start"]
    /\ sent = [t \in Targets |-> 0]
    /\ evidence = [t \in Targets |-> "none"]
    /\ sentAtCancel = [t \in Targets |-> 0]

Goto(t, from, to) ==
    /\ fut[t] = "working" /\ stage[t] = from
    /\ stage' = [stage EXCEPT ![t] = to]
    /\ UNCHANGED <<live, sentAtCancel>>

\* The worker of t ends with status s.
End(t, from, s) == Goto(t, from, "over") /\ Finish(t, s)

\* _connection_failure_status: the three readings of a skipped device.
ConnectionFailures == Failures \ {"EVALUATION_FAILED"}

-------------------------------------------------------------------------------
(* Collection *)

BeginLive(t) ==
    /\ live
    /\ Goto(t, "start", "connect") /\ Report(t, "COLLECTING")
    /\ UNCHANGED <<sent, evidence>>

\* Mutant of Connect: a timeout is taken for a cancellation.
ConnectTimeoutCancels(t) ==
    /\ \/ Goto(t, "connect", "look") /\ UNCHANGED vars
       \/ \E s \in Failures \cup {"CANCELLED"} : End(t, "connect", s)
    /\ UNCHANGED <<sent, evidence>>

\* ConnectHandler and enable(); without netmiko run_commands itself raises.
Connect(t) ==
    /\ \/ Goto(t, "connect", "look") /\ UNCHANGED vars
       \/ \E s \in Failures : End(t, "connect", s)
    /\ UNCHANGED <<sent, evidence>>

\* Mutants of LookBeforeCommand: no look at the event; a cancelled collection
\* goes on to evaluation.
LookNowhere(t) ==
    /\ Goto(t, "look", IF sent[t] = NCommands THEN "store" ELSE "send")
    /\ UNCHANGED <<vars, sent, evidence>>

LookAndEvaluate(t) ==
    /\ Goto(t, "look", IF sent[t] = NCommands \/ cancel THEN "store" ELSE "send")
    /\ UNCHANGED <<vars, sent, evidence>>

\* The loop over the approved commands, of which plan_commands makes "terminal
\* length 0" the first: the event is read before each one, and not after the
\* last one.  Leaving the connection may still fail, which hides the answer.
LookBeforeCommand(t) ==
    /\ IF sent[t] = NCommands
       THEN \/ Goto(t, "look", "store") /\ UNCHANGED vars
            \/ \E s \in ConnectionFailures : End(t, "look", s)
       ELSE IF cancel
            THEN \E s \in ConnectionFailures \cup {"CANCELLED"} : End(t, "look", s)
            ELSE Goto(t, "look", "send") /\ UNCHANGED vars
    /\ UNCHANGED <<sent, evidence>>

SendCommand(t) ==
    /\ \/ /\ Goto(t, "send", "look") /\ UNCHANGED vars
          /\ sent' = [sent EXCEPT ![t] = @ + 1]
       \/ /\ \E s \in ConnectionFailures : End(t, "send", s)
          /\ UNCHANGED sent
    /\ UNCHANGED evidence

BeginOffline(t) ==
    /\ ~live
    /\ IF cancel
       THEN End(t, "start", "CANCELLED")
       ELSE Goto(t, "start", "load") /\ Report(t, "COLLECTING")
    /\ UNCHANGED <<sent, evidence>>

LoadOutputs(t) ==
    /\ \/ /\ Goto(t, "load", "store") /\ UNCHANGED vars
          /\ sent' = [sent EXCEPT ![t] = NCommands]
       \/ End(t, "load", "COLLECTION_FAILED") /\ UNCHANGED sent
    /\ UNCHANGED evidence

-------------------------------------------------------------------------------
(* _evaluate_device: one try block, every exception is EVALUATION_FAILED *)

\* Mutant of StoreEvidence: an error of the sink is swallowed.
StoreEvidenceQuietly(t) ==
    /\ Goto(t, "store", "profile") /\ UNCHANGED vars
    /\ \E e \in {"none", "partial", "stored"} : evidence' = [evidence EXCEPT ![t] = e]
    /\ UNCHANGED sent

\* The sink (of a run that has one) stores the outputs before anything else can
\* fail; it may itself fail before, or after some of them were stored.
StoreEvidence(t) ==
    /\ \/ /\ Goto(t, "store", "profile") /\ UNCHANGED vars
          /\ evidence' = [evidence EXCEPT ![t] = "stored"]
       \/ /\ End(t, "store", "EVALUATION_FAILED")
          /\ \E e \in {"none", "partial"} : evidence' = [evidence EXCEPT ![t] = e]
    /\ UNCHANGED sent

ResolveProfile(t) ==
    /\ \/ Goto(t, "profile", "parse") /\ Report(t, "PARSING")
       \/ End(t, "profile", "EVALUATION_FAILED")
    /\ UNCHANGED <<sent, evidence>>

ExtractAsset(t) ==
    /\ \/ Goto(t, "parse", "evaluate") /\ Report(t, "EVALUATING")
       \/ End(t, "parse", "EVALUATION_FAILED")
    /\ UNCHANGED <<sent, evidence>>

Evaluate(t) ==
    /\ \E s \in {"COMPLETE", "EVALUATION_FAILED"} : End(t, "evaluate", s)
    /\ UNCHANGED <<sent, evidence>>

AuditWorker(t) ==
    \/ BeginLive(t) \/ Connect(t) \/ LookBeforeCommand(t) \/ SendCommand(t)
    \/ BeginOffline(t) \/ LoadOutputs(t)
    \/ StoreEvidence(t) \/ ResolveProfile(t) \/ ExtractAsset(t) \/ Evaluate(t)

AuditCancel ==
    /\ RequestCancel
    /\ sentAtCancel' = sent
    /\ UNCHANGED <<live, stage, sent, evidence>>

AuditNext ==
    \/ (MainStep \/ Done) /\ UNCHANGED auditVars
    \/ \E t \in Targets : (PoolStep(t) /\ UNCHANGED auditVars) \/ AuditWorker(t)
    \/ AuditCancel

AuditSpec == AuditInit /\ [][AuditNext]_allVars

\* As in ScanOrchestrator; every blocking call of a worker has a timeout
\* (connect_timeout, banner, auth and read timeouts of NetmikoRunner).
AuditFairness ==
    /\ WF_allVars(MainStep /\ UNCHANGED auditVars)
    /\ \A t \in Targets : /\ WF_allVars(PoolStep(t) /\ UNCHANGED auditVars)
                          /\ WF_allVars(AuditWorker(t))

FairAuditSpec == AuditSpec /\ AuditFairness

-------------------------------------------------------------------------------
(* Properties *)

\* "Preserve captured bytes before profile resolution or parsing can fail"
\* (audit_service.py:155): a device that reaches parsing, or a verdict of any
\* kind after it, has its complete evidence stored.
EvidenceBeforeJudgement ==
    \A t \in Targets :
        shown[t] \in {"PARSING", "EVALUATING", "COMPLETE"} \/ ret[t] = "COMPLETE"
            => evidence[t] = "stored"

\* Evidence, even a fragment, comes from a complete set of command outputs:
\* a cancelled or broken collection leaves nothing that looks like evidence.
EvidenceIsOfFullCollection ==
    \A t \in Targets :
        /\ evidence[t] # "none" => sent[t] = NCommands
        /\ outcome[t] \in {"CANCELLED"} \cup ConnectionFailures => evidence[t] = "none"

\* Cancellation lets at most the command already on its way finish, on every
\* device (the test at the top of the command loop is not atomic with send).
AtMostOneMoreCommand ==
    cancel => \A t \in Targets : live => sent[t] <= sentAtCancel[t] + 1

\* The real workers keep the contract the orchestrator was modelled with, and
\* every property of ScanOrchestrator therefore holds of the composition.
ImplementsOrchestrator == FairSpec
===============================================================================
