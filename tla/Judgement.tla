-------------------------------- MODULE Judgement --------------------------------
(* The functions of the program that decide something.  A case - what one of   *)
(* them is asked - is there at the beginning and is judged in one step.        *)
EXTENDS CheckEngine

CONSTANTS
    Invalid, Controls, Chains, Fold(_), Registry, Pagination,  \* of Preflight
    StigIds        \* of Checklists

VARIABLES case, verdict
caseVars == <<case, verdict>>

Releases  == INSTANCE StigDiff
Trends    == INSTANCE RunComparison
Readiness == INSTANCE Preflight
Filling   == INSTANCE Checklists

JudgementAssumption == IsFiniteSet(Clauses)

(* The approved commands are written with single spaces, without a control     *)
(* character or a chain, and no two of them differ in case only; the command   *)
(* for the pagination is one of them.  command_policy.py:31-115 and 133-135.    *)
PolicyAssumption ==
  /\ Pagination \in Registry
  /\ \A c \in Registry : /\ c # <<>> /\ Readiness!Spaced(Readiness!Words(c)) = c
                         /\ Readiness!ToSet(c) \cap Controls = {} /\ ~ Readiness!Chained(c)
  /\ \A c, d \in Registry : Readiness!Folded(c) = Readiness!Folded(d) => c = d

(* No identifier of a vulnerability is the missing one.                        *)
IdsAssumption == None \notin StigIds

(* Two releases with rules as they are normalised, and a library of checks.    *)
IsRelease(rules) ==
  IsList(rules) /\ \A i \in DOMAIN rules : rules[i] = [f \in Releases!FingerprintFields |-> rules[i][f]]

(* A library of checks as the planner and the readiness check read it.         *)
IsLibrary(checks) ==
  /\ IsList(checks)
  /\ \A i \in DOMAIN checks : /\ {"commands", "nested", "automated", "manual"} \subseteq DOMAIN checks[i]
                              /\ checks[i].commands \in Seq(Readiness!ToSet(checks[i].commands))

(* A run of the window: its results have a status of the engine, the devices   *)
(* that were evaluated are among its targets, and a template that was chosen   *)
(* is a list of entries, each with a list of comments.                         *)
IsTemplate(t) ==
  IsList(t) /\ \A i \in DOMAIN t : /\ t[i] = [vuln |-> t[i].vuln, status |-> t[i].status, comments |-> t[i].comments]
                                  /\ t[i].comments \in Seq(Filling!ToSet(t[i].comments))
IsRun(c) ==
  /\ IsList(c.targets) /\ IsList(c.results)
  /\ \A k \in DOMAIN c.results : c.results[k].status \in Filling!Statuses
  /\ \A ip \in DOMAIN c.assets : \E t \in DOMAIN c.targets : c.targets[t] = ip
  /\ \A key \in {"COMBINED", "IOSXE_L2", "IOSXE_NDM"} : c.paths[key] = None \/ IsTemplate(c.paths[key])

(* A case of the engine has the facts its evaluator reads and a list of        *)
(* exception rules, a comparison has two lists of results.                     *)
IsCase(c) ==
  /\ c.kind = "check" => /\ DOMAIN c = {"kind", "check", "profile", "device", "rules"}
                         /\ FactsOf(c) /\ IsList(c.rules)
  /\ c.kind = "releases" => c.old # None /\ IsRelease(c.old) /\ IsRelease(c.new) /\ IsList(c.checks)
  /\ c.kind = "plan"  => IsLibrary(c.checks)
  /\ c.kind = "audit" => IsList(c.targets) /\ IsLibrary(c.checks)
  /\ c.kind = "checklist" => IsRun(c)
  /\ c.kind = "runs"  => IsList(c.previous) /\ IsList(c.current)

JudgeInit == verdict = None /\ IsCase(case)

Judge(kind, answer) ==
  case # None /\ verdict = None /\ case.kind = kind /\ verdict' = answer /\ UNCHANGED case

ChecklistsOf(run) ==
  LET jobs == Filling!TemplateJobs(run.selected, run.paths, run.ids)
  IN  [jobs |-> jobs, writes |-> Filling!Writes(run.targets, run.assets, jobs, run.results, run.append)]

JudgeCheck      == Judge("check", Evaluate(case))
CompareReleases == Judge("releases", Releases!YamlImpacts(case.old, case.new, case.checks))
CompareTwoRuns  == Judge("runs", Trends!CompareRuns(case.previous, case.current, case.oldPrints, case.newPrints))
PlanSession     == Judge("plan", Readiness!LibraryLoads(case.checks))
CheckReadiness  == Judge("audit", Readiness!Blocking(case) \cup Readiness!Warnings(case.checks, case.store))

FillChecklists  == Judge("checklist", ChecklistsOf(case))

JudgeNext == JudgeCheck \/ CompareReleases \/ CompareTwoRuns \/ PlanSession \/ CheckReadiness \/ FillChecklists

JudgeSpec == JudgeInit /\ [][JudgeNext]_caseVars

--------------------------------------------------------------------------------
Answered(kind) == verdict # None /\ case.kind = kind

(* A mapping that has one status for compliance only. *)
Tells(check) == check.result.pass \notin {check.result.fail, check.result.error, "Not_Reviewed"}

(* A check without an exception says that the device complies exactly when it  *)
(* does, said of the device; a banner header inside an unfinished banner is    *)
(* the one configuration in which the engine may see a fault that is none.     *)
(* check_engine.py, the seven evaluators that do more than compare one value.  *)
VerdictMeansCompliance ==
  Answered("check") /\ case.rules = <<>> /\ case.check.type \in Referenced /\ Tells(case.check) =>
    /\ verdict.status = case.check.result.pass => Complies(case)
    /\ Complies(case) /\ case.check.commands \subseteq case.device.collected =>
         \/ verdict.status = case.check.result.pass
         \/ case.check.type = "dod_banner_policy" /\ BannersNested(case.device)

(* Without the output of every command of the check, or with an exception      *)
(* rule, the status differs from the plain one only if a rule for this device, *)
(* this vulnerability and an object of the result forces it.                   *)
(* check_engine.py:51-93, exceptions.py:40-66.                                 *)
ExceptionsAreScoped ==
  Answered("check") /\ case.rules # <<>> =>
    LET plain == Evaluate([case EXCEPT !.rules = <<>>])
    IN  verdict.status # plain.status =>
          \E k \in DOMAIN case.rules :
            LET rule == case.rules[k]
            IN  /\ rule.force = verdict.status
                /\ rule.device \in {"*", case.device.name} /\ rule.vuln \in {"*", case.check.vuln}
                /\ \/ rule.type = "*" /\ rule.name = "*"
                   \/ \E o \in plain.objects : rule.type \in {"*", o[1]} /\ rule.name \in {"*", o[2]}

(* A release comparison loses no rule and lets no new check procedure and no   *)
(* lost rule go by without naming it to the reviewer; nor does the comparison  *)
(* of two downloaded sources.  stig_diff.py:173-493, stig_comparator.py:392-596*)
ReleaseReviewIsComplete ==
  Answered("releases") =>
    /\ Releases!RulesAreAccountedFor(case.old, case.new)
    /\ Releases!NewProceduresAreReviewed(case.old, case.new, case.checks)
    /\ Releases!LostRulesAreReported(case.old, case.new, case.checks)
    /\ Releases!NewTextsAreListed(case.old, case.new, case.checks)

(* A trend between two runs is claimed only of what the two statuses bear out, *)
(* reads the same backwards, and the counts can be reconciled.                 *)
(* run_comparison.py:47-127.                                                   *)
TrendsAreHonest ==
  Answered("runs") => Trends!TrendIsHonest(case.previous, case.current, case.oldPrints, case.newPrints)

(* Whatever a library spells, only approved commands are sent, each once.      *)
(* command_policy.py:138-183, models.py:95-191, command_planner.py:31-47.      *)
PlansAreApproved == Answered("plan") => Readiness!PlanIsApproved(case.checks)

(* A ready audit can run; what cannot run is never ready.                      *)
(* preflight_service.py:58-215.                                                *)
ReadinessIsHonest == Answered("audit") => Readiness!ReadyMeansRunnable(case)

(* A completed checklist marks a rule as compliant only on a result that says  *)
(* so, both formats agree, and no result of a device is lost on the way.       *)
(* main_window.py:125-241 and 2337-2365, ckl_writer.py, cklb_writer.py.        *)
ChecklistsSayTheResults ==
  Answered("checklist") => Filling!ChecklistsAreComplete(case, verdict.jobs, verdict.writes)
================================================================================
