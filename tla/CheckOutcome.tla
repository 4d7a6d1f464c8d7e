------------------------------ MODULE CheckOutcome ------------------------------
(* What an evaluator of core/check_engine.py returns, how a check turns it     *)
(* into a status, and the conditions and patterns the evaluators share.        *)
(* Text is abstracted to the set of patterns that match it: a pattern found in *)
(* a text is a member of the set that stands for the text.                     *)
EXTENDS Absence, Integers, FiniteSets, Sequences

Statuses == {"NotAFinding", "Open", "Not_Applicable", "Not_Reviewed", "Error", "Skipped"}
NoStatus == "none"

(* EvaluationOutcome: objects are <<type, name>>.  An exception of an          *)
(* evaluator is the outcome Raised.                                            *)
Outcome(passed, status, failed, ok) ==
  [raised |-> FALSE, passed |-> passed, status |-> status, failed |-> failed, ok |-> ok]
Judged(failed, ok)   == Outcome(failed = {}, NoStatus, failed, ok)
Plainly(passed)      == Outcome(passed, NoStatus, {}, {})
Undecided(status)    == Outcome(FALSE, status, {}, {})
Raised               == [Undecided(NoStatus) EXCEPT !.raised = TRUE]

(* evaluate: a command without output and an exception give error_status, an   *)
(* outcome may name its status, the mapping of the check decides the rest.     *)
StatusOf(check, collected, outcome) ==
  IF ~ check.commands \subseteq collected \/ outcome.raised THEN check.result.error
  ELSE IF outcome.status # NoStatus THEN outcome.status
  ELSE IF outcome.passed THEN check.result.pass ELSE check.result.fail

(* Exceptions: the first rule whose selectors match forces the status. *)
Selects(pattern, value) == pattern = "*" \/ pattern = value

AppliesToAnyObject(rule, device, check, objects) ==
  /\ Selects(rule.device, device)
  /\ Selects(rule.vuln, check.vuln)
  /\ rule.type = "*" \/ rule.name = "*" \/ <<rule.type, rule.name>> \in objects

ExceptionApplies(rule, device, check, objects) ==
  /\ Selects(rule.device, device)
  /\ Selects(rule.vuln, check.vuln)
  /\ \/ rule.type = "*" /\ rule.name = "*"
     \/ \E o \in objects : Selects(rule.type, o[1]) /\ Selects(rule.name, o[2])

ApplyExceptions(status, rules, device, check, objects) ==
  LET applies == {k \in DOMAIN rules : ExceptionApplies(rules[k], device, check, objects)}
  IN  IF applies = {} THEN status
      ELSE rules[CHOOSE k \in applies : \A j \in applies : k <= j].force

(* The result of a check: objects of a missing or raising evaluation are lost. *)
Result(check, collected, outcome, rules, device) ==
  LET lost    == ~ check.commands \subseteq collected \/ outcome.raised
      objects == IF lost THEN {} ELSE outcome.failed \cup outcome.ok
  IN  [status |-> ApplyExceptions(StatusOf(check, collected, outcome), rules, device, check, objects),
       objects |-> objects]

--------------------------------------------------------------------------------
(* _profile_value and _profile_list: an unset key is None, its list empty. *)
ProfileValue(profile, key) == IF key \in DOMAIN profile THEN profile[key] ELSE None
ProfileList(profile, key)  == IF ProfileValue(profile, key) = None THEN {} ELSE profile[key]

AsSet(v) == IF v = None THEN {} ELSE v

(* _condition_passes, for a field that is a value or a set of values. *)
ConditionPasses(profile, v, c) ==
  CASE c.op = "equals_profile_value"  -> v = ProfileValue(profile, c.value)
    [] c.op = "includes_profile_list" -> ProfileList(profile, c.value) \subseteq AsSet(v)
    [] c.op = "excludes_profile_list" -> AsSet(v) \cap ProfileList(profile, c.value) = {}
    [] c.op = "equals"                -> v = c.value
    [] c.op = "not_equals"            -> v # c.value
    [] c.op \in {"includes", "contains", "regex"} -> c.value \in AsSet(v)
    [] c.op = "excludes"              -> c.value \notin AsSet(v)

ConditionsPass(profile, object, conditions) ==
  \A c \in conditions : ConditionPasses(profile, object[c.field], c)

(* _value_matches: a value, a list, or a mapping of positive and negative      *)
(* tests; all of them say that a value is, or is not, in a set.                *)
ValueMatches(actual, expected) == (actual \in expected.values) = expected.positive

--------------------------------------------------------------------------------
(* A pattern names the command whose output is searched; `blank' says that the *)
(* text it matches is empty.  Profile patterns stand for one pattern for each  *)
(* member of a list of the profile.                                            *)
Patterns(profile, literal, keys) ==
  literal \cup UNION {{[command |-> k.command, pattern |-> item, blank |-> FALSE] :
                          item \in ProfileList(profile, k.key)} : k \in keys}

(* _command_pattern_matches: a command without output has an empty text. *)
Found(outputs, p) == p.command \in DOMAIN outputs /\ p.pattern \in outputs[p.command]
================================================================================
