----------------------------- MODULE RunComparison -----------------------------
(* Two audit runs compared result by result (run_comparison.py).  A result is  *)
(* a device, a vulnerability and a status; a run lists its results in order;   *)
(* the rule fingerprints of a run are a function on some of the vulnerabilities *)
EXTENDS Integers, FiniteSets, SequencesExt

CONSTANT None

Key(r) == <<r.ip, r.vuln>>
Keys(run) == {Key(run[i]) : i \in DOMAIN run}

(* A dictionary by key: the last result of a key is the one compared. *)
StatusIn(run, key) ==
  LET of == {i \in DOMAIN run : Key(run[i]) = key}
  IN  IF of = {} THEN None ELSE run[CHOOSE i \in of : \A j \in of : j <= i].status

FingerprintChanged(old, new, vuln) ==
  vuln \in DOMAIN old /\ vuln \in DOMAIN new /\ old[vuln] # new[vuln]

Inconclusive == {"Error", "Skipped"}

ClassifyByStatus(before, after, ruleChanged) ==
  CASE ruleChanged                         -> "NOT_COMPARABLE"
    [] ~ ruleChanged /\ before = "Open"    -> IF after = "Open" THEN "PERSISTENT_FINDING" ELSE "RESOLVED"
    [] ~ ruleChanged /\ before # "Open" /\ after = "Open" -> "NEW_FINDING"
    [] OTHER                               -> "STATUS_CHANGED"

Classify(before, after, ruleChanged) ==
  CASE ruleChanged -> "NOT_COMPARABLE"
    [] ~ ruleChanged /\ before = None -> "NEWLY_APPLICABLE"
    [] ~ ruleChanged /\ before # None /\ after = None -> "NO_LONGER_APPLICABLE"
    [] OTHER ->
         IF {before, after} \cap Inconclusive # {} THEN "NOT_COMPARABLE"
         ELSE CASE before = "Open" /\ after = "Open"               -> "PERSISTENT_FINDING"
                [] before = "Open" /\ after = "NotAFinding"        -> "RESOLVED"
                [] before # "Open" /\ after = "Open"               -> "NEW_FINDING"
                [] before = "NotAFinding" /\ after = "NotAFinding" -> "UNCHANGED_PASS"
                [] before = "Not_Applicable" /\ after \notin {"Not_Applicable", "Open"} -> "NEWLY_APPLICABLE"
                [] before # "Not_Applicable" /\ after = "Not_Applicable" -> "NO_LONGER_APPLICABLE"
                [] OTHER                                           -> "STATUS_CHANGED"

CompareRuns(previous, current, oldPrints, newPrints) ==
  {[key |-> k, before |-> StatusIn(previous, k), after |-> StatusIn(current, k),
    class |-> Classify(StatusIn(previous, k), StatusIn(current, k),
                       FingerprintChanged(oldPrints, newPrints, k[2]))] :
     k \in Keys(previous) \cup Keys(current)}

Summary(items) ==
  LET count(S) == Cardinality(S)
      of(class) == count({i \in items : i.class = class})
  IN  [previousOpen |-> count({i \in items : i.before = "Open"}),
       currentOpen  |-> count({i \in items : i.after = "Open"}),
       new |-> of("NEW_FINDING"), resolved |-> of("RESOLVED"), persistent |-> of("PERSISTENT_FINDING"),
       errors |-> count({i \in items : {i.before, i.after} \cap Inconclusive # {}})]

\* What a class becomes when the two runs change places.
Reversed ==
  {<<"RESOLVED", "NEW_FINDING">>, <<"PERSISTENT_FINDING", "PERSISTENT_FINDING">>,
   <<"UNCHANGED_PASS", "UNCHANGED_PASS">>, <<"NOT_COMPARABLE", "NOT_COMPARABLE">>}

(* "Resolved", "persistent" and "still passing" are said of a rule that both   *)
(* runs decided, and a new finding only of one that was in the earlier run and *)
(* not open there, where it may just not have been reviewed; no trend is       *)
(* claimed across two fingerprints that differ, one that is missing differs    *)
(* from none.  Compared backwards, what was resolved is a new finding, and     *)
(* what persists, passes or cannot be compared still does so.  The summary can *)
(* be reconciled: what was open is resolved, persistent, or shown in a class   *)
(* that claims no trend, and so for what is open now.                          *)
TrendIsHonest(previous, current, oldPrints, newPrints) ==
  LET items   == CompareRuns(previous, current, oldPrints, newPrints)
      back    == CompareRuns(current, previous, newPrints, oldPrints)
      s       == Summary(items)
      decided == {"RESOLVED", "PERSISTENT_FINDING", "UNCHANGED_PASS"}
      apart   == {i \in items : i.class \notin decided \cup {"NEW_FINDING"}}
  IN  /\ \A i \in items : i.class \in decided => {i.before, i.after} \subseteq {"Open", "NotAFinding"}
      /\ \A i \in items : i.class = "NEW_FINDING" => i.before \notin {None, "Open"} \cup Inconclusive
      /\ \A i \in items : i.class \in decided \cup {"NEW_FINDING"} =>
           ~ FingerprintChanged(oldPrints, newPrints, i.key[2])
      /\ \A pair \in Reversed, i \in items : i.class = pair[1] =>
           \E j \in back : j.key = i.key /\ j.class = pair[2]
      /\ s.previousOpen = s.resolved + s.persistent + Cardinality({i \in apart : i.before = "Open"})
      /\ s.currentOpen = s.new + s.persistent + Cardinality({i \in apart : i.after = "Open"})
      /\ \A k \in Keys(current) : \E i \in DOMAIN current :
           /\ Key(current[i]) = k
           /\ \E it \in items : it.key = k /\ it.after = current[i].status
================================================================================
