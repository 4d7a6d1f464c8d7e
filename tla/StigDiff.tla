-------------------------------- MODULE StigDiff --------------------------------
(* Two releases of a STIG compared rule by rule, what the comparison asks of   *)
(* the local checks (stig_diff.py), and the older comparison of two downloaded *)
(* sources (stig_comparator.py).                                               *)
(*                                                                             *)
(* A release is a sequence of rules as normalised for their fingerprints:      *)
(* three identifiers (None when absent), the two procedure texts, the title    *)
(* and `meta' for severity and group.  A check has the same identifiers, and   *)
(* says whether it is automated.                                               *)
EXTENDS Integers, FiniteSets, SequencesExt

CONSTANT None

Identifiers == <<"vuln", "rule", "stig">>
FingerprintFields == {"vuln", "rule", "stig", "check", "fix", "title", "meta"}

--------------------------------------------------------------------------------
(* Matching.  A field at a time, an identifier carried by exactly one rule     *)
(* left on each side pairs the two; one carried by more is noted, not guessed. *)
With(rules, f, v) == {i \in DOMAIN rules : rules[i][f] = v}

MatchRound(old, new, m, f) ==
  LET o(v) == With(old, f, v) \ {p.old : p \in m.pairs}
      n(v) == With(new, f, v) \ {p.new : p \in m.pairs}
      shared == {v \in ({old[i][f] : i \in DOMAIN old} \ {None}) : o(v) # {} /\ n(v) # {}}
      single == {v \in shared : Cardinality(o(v)) = 1 /\ Cardinality(n(v)) = 1}
  IN  [pairs |-> m.pairs \cup UNION {[old : o(v), new : n(v)] : v \in single},
       oldNoted |-> m.oldNoted \cup UNION {o(v) : v \in shared \ single},
       newNoted |-> m.newNoted \cup UNION {n(v) : v \in shared \ single}]

MatchRules(fields, old, new) ==
  LET nothing == [pairs |-> {}, oldNoted |-> {}, newNoted |-> {}]
      first   == MatchRound(old, new, nothing, fields[1])
      second  == MatchRound(old, new, first, fields[2])
  IN  MatchRound(old, new, second, fields[3])

FieldDiffs(fields, before, after) == {f \in fields : before[f] # after[f]}

Absent == 0

(* compare: every rule of either release in one change.  There is nothing to   *)
(* compare a first release with.                                               *)
Changes(old, new) ==
  LET m == MatchRules(Identifiers, old, new)
      change(what, i, j, fields, ambiguous) ==
        [change |-> what, old |-> i, new |-> j, fields |-> fields, ambiguous |-> ambiguous]
      paired(p) == LET fields == FieldDiffs(FingerprintFields, old[p.old], new[p.new])
                   IN  change(IF fields = {} THEN "UNCHANGED" ELSE "CHANGED", p.old, p.new, fields, FALSE)
  IN  {paired(p) : p \in m.pairs}
      \cup {change("REMOVED", i, Absent, {}, i \in m.oldNoted) : i \in DOMAIN old \ {p.old : p \in m.pairs}}
      \cup {change("ADDED", Absent, j, {}, j \in m.newNoted) : j \in DOMAIN new \ {p.new : p \in m.pairs}}

Compare(old, new) == IF old = None THEN {} ELSE Changes(old, new)

Count(changes, what) == Cardinality({c \in changes : c.change = what})

--------------------------------------------------------------------------------
(* What a change asks of the local checks. *)

(* The checks found by the first identifier that finds any. *)
MatchMappings(rules, checks) ==
  LET by(f)  == {k \in DOMAIN checks : checks[k][f] # None /\ \E r \in rules : r[f] = checks[k][f]}
      finds  == {n \in DOMAIN Identifiers : by(Identifiers[n]) # {}}
  IN  IF finds = {} THEN {} ELSE by(Identifiers[CHOOSE n \in finds : \A m \in finds : n <= m])

Review(check) == IF check.automated THEN "AUTOMATION_REVIEW_REQUIRED" ELSE "MANUAL_RULE_REVIEW"

FixBeforeCheck(c, matched, checks) ==
  IF c.ambiguous \/ Cardinality(matched) > 1 THEN "AMBIGUOUS_MAPPING"
  ELSE IF matched = {} THEN (IF c.change = "ADDED" THEN "NEW_CHECK_REQUIRED" ELSE "NO_LOCAL_CHECK")
  ELSE IF c.change = "REMOVED" THEN "RETIRE_CHECK_REVIEW"
  ELSE IF c.change = "UNCHANGED" THEN "NO_ACTION_REQUIRED"
  ELSE IF "fix" \in c.fields THEN "FIX_GUIDANCE_CHANGED"
  ELSE IF c.change = "ADDED" \/ "check" \in c.fields THEN Review(checks[CHOOSE k \in matched : TRUE])
  ELSE "METADATA_UPDATE"

ImpactType(c, matched, checks) ==
  IF c.ambiguous \/ Cardinality(matched) > 1 THEN "AMBIGUOUS_MAPPING"
  ELSE IF matched = {} THEN (IF c.change = "ADDED" THEN "NEW_CHECK_REQUIRED" ELSE "NO_LOCAL_CHECK")
  ELSE LET check == checks[CHOOSE k \in matched : TRUE]
       IN  CASE c.change = "ADDED"     -> Review(check)
             [] c.change = "REMOVED"   -> "RETIRE_CHECK_REVIEW"
             [] c.change = "UNCHANGED" -> "NO_ACTION_REQUIRED"
             [] c.change = "CHANGED" /\ "check" \in c.fields -> Review(check)
             [] c.change = "CHANGED" /\ "check" \notin c.fields /\ "fix" \in c.fields -> "FIX_GUIDANCE_CHANGED"
             [] OTHER                  -> "METADATA_UPDATE"

RulesOf(c, old, new) ==
  (IF c.old = Absent THEN {} ELSE {old[c.old]}) \cup (IF c.new = Absent THEN {} ELSE {new[c.new]})

(* analyze_yaml_impact: one entry for each check found, or one for none. *)
YamlImpacts(old, new, checks) ==
  UNION {LET matched == MatchMappings(RulesOf(c, old, new), checks)
             entry(k) == [change |-> c, check |-> k, impact |-> ImpactType(c, matched, checks)]
         IN  IF matched = {} THEN {entry(Absent)} ELSE {entry(k) : k \in matched} :
         c \in Compare(old, new)}

--------------------------------------------------------------------------------
(* The comparison of two downloaded sources: other identifiers, no notes, and  *)
(* guidance that names one check and the profiles it depends on.               *)
ComparedBy == <<"stig", "vuln", "title">>
Guidance   == {"check", "fix"}

SourceChanges(old, new) ==
  LET m == MatchRules(ComparedBy, old, new)
  IN  {[kind |-> "Changed", old |-> p.old, new |-> p.new] :
         p \in {q \in m.pairs : FieldDiffs(FingerprintFields, old[q.old], new[q.new]) # {}}}
      \cup {[kind |-> "Removed", old |-> i, new |-> Absent] : i \in DOMAIN old \ {p.old : p \in m.pairs}}
      \cup {[kind |-> "Added", old |-> Absent, new |-> j] : j \in DOMAIN new \ {p.new : p \in m.pairs}}

UnchangedCount(old, new) ==
  Cardinality({p \in MatchRules(ComparedBy, old, new).pairs : old[p.old] = new[p.new]})

(* The first check with a STIG ID of the rules, else the first with a Vuln ID. *)
FindMatchingCheck(rules, checks) ==
  LET by(f)    == {k \in DOMAIN checks : checks[k][f] # None /\ \E r \in rules : r[f] = checks[k][f]}
      first(S) == CHOOSE k \in S : \A j \in S : k <= j
  IN  CASE by("stig") # {}                    -> first(by("stig"))
        [] by("stig") = {} /\ by("vuln") # {} -> first(by("vuln"))
        [] OTHER                              -> Absent

(* guidance_lines: what the report asks the reader to do. *)
GuidanceOf(c, old, new, checks) ==
  LET k == FindMatchingCheck(RulesOf(c, old, new), checks)
  IN  [add      |-> c.kind = "Added",
       retire   |-> c.kind = "Removed",
       review   |-> c.kind = "Changed" /\ k # Absent,
       revalidate |-> c.kind = "Changed" /\ k # Absent /\
                      FieldDiffs(Guidance, old[c.old], new[c.new]) # {},
       remap    |-> c.kind = "Changed" /\ k = Absent,
       check    |-> k]

--------------------------------------------------------------------------------
(* What the comparisons promise. *)

Covers(check, rule) == \E f \in {"vuln", "rule", "stig"} : check[f] # None /\ check[f] = rule[f]
Related(a, b)       == \E f \in {"vuln", "rule", "stig"} : a[f] # None /\ a[f] = b[f]
Quiet == {"NO_ACTION_REQUIRED", "METADATA_UPDATE", "FIX_GUIDANCE_CHANGED"}

(* Every rule of both releases is in exactly one change, and the counts of the *)
(* summary add up to the two releases; comparing in the other direction turns  *)
(* additions into removals and nothing else.                                   *)
RulesAreAccountedFor(old, new) ==
  LET cs == Changes(old, new)
      mirrored(c) == [c EXCEPT !.old = c.new, !.new = c.old,
                        !.change = CASE c.change = "ADDED" -> "REMOVED"
                                     [] c.change = "REMOVED" -> "ADDED"
                                     [] OTHER -> c.change]
  IN  /\ \A i \in DOMAIN old : Cardinality({c \in cs : c.old = i}) = 1
      /\ \A j \in DOMAIN new : Cardinality({c \in cs : c.new = j}) = 1
      /\ Count(cs, "CHANGED") + Count(cs, "UNCHANGED") + Count(cs, "REMOVED") = Len(old)
      /\ Count(cs, "CHANGED") + Count(cs, "UNCHANGED") + Count(cs, "ADDED") = Len(new)
      /\ Changes(new, old) = {mirrored(c) : c \in cs}

(* A check is passed over without a review of its procedure only when a rule   *)
(* of the earlier release that shares an identifier had the same check text.   *)
NewProceduresAreReviewed(old, new, checks) ==
  /\ \A e \in YamlImpacts(old, new, checks) : e.impact \in Quiet =>
       old[e.change.old].check = new[e.change.new].check
  /\ \A j \in DOMAIN new, k \in DOMAIN checks :
       Covers(checks[k], new[j]) =>
         \/ \E e \in YamlImpacts(old, new, checks) : e.change.new = j /\ e.impact \notin Quiet
         \/ \E i \in DOMAIN old : Related(old[i], new[j]) /\ old[i].check = new[j].check

(* When no rule a check was written for is left, the reader is told of the     *)
(* removed or renamed rule and of a check: it is not taken for an unchanged    *)
(* rule or one without a check.                                                *)
LostRulesAreReported(old, new, checks) ==
  \A k \in DOMAIN checks, i \in DOMAIN old :
    Covers(checks[k], old[i]) /\ ~ (\E j \in DOMAIN new : Covers(checks[k], new[j])) =>
      \E e \in YamlImpacts(old, new, checks) :
        e.change.old = i /\ e.impact \notin {"NO_ACTION_REQUIRED", "NO_LOCAL_CHECK"} /\ e.check # Absent

(* The two comparisons may pair rules differently, but neither passes over a   *)
(* rule whose texts appear nowhere in the other release.                       *)
NewTextsAreListed(old, new, checks) ==
  \A j \in DOMAIN new :
    (\A i \in DOMAIN old : old[i].check # new[j].check) =>
      /\ \E c \in SourceChanges(old, new) :
           /\ c.new = j
           /\ LET g == GuidanceOf(c, old, new, checks) IN g.add \/ g.revalidate \/ g.remap
      /\ Cardinality(SourceChanges(old, new)) + UnchangedCount(old, new)
           >= IF Len(old) > Len(new) THEN Len(old) ELSE Len(new)
================================================================================
