----------------------------- MODULE DecisionProofs -----------------------------
(* Theorems about the two decisions of the program that are functions of what  *)
(* it is given: what a license allows (LicenseManager), for any set of license *)
(* documents, questions to either policy, tolerance and number of interrupted  *)
(* imports; and what the engine and the comparison of runs return (Judgement), *)
(* for any check, device, profile, list of exception rules and pair of runs.   *)
(* VerdictsMeanCompliance compares the evaluators of the engine with what      *)
(* compliance means, said of the device.                                       *)
EXTENDS LicenseManager, Judgement, FiniteSetTheorems, SequenceTheorems, WellFoundedInduction, TLAPS

--------------------------------------------------------------------------------
(* THE LICENSE.  The inductive invariant.                                      *)

(* The license file is complete or missing at all times; the staging copy is a *)
(* complete one when it is renamed over it.                                    *)
FileInv ==
  /\ file \in Documents \cup {None} /\ source \in Documents
  /\ temporary \in Documents \cup {None, Torn}
  /\ importing \in {None, "checked", "copied"}
  /\ importing = "copied" => temporary \in Documents
  /\ clock \in Nat

(* The last answer is the one the installed document gives.                    *)
AnswerInv ==
  answer # None =>
    /\ answer.asked \in Questions /\ answer.allowed \in BOOLEAN
    /\ answer.allowed <=> Entitled(answer.asked)

LicenseInv == FileInv /\ AnswerInv

--------------------------------------------------------------------------------
(* What the manager holds after a load, and the number of a question's devices *)

\* A loaded license is valid exactly when the document is in force, and then
\* holds its limit and its features.
LEMMA LoadedLicense ==
  ASSUME LicenseAssumption, FileInv
  PROVE  LET held == LoadedFrom(file, clock)
         IN  /\ IsValid(held) <=> InForce
             /\ InForce => held.limit = file.devices /\ held.features = file.features
                           /\ file.devices \in Nat /\ file.devices >= 1
<1> DEFINE held == LoadedFrom(file, clock)
<1>1. CASE file = None
  <2>1. held.status = "MISSING"
    BY <1>1 DEF LoadedFrom, Unlicensed
  <2>2. QED
    BY <1>1, <2>1 DEF IsValid, InForce
<1>2. CASE file # None /\ ~ Trusted(file, clock)
  <2>1. held.status = "INVALID"
    BY <1>2 DEF LoadedFrom, Unlicensed
  <2>2. ~ InForce
    BY <1>2 DEF Trusted, Consistent, InForce, FileInv, LicenseAssumption
  <2>3. QED
    BY <2>1, <2>2 DEF IsValid
<1>3. CASE file # None /\ Trusted(file, clock)
  <2>1. held = [status |-> IF clock > file.expires THEN "EXPIRED" ELSE "VALID",
                limit |-> file.devices, features |-> file.features]
    BY <1>3 DEF LoadedFrom
  <2>2. IsValid(held) <=> ~ (clock > file.expires)
    BY <2>1 DEF IsValid
  <2>3. /\ file \in Documents /\ file.issued \in Int /\ file.expires \in Int /\ file.devices \in Int
        /\ clock \in Int /\ Tolerance \in Int
    BY <1>3 DEF FileInv, LicenseAssumption
  <2>4. InForce <=> ~ (clock > file.expires)
    BY <1>3, <2>3 DEF InForce, Trusted, Consistent
  <2>5. file.devices \in Nat /\ file.devices >= 1
    BY <1>3, <2>3 DEF Trusted, Consistent
  <2>6. QED
    BY <2>1, <2>2, <2>4, <2>5
<1>4. QED
  BY <1>1, <1>2, <1>3

\* Both ways to say the devices of a question name one finite set, empty when
\* no target was given.
LEMMA DevicesOfQuestion ==
  ASSUME LicenseAssumption, NEW asked \in Questions
  PROVE  /\ Normalized(asked.targets) = Devices(asked)
         /\ ToSet(asked.targets) = {asked.targets[k] : k \in DOMAIN asked.targets}
         /\ Cardinality(Devices(asked)) \in Nat
         /\ Cardinality(Devices(asked)) = 0 <=> Devices(asked) = {}
         /\ Devices(asked) = {} <=> asked.targets = <<>>
<1> DEFINE t == asked.targets
           f == [k \in 1 .. Len(t) |-> Canonical(t[k])]
<1>1. t \in Seq(ToSet(t)) /\ Len(t) \in Nat /\ DOMAIN t = 1 .. Len(t)
  BY DEF LicenseAssumption
<1>2. ToSet(t) = {t[k] : k \in DOMAIN t}
  BY DEF ToSet
<1>3. Normalized(t) = Devices(asked)
  BY <1>2 DEF Normalized, Devices
<1>4. Devices(asked) = {f[k] : k \in 1 .. Len(t)}
  <2>1. Devices(asked) = {Canonical(t[k]) : k \in DOMAIN t}
    BY DEF Devices
  <2>2. QED
    BY <1>1, <2>1
<1> HIDE DEF f, t
<1>5. f \in Surjection(1 .. Len(t), Devices(asked))
  <2>1. f \in [1 .. Len(t) -> Devices(asked)]
    BY <1>4 DEF f
  <2>2. QED
    BY <1>4, <2>1 DEF Surjection
<1>6. IsFiniteSet(1 .. Len(t))
  BY <1>1, FS_Interval
<1>7. IsFiniteSet(Devices(asked))
  BY <1>5, <1>6, FS_Surjection
<1>8. Cardinality(Devices(asked)) \in Nat /\ (Cardinality(Devices(asked)) = 0 <=> Devices(asked) = {})
  BY <1>7, FS_CardinalityType, FS_EmptySet
<1>9. Devices(asked) = {} <=> t = <<>>
  <2>1. CASE t = <<>>
    <3>1. DOMAIN t = {}
      BY <2>1
    <3>2. QED
      BY <2>1, <3>1 DEF Devices, t
  <2>2. CASE t # <<>>
    <3>1. Len(t) >= 1
      BY <1>1, <2>2, EmptySeq
    <3>2. 1 \in DOMAIN t
      BY <1>1, <3>1
    <3>3. Canonical(t[1]) \in Devices(asked)
      BY <3>2 DEF Devices, t
    <3>4. QED
      BY <2>2, <3>3
  <2>3. QED
    BY <2>1, <2>2
<1>10. QED
  BY <1>2, <1>3, <1>8, <1>9 DEF t

LEMMA ProIsEntitled ==
  ASSUME LicenseAssumption, FileInv, NEW asked \in Questions, asked.edition = "pro"
  PROVE  ProAllows(LoadedFrom(file, clock), asked) <=> Entitled(asked)
<1> DEFINE held == LoadedFrom(file, clock)
           n == Cardinality(Devices(asked))
           several == "multi_device_scan" \in file.features
<1>1. /\ IsValid(held) <=> InForce
      /\ InForce => held.limit = file.devices /\ held.features = file.features
                    /\ file.devices \in Nat /\ file.devices >= 1
  BY LoadedLicense
<1>2. n \in Nat /\ Normalized(asked.targets) = Devices(asked)
  BY DevicesOfQuestion
<1>3. ToSet(asked.targets) \subseteq IpAddresses <=> \A k \in DOMAIN asked.targets : asked.targets[k] \in IpAddresses
  <2>1. ToSet(asked.targets) = {asked.targets[k] : k \in DOMAIN asked.targets}
    BY DevicesOfQuestion
  <2>2. QED
    BY <2>1
<1> HIDE DEF held, n, several
<1>4. ProAllows(held, asked) <=>
        /\ \A f \in Needed(asked) : IsValid(held) /\ f \in held.features
        /\ ToSet(asked.targets) \subseteq IpAddresses
        /\ n > 1 => IsValid(held) /\ "multi_device_scan" \in held.features
        /\ n <= IF IsValid(held) THEN held.limit ELSE 1
  BY <1>2 DEF ProAllows, FeatureEnabled, MaxDevices, n
<1>5. Entitled(asked) <=>
        /\ \A k \in DOMAIN asked.targets : asked.targets[k] \in IpAddresses
        /\ Needed(asked) # {} \/ n > 1 => InForce
        /\ InForce => /\ Needed(asked) \subseteq file.features
                      /\ n <= IF several THEN file.devices ELSE 1
  BY DEF Entitled, Covers, n, several
<1>6. CASE InForce
  <2>1. (n > 1 => several) /\ n <= file.devices <=> n <= IF several THEN file.devices ELSE 1
    BY <1>1, <1>2, <1>6
  <2>2. ProAllows(held, asked) <=>
          /\ Needed(asked) \subseteq file.features /\ ToSet(asked.targets) \subseteq IpAddresses
          /\ (n > 1 => several) /\ n <= file.devices
    BY <1>1, <1>4, <1>6, Zenon DEF several
  <2>3. QED
    BY <1>3, <1>5, <1>6, <2>1, <2>2, Zenon DEF held
<1>7. CASE ~ InForce
  <2>1. n <= 1 <=> ~ (n > 1)
    BY <1>2
  <2>2. ProAllows(held, asked) <=>
          Needed(asked) = {} /\ ToSet(asked.targets) \subseteq IpAddresses /\ ~ (n > 1) /\ n <= 1
    BY <1>1, <1>4, <1>7, Zenon
  <2>3. QED
    BY <1>3, <1>5, <1>7, <2>1, <2>2, Zenon DEF held
<1>8. QED
  BY <1>6, <1>7 DEF held

LEMMA BasicIsEntitled ==
  ASSUME LicenseAssumption, FileInv, NEW asked \in Questions, asked.edition # "pro"
  PROVE  BasicAllows(LoadedFrom(file, clock), asked) <=> Entitled(asked)
<1> DEFINE held == LoadedFrom(file, clock)
           n == Cardinality(Devices(asked))
           several == "multi_device_scan" \in file.features
           wanted == asked.families # {} /\ (asked.txt \/ asked.ckl)
<1>1. /\ IsValid(held) <=> InForce
      /\ InForce => held.limit = file.devices /\ held.features = file.features
                    /\ file.devices \in Nat /\ file.devices >= 1
  BY LoadedLicense
<1>2. /\ n \in Nat /\ Normalized(asked.targets) = Devices(asked)
      /\ n = 0 <=> asked.targets = <<>>
      /\ Normalized(asked.targets) = {} <=> asked.targets = <<>>
      /\ asked.families \subseteq Assessments
  BY DevicesOfQuestion DEF LicenseAssumption
<1> HIDE DEF held, n, several, wanted
<1>3. BasicAllows(held, asked) <=>
        /\ asked.targets # <<>> /\ None \notin Devices(asked) /\ wanted
        /\ n <= IF IsValid(held) /\ "multi_device_scan" \in held.features THEN held.limit ELSE 1
        /\ IsValid(held) => Needed(asked) \subseteq held.features
  BY <1>2 DEF BasicAllows, DeviceLimit, MaxDevices, FeatureEnabled, n, wanted
<1>4. Entitled(asked) <=>
        /\ asked.targets # <<>> /\ None \notin Devices(asked) /\ wanted
        /\ IF InForce
           THEN /\ Needed(asked) \subseteq file.features
                /\ n <= IF several THEN file.devices ELSE 1
           ELSE n = 1
  BY DEF Entitled, Covers, n, several, wanted
<1>5. CASE InForce
  <2>1. held.limit = file.devices /\ held.features = file.features /\ IsValid(held)
    BY <1>1, <1>5
  <2>2. BasicAllows(held, asked) <=>
          /\ asked.targets # <<>> /\ None \notin Devices(asked) /\ wanted
          /\ n <= IF several THEN file.devices ELSE 1
          /\ Needed(asked) \subseteq file.features
    BY <1>3, <2>1 DEF several
  <2>3. QED
    BY <1>4, <1>5, <2>2, Zenon DEF held
<1>6. CASE ~ InForce
  <2>1. asked.targets # <<>> => (n <= 1 <=> n = 1)
    BY <1>2
  <2>2. BasicAllows(held, asked) <=>
          asked.targets # <<>> /\ None \notin Devices(asked) /\ wanted /\ n <= 1
    BY <1>1, <1>3, <1>6, Zenon
  <2>3. QED
    BY <1>4, <1>6, <2>1, <2>2, Zenon DEF held
<1>7. QED
  BY <1>5, <1>6 DEF held

--------------------------------------------------------------------------------
(* The invariant holds initially and is preserved by every step                *)

LEMMA InitLicenseInv ==
  ASSUME LicenseAssumption, LicenseInit
  PROVE  LicenseInv
BY DEF LicenseAssumption, LicenseInit, LicenseInv, FileInv, AnswerInv

LEMMA FileStep ==
  ASSUME LicenseAssumption, FileInv, [LicenseNext]_licenseVars
  PROVE  FileInv'
<1> USE DEF LicenseAssumption, FileInv
<1>1. CASE Tick \/ Reload \/ Outside \/ UNCHANGED licenseVars
  BY <1>1 DEF Tick, Reload, Outside, licenseVars
<1>2. CASE CheckSource \/ CopySource \/ Install \/ ImportStops
  BY <1>2 DEF CheckSource, CopySource, Install, ImportStops
<1>3. ASSUME NEW asked \in Questions, AskPolicy(asked)
      PROVE  FileInv'
  BY <1>3 DEF AskPolicy
<1>4. QED
  BY <1>1, <1>2, <1>3 DEF LicenseNext

LEMMA AnswerStep ==
  ASSUME LicenseAssumption, FileInv, AnswerInv, [LicenseNext]_licenseVars
  PROVE  AnswerInv'
\* What a document entitles to depends on nothing but it and the clock.
<1>1. ASSUME UNCHANGED <<file, clock, answer>>
      PROVE  AnswerInv'
  BY <1>1 DEF AnswerInv, Entitled, InForce, Covers
<1>2. CASE answer' = None
  BY <1>2 DEF AnswerInv
<1>3. CASE Tick \/ Outside \/ Install
  BY <1>2, <1>3 DEF Tick, Outside, Install
<1>4. CASE Reload \/ CheckSource \/ CopySource \/ ImportStops \/ UNCHANGED licenseVars
  BY <1>1, <1>4 DEF Reload, CheckSource, CopySource, ImportStops, licenseVars
<1>5. ASSUME NEW asked \in Questions, AskPolicy(asked)
      PROVE  AnswerInv'
  <2> DEFINE held == LoadedFrom(file, clock)
             allowed == IF asked.edition = "basic" THEN BasicAllows(held, asked) ELSE ProAllows(held, asked)
  <2>1. /\ answer' = [asked |-> asked, allowed |-> allowed] /\ UNCHANGED <<file, clock>>
    BY <1>5 DEF AskPolicy
  <2>2. allowed \in BOOLEAN
    BY DEF BasicAllows, ProAllows
  <2>3. allowed <=> Entitled(asked)
    <3>1. CASE asked.edition = "basic"
      BY <3>1, BasicIsEntitled
    <3>2. CASE asked.edition # "basic"
      BY <3>2, ProIsEntitled DEF LicenseAssumption
    <3>3. QED
      BY <3>1, <3>2
  <2>4. Entitled(asked)' <=> Entitled(asked)
    BY <2>1 DEF Entitled, InForce, Covers
  <2> HIDE DEF allowed
  <2>5. answer'.asked = asked /\ answer'.allowed = allowed
    BY <2>1
  <2>6. QED
    BY <2>2, <2>3, <2>4, <2>5 DEF AnswerInv
<1>6. QED
  BY <1>3, <1>4, <1>5 DEF LicenseNext

--------------------------------------------------------------------------------
(* The theorems                                                                *)

(* Every reachable state satisfies the inductive invariant: load,              *)
(* import_license and the policies keep it, manager.py:126-341.                *)
THEOREM LicenseInvariance ==
  ASSUME LicenseAssumption
  PROVE  LicenseSpec => []LicenseInv
<1>1. LicenseInit => LicenseInv
  BY InitLicenseInv
<1>2. LicenseInv /\ [LicenseNext]_licenseVars => LicenseInv'
  BY FileStep, AnswerStep DEF LicenseInv
<1>3. QED
  BY <1>1, <1>2, PTL DEF LicenseSpec

(* Both policies give the answer of the document in force, for every document, *)
(* list of targets and set of assessments, and the installed file is never     *)
(* torn: manager.py:126-341, basic_policy.py:86-115.                           *)
THEOREM PoliciesHonourTheLicense ==
  ASSUME LicenseAssumption
  PROVE  LicenseSpec => []LicenseIsHonoured
<1>1. LicenseInv => LicenseIsHonoured
  BY DEF LicenseInv, FileInv, AnswerInv, LicenseIsHonoured, LicenseAssumption
<1>2. QED
  BY <1>1, LicenseInvariance, PTL

--------------------------------------------------------------------------------
(* THE JUDGEMENTS.  The inductive invariant: the verdict on a check is what    *)
(* evaluate returns for its case, the checklists of a run are those the        *)
(* functions fill for it; the other verdicts are not looked at again.          *)
JudgeInv ==
  /\ IsCase(case)
  /\ Answered("check") => verdict = Evaluate(case)
  /\ Answered("checklist") => verdict = ChecklistsOf(case)

\* A least and a greatest element.
LEMMA FirstOne ==
  ASSUME NEW S \in SUBSET Nat, S # {}
  PROVE  \E k \in S : \A j \in S : k <= j
<1> DEFINE R == OpToRel(<, Nat)
<1>1. IsWellFoundedOn(R, Nat)
  BY NatLessThanWellFounded
<1>2. PICK k \in S : \A j \in S : ~ (<<j, k>> \in R)
  <2> HIDE DEF R
  <2>1. QED
    BY <1>1, WFMin, Zenon
<1>3. ASSUME NEW j \in S, j < k
      PROVE  FALSE
  <2>1. j \in Nat /\ k \in Nat
    OBVIOUS
  <2>2. <<j, k>> \in R
    BY <2>1, <1>3, Zenon DEF OpToRel
  <2>3. QED
    BY <1>2, <2>2, Zenon
<1> HIDE DEF R
<1>4. \A j \in S : k <= j
  BY <1>3
<1>5. QED
  BY <1>4

LEMMA FinalOne ==
  ASSUME NEW n \in Nat, NEW S \in SUBSET (1 .. n), S # {}
  PROVE  \E k \in S : \A j \in S : j <= k
<1> DEFINE T == {y \in Nat : n - y \in S}
<1>1. PICK k \in S : TRUE
  OBVIOUS
<1>2. n - (n - k) = k /\ n - k \in Nat
  BY <1>1
<1>3. T \in SUBSET Nat /\ T # {}
  BY <1>2
<1>4. PICK x \in T : \A y \in T : x <= y
  <2> HIDE DEF T
  <2>1. QED
    BY <1>3, FirstOne
<1>5. x \in Nat /\ n - x \in S
  OBVIOUS
<1>6. ASSUME NEW j \in S
      PROVE  j <= n - x
  <2>1. n - j \in Nat /\ n - (n - j) = j
    OBVIOUS
  <2>2. n - j \in T
    BY <2>1
  <2>3. x <= n - j
    BY <1>4, <2>2
  <2>4. QED
    BY <1>5, <2>1, <2>3
<1>7. QED
  BY <1>5, <1>6

--------------------------------------------------------------------------------
(* Exceptions.  A status that is not the plain one is that of the first rule   *)
(* that applies.                                                               *)

LEMMA ForcedByARule ==
  ASSUME NEW status, NEW rules, IsList(rules), NEW device, NEW check, NEW objects,
         ApplyExceptions(status, rules, device, check, objects) # status
  PROVE  \E k \in DOMAIN rules :
           /\ rules[k].force = ApplyExceptions(status, rules, device, check, objects)
           /\ ExceptionApplies(rules[k], device, check, objects)
<1> DEFINE applies == {k \in DOMAIN rules : ExceptionApplies(rules[k], device, check, objects)}
           first == CHOOSE k \in applies : \A j \in applies : k <= j
<1>1. ApplyExceptions(status, rules, device, check, objects) =
        IF applies = {} THEN status ELSE rules[first].force
  BY DEF ApplyExceptions
<1>2. applies # {}
  BY <1>1
<1>3. applies \in SUBSET Nat
  BY DEF IsList
<1>4. \E k \in applies : \A j \in applies : k <= j
  <2> HIDE DEF applies
  <2>1. QED
    BY <1>2, <1>3, FirstOne
<1>5. first \in applies
  <2> HIDE DEF applies
  <2>1. QED
    BY <1>4
<1>6. first \in DOMAIN rules /\ ExceptionApplies(rules[first], device, check, objects)
  BY <1>5
<1> HIDE DEF applies, first
<1>7. QED
  BY <1>1, <1>2, <1>6

\* Without rules the same objects are judged, and no status is forced.
LEMMA PlainResult ==
  ASSUME NEW check, NEW collected, NEW outcome, NEW rules, NEW device
  PROVE  LET given == Result(check, collected, outcome, rules, device)
             plain == Result(check, collected, outcome, <<>>, device)
         IN  /\ plain.objects = given.objects
             /\ given.status = ApplyExceptions(plain.status, rules, device, check, plain.objects)
<1> DEFINE lost == ~ check.commands \subseteq collected \/ outcome.raised
           objects == IF lost THEN {} ELSE outcome.failed \cup outcome.ok
           status == StatusOf(check, collected, outcome)
<1>1. \A r : Result(check, collected, outcome, r, device) =
               [status |-> ApplyExceptions(status, r, device, check, objects), objects |-> objects]
  BY DEF Result
<1> HIDE DEF objects, status
<1>2. DOMAIN <<>> = {}
  OBVIOUS
<1>3. {k \in DOMAIN <<>> : ExceptionApplies(<<>>[k], device, check, objects)} = {}
  BY <1>2
<1>4. ApplyExceptions(status, <<>>, device, check, objects) = status
  BY <1>3 DEF ApplyExceptions
<1>5. QED
  BY <1>1, <1>4

LEMMA ExceptionsInScope ==
  ASSUME JudgeInv
  PROVE  ExceptionsAreScoped
<1> SUFFICES ASSUME Answered("check")
             PROVE  LET plain == Evaluate([case EXCEPT !.rules = <<>>])
                    IN  verdict.status # plain.status =>
                          \E k \in DOMAIN case.rules :
                            LET rule == case.rules[k]
                            IN  /\ rule.force = verdict.status
                                /\ rule.device \in {"*", case.device.name} /\ rule.vuln \in {"*", case.check.vuln}
                                /\ \/ rule.type = "*" /\ rule.name = "*"
                                   \/ \E o \in plain.objects : rule.type \in {"*", o[1]} /\ rule.name \in {"*", o[2]}
  BY Zenon DEF ExceptionsAreScoped
<1> DEFINE bare == [case EXCEPT !.rules = <<>>]
           outcome == EvaluateByType(case.check, case.profile, case.device)
           given == Result(case.check, case.device.collected, outcome, case.rules, case.device.name)
           plain == Result(case.check, case.device.collected, outcome, <<>>, case.device.name)
<1>1. IsList(case.rules) /\ DOMAIN case = {"kind", "check", "profile", "device", "rules"}
  BY DEF JudgeInv, IsCase, Answered
<1>2. verdict = given
  BY DEF JudgeInv, Evaluate
<1>3. bare.check = case.check /\ bare.profile = case.profile /\ bare.device = case.device /\ bare.rules = <<>>
  BY <1>1
<1>4. Evaluate(bare) = plain
  <2> HIDE DEF bare
  <2>1. QED
    BY <1>3 DEF Evaluate
<1>5. /\ plain.objects = given.objects
      /\ given.status = ApplyExceptions(plain.status, case.rules, case.device.name, case.check, plain.objects)
  <2> HIDE DEF outcome
  <2>1. QED
    BY PlainResult
<1> HIDE DEF bare, outcome, given, plain
<1>6. ASSUME verdict.status # plain.status
      PROVE  \E k \in DOMAIN case.rules :
               /\ case.rules[k].force = verdict.status
               /\ ExceptionApplies(case.rules[k], case.device.name, case.check, plain.objects)
  BY <1>1, <1>2, <1>5, <1>6, ForcedByARule
<1>7. \A rule : ExceptionApplies(rule, case.device.name, case.check, plain.objects) <=>
        /\ rule.device \in {"*", case.device.name} /\ rule.vuln \in {"*", case.check.vuln}
        /\ \/ rule.type = "*" /\ rule.name = "*"
           \/ \E o \in plain.objects : rule.type \in {"*", o[1]} /\ rule.name \in {"*", o[2]}
  BY DEF ExceptionApplies, Selects
<1>8. QED
  BY <1>4, <1>6, <1>7 DEF bare

--------------------------------------------------------------------------------
(* Trends.  What the two classifications say of the two statuses.              *)

LEMMA ClassMeans ==
  ASSUME NEW before, NEW after, NEW changed \in BOOLEAN
  PROVE  LET class == Trends!Classify(before, after, changed)
             conclusive == /\ ~ changed /\ before # None /\ after # None
                           /\ before \notin Trends!Inconclusive /\ after \notin Trends!Inconclusive
         IN  /\ class = "RESOLVED"           => conclusive /\ before = "Open" /\ after = "NotAFinding"
             /\ class = "PERSISTENT_FINDING" => conclusive /\ before = "Open" /\ after = "Open"
             /\ class = "NEW_FINDING"        => conclusive /\ before # "Open" /\ after = "Open"
             /\ class = "UNCHANGED_PASS"     => conclusive /\ before = "NotAFinding" /\ after = "NotAFinding"
<1>1. CASE changed
  BY <1>1 DEF Trends!Classify
<1>2. CASE ~ changed /\ (before = None \/ after = None)
  BY <1>2 DEF Trends!Classify
<1>3. CASE ~ changed /\ before # None /\ after # None
  <2>1. CASE before \in Trends!Inconclusive \/ after \in Trends!Inconclusive
    BY <1>3, <2>1 DEF Trends!Classify
  <2>2. CASE before \notin Trends!Inconclusive /\ after \notin Trends!Inconclusive
    <3> DEFINE status ==
          CASE before = "Open" /\ after = "Open"               -> "PERSISTENT_FINDING"
            [] before = "Open" /\ after = "NotAFinding"        -> "RESOLVED"
            [] before # "Open" /\ after = "Open"               -> "NEW_FINDING"
            [] before = "NotAFinding" /\ after = "NotAFinding" -> "UNCHANGED_PASS"
            [] before = "Not_Applicable" /\ after \notin {"Not_Applicable", "Open"} -> "NEWLY_APPLICABLE"
            [] before # "Not_Applicable" /\ after = "Not_Applicable" -> "NO_LONGER_APPLICABLE"
            [] OTHER                                           -> "STATUS_CHANGED"
    <3>1. Trends!Classify(before, after, changed) = status
      BY <1>3, <2>2 DEF Trends!Classify
    <3>2. CASE before = "Open" /\ after = "Open"
      BY <3>2, <3>1, <1>3, <2>2
    <3>3. CASE before = "Open" /\ after = "NotAFinding"
      BY <3>3, <3>1, <1>3, <2>2
    <3>4. CASE before # "Open" /\ after = "Open"
      BY <3>4, <3>1, <1>3, <2>2
    <3>5. CASE before = "NotAFinding" /\ after = "NotAFinding"
      BY <3>5, <3>1, <1>3, <2>2
    <3>6. CASE /\ ~ (before = "Open" /\ after = "Open") /\ ~ (before = "Open" /\ after = "NotAFinding")
               /\ ~ (before # "Open" /\ after = "Open") /\ ~ (before = "NotAFinding" /\ after = "NotAFinding")
      <4>1. status \in {"NEWLY_APPLICABLE", "NO_LONGER_APPLICABLE", "STATUS_CHANGED"}
        BY <3>6
      <4>2. QED
        BY <3>1, <4>1
    <3>7. QED
      BY <3>2, <3>3, <3>4, <3>5, <3>6
  <2>3. QED
    BY <2>1, <2>2
<1>4. QED
  BY <1>1, <1>2, <1>3

(* Which class the two statuses get when the runs change places.               *)
LEMMA ClassReversed ==
  ASSUME NEW before, NEW after, NEW changed \in BOOLEAN, NEW pair \in Trends!Reversed,
         Trends!Classify(before, after, changed) = pair[1]
  PROVE  Trends!Classify(after, before, changed) = pair[2]
<1>1. CASE pair = <<"NOT_COMPARABLE", "NOT_COMPARABLE">>
  <2>1. CASE changed
    BY <1>1, <2>1 DEF Trends!Classify
  <2>2. CASE ~ changed /\ (before = None \/ after = None)
    BY <1>1, <2>2 DEF Trends!Classify
  <2>3. CASE ~ changed /\ before # None /\ after # None /\ {before, after} \cap Trends!Inconclusive # {}
    <3>1. {after, before} \cap Trends!Inconclusive # {}
      BY <2>3
    <3>2. QED
      BY <1>1, <2>3, <3>1 DEF Trends!Classify
  <2>4. CASE ~ changed /\ before # None /\ after # None /\ {before, after} \cap Trends!Inconclusive = {}
    <3> DEFINE status ==
          CASE before = "Open" /\ after = "Open"               -> "PERSISTENT_FINDING"
            [] before = "Open" /\ after = "NotAFinding"        -> "RESOLVED"
            [] before # "Open" /\ after = "Open"               -> "NEW_FINDING"
            [] before = "NotAFinding" /\ after = "NotAFinding" -> "UNCHANGED_PASS"
            [] before = "Not_Applicable" /\ after \notin {"Not_Applicable", "Open"} -> "NEWLY_APPLICABLE"
            [] before # "Not_Applicable" /\ after = "Not_Applicable" -> "NO_LONGER_APPLICABLE"
            [] OTHER                                           -> "STATUS_CHANGED"
    <3>1. status = "NOT_COMPARABLE"
      BY <1>1, <2>4 DEF Trends!Classify
    <3>2. CASE before = "Open" /\ after = "Open"
      BY <3>1, <3>2
    <3>3. CASE before = "Open" /\ after = "NotAFinding"
      BY <3>1, <3>3
    <3>4. CASE before # "Open" /\ after = "Open"
      BY <3>1, <3>4
    <3>5. CASE before = "NotAFinding" /\ after = "NotAFinding"
      BY <3>1, <3>5
    <3>6. CASE /\ ~ (before = "Open" /\ after = "Open") /\ ~ (before = "Open" /\ after = "NotAFinding")
               /\ ~ (before # "Open" /\ after = "Open") /\ ~ (before = "NotAFinding" /\ after = "NotAFinding")
      <4>1. status \in {"NEWLY_APPLICABLE", "NO_LONGER_APPLICABLE", "STATUS_CHANGED"}
        BY <3>6
      <4>2. QED
        BY <3>1, <4>1
    <3>7. QED
      BY <3>2, <3>3, <3>4, <3>5, <3>6
  <2>5. QED
    BY <2>1, <2>2, <2>3, <2>4
<1>2. CASE pair # <<"NOT_COMPARABLE", "NOT_COMPARABLE">>
  <2>1. /\ ~ changed /\ before # None /\ after # None
        /\ before \notin Trends!Inconclusive /\ after \notin Trends!Inconclusive
        /\ \/ pair = <<"RESOLVED", "NEW_FINDING">> /\ before = "Open" /\ after = "NotAFinding"
           \/ pair = <<"PERSISTENT_FINDING", "PERSISTENT_FINDING">> /\ before = "Open" /\ after = "Open"
           \/ pair = <<"UNCHANGED_PASS", "UNCHANGED_PASS">> /\ before = "NotAFinding" /\ after = "NotAFinding"
    BY <1>2, ClassMeans DEF Trends!Reversed
  <2>2. {after, before} \cap Trends!Inconclusive = {}
    BY <2>1
  <2>3. CASE before = "Open" /\ after = "Open"
    BY <2>1, <2>2, <2>3 DEF Trends!Classify
  <2>4. CASE before = "Open" /\ after = "NotAFinding"
    BY <2>1, <2>2, <2>4 DEF Trends!Classify
  <2>5. CASE before = "NotAFinding" /\ after = "NotAFinding"
    BY <2>1, <2>2, <2>5 DEF Trends!Classify
  <2>6. QED
    BY <2>1, <2>3, <2>4, <2>5
<1>3. QED
  BY <1>1, <1>2

\* Two lists of results have finitely many keys.
LEMMA KeysAreFinite ==
  ASSUME NEW run, IsList(run)
  PROVE  IsFiniteSet(Trends!Keys(run))
<1> DEFINE f == [i \in 1 .. Len(run) |-> Trends!Key(run[i])]
<1>1. f \in Surjection(1 .. Len(run), Trends!Keys(run))
  <2>1. Trends!Keys(run) = {f[i] : i \in 1 .. Len(run)}
    BY DEF Trends!Keys, IsList
  <2>2. f \in [1 .. Len(run) -> Trends!Keys(run)]
    BY <2>1
  <2> HIDE DEF f
  <2>3. QED
    BY <2>1, <2>2 DEF Surjection
<1>2. IsFiniteSet(1 .. Len(run))
  BY FS_Interval DEF IsList
<1>3. QED
  BY <1>1, <1>2, FS_Surjection

\* The status compared for a key is that of a result with the key.
LEMMA StatusIsOfAResult ==
  ASSUME NEW run, IsList(run), NEW key \in Trends!Keys(run)
  PROVE  \E i \in DOMAIN run : Trends!Key(run[i]) = key /\ run[i].status = Trends!StatusIn(run, key)
<1> DEFINE of == {i \in DOMAIN run : Trends!Key(run[i]) = key}
           last == CHOOSE i \in of : \A j \in of : j <= i
<1>1. of # {} /\ of \in SUBSET (1 .. Len(run)) /\ Len(run) \in Nat
  BY DEF Trends!Keys, IsList
<1>2. Trends!StatusIn(run, key) = IF of = {} THEN None ELSE run[last].status
  BY DEF Trends!StatusIn
<1>3. \E i \in of : \A j \in of : j <= i
  <2> HIDE DEF of
  <2>1. QED
    BY <1>1, FinalOne
<1>4. last \in of
  <2> HIDE DEF of
  <2>1. QED
    BY <1>3
<1>5. last \in DOMAIN run /\ Trends!Key(run[last]) = key
  BY <1>4
<1> HIDE DEF of, last
<1>6. QED
  BY <1>1, <1>2, <1>5

\* Counting in three disjoint parts.
LEMMA ThreeParts ==
  ASSUME NEW S, NEW A, NEW B, NEW C, IsFiniteSet(S), S = A \cup B \cup C,
         A \cap B = {}, A \cap C = {}, B \cap C = {}
  PROVE  Cardinality(S) = Cardinality(A) + Cardinality(B) + Cardinality(C)
<1>1. IsFiniteSet(A) /\ IsFiniteSet(B) /\ IsFiniteSet(C) /\ IsFiniteSet(A \cup B)
  BY FS_Subset
<1>2. (A \cup B) \cap C = {} /\ Cardinality({}) = 0
  BY FS_EmptySet
<1>3. Cardinality(A \cup B) = Cardinality(A) + Cardinality(B) - 0
  BY <1>1, <1>2, FS_Union
<1>4. Cardinality(S) = Cardinality(A \cup B) + Cardinality(C) - 0
  BY <1>1, <1>2, FS_Union
<1>5. Cardinality(A) \in Nat /\ Cardinality(B) \in Nat /\ Cardinality(C) \in Nat
  BY <1>1, FS_CardinalityType
<1>6. QED
  BY <1>3, <1>4, <1>5

\* The comparison counts with its own instance of the standard module.
LEMMA SameCount ==
  ASSUME NEW S
  PROVE  Trends!Cardinality(S) = Cardinality(S)
BY DEF Trends!Cardinality, Cardinality

LEMMA RunsCompareHonestly ==
  ASSUME NEW previous, NEW current, IsList(previous), IsList(current), NEW oldPrints, NEW newPrints
  PROVE  Trends!TrendIsHonest(previous, current, oldPrints, newPrints)
<1> DEFINE keys  == Trends!Keys(previous) \cup Trends!Keys(current)
           item(k) == [key |-> k, before |-> Trends!StatusIn(previous, k), after |-> Trends!StatusIn(current, k),
                       class |-> Trends!Classify(Trends!StatusIn(previous, k), Trends!StatusIn(current, k),
                                                 Trends!FingerprintChanged(oldPrints, newPrints, k[2]))]
           items == Trends!CompareRuns(previous, current, oldPrints, newPrints)
           s     == Trends!Summary(items)
           back  == Trends!CompareRuns(current, previous, newPrints, oldPrints)
           decided == {"RESOLVED", "PERSISTENT_FINDING", "UNCHANGED_PASS"}
           apart  == {i \in items : i.class \notin decided \cup {"NEW_FINDING"}}
           of(class) == {i \in items : i.class = class}
<1>1. items = {item(k) : k \in keys}
  BY DEF Trends!CompareRuns
<1>2. IsFiniteSet(items)
  <2> DEFINE f == [k \in keys |-> item(k)]
  <2> HIDE DEF items, item
  <2>1. IsFiniteSet(keys)
    BY KeysAreFinite, FS_Union
  <2>2. f \in Surjection(keys, items)
    BY <1>1 DEF Surjection
  <2>3. QED
    BY <2>1, <2>2, FS_Surjection
<1>3. ASSUME NEW i \in items
      PROVE  LET changed == Trends!FingerprintChanged(oldPrints, newPrints, i.key[2])
             IN  /\ changed \in BOOLEAN
                 /\ i.class = Trends!Classify(i.before, i.after, changed)
  <2>1. PICK k \in keys : i = item(k)
    BY <1>1
  <2>2. QED
    BY <2>1 DEF Trends!FingerprintChanged
<1>4. ASSUME NEW i \in items
      PROVE  /\ i.class \in decided \cup {"NEW_FINDING"} =>
                  /\ ~ Trends!FingerprintChanged(oldPrints, newPrints, i.key[2])
                  /\ None \notin {i.before, i.after} /\ {i.before, i.after} \cap Trends!Inconclusive = {}
             /\ i.class = "RESOLVED" => i.before = "Open" /\ i.after = "NotAFinding"
             /\ i.class = "PERSISTENT_FINDING" => i.before = "Open" /\ i.after = "Open"
             /\ i.class = "NEW_FINDING" => i.before # "Open" /\ i.after = "Open"
             /\ i.class = "UNCHANGED_PASS" => i.before = "NotAFinding" /\ i.after = "NotAFinding"
  <2> HIDE DEF items
  <2>1. QED
    BY <1>3, ClassMeans
<1>5. ASSUME NEW k \in Trends!Keys(current)
      PROVE  \E i \in DOMAIN current : Trends!Key(current[i]) = k
                /\ \E it \in items : it.key = k /\ it.after = current[i].status
  <2>1. item(k) \in items
    BY <1>1
  <2>2. PICK i \in DOMAIN current : Trends!Key(current[i]) = k /\ current[i].status = Trends!StatusIn(current, k)
    BY StatusIsOfAResult
  <2>3. item(k).key = k /\ item(k).after = current[i].status
    BY <2>2
  <2> HIDE DEF items, item
  <2>4. QED
    BY <2>1, <2>2, <2>3
<1>6. /\ s.previousOpen = Cardinality({i \in items : i.before = "Open"})
      /\ s.currentOpen = Cardinality({i \in items : i.after = "Open"})
      /\ s.new = Cardinality(of("NEW_FINDING")) /\ s.resolved = Cardinality(of("RESOLVED"))
      /\ s.persistent = Cardinality(of("PERSISTENT_FINDING"))
  <2> HIDE DEF items
  <2>1. QED
    BY SameCount DEF Trends!Summary
<1> HIDE DEF items, s, back
<1>7. Cardinality({i \in items : i.before = "Open"}) =
        Cardinality(of("RESOLVED")) + Cardinality(of("PERSISTENT_FINDING"))
          + Cardinality({i \in apart : i.before = "Open"})
  <2> DEFINE open == {i \in items : i.before = "Open"}
             other == {i \in apart : i.before = "Open"}
  <2>1. IsFiniteSet(open)
    BY <1>2, FS_Subset
  <2>2. open = of("RESOLVED") \cup of("PERSISTENT_FINDING") \cup other
    BY <1>4
  <2>3. /\ of("RESOLVED") \cap of("PERSISTENT_FINDING") = {}
        /\ of("RESOLVED") \cap other = {} /\ of("PERSISTENT_FINDING") \cap other = {}
    OBVIOUS
  <2> HIDE DEF open, other, of
  <2>4. QED
    BY <2>1, <2>2, <2>3, ThreeParts DEF open, other
<1>8. Cardinality({i \in items : i.after = "Open"}) =
        Cardinality(of("NEW_FINDING")) + Cardinality(of("PERSISTENT_FINDING"))
          + Cardinality({i \in apart : i.after = "Open"})
  <2> DEFINE open == {i \in items : i.after = "Open"}
             other == {i \in apart : i.after = "Open"}
  <2>1. IsFiniteSet(open)
    BY <1>2, FS_Subset
  <2>2. open = of("NEW_FINDING") \cup of("PERSISTENT_FINDING") \cup other
    BY <1>4
  <2>3. /\ of("NEW_FINDING") \cap of("PERSISTENT_FINDING") = {}
        /\ of("NEW_FINDING") \cap other = {} /\ of("PERSISTENT_FINDING") \cap other = {}
    OBVIOUS
  <2> HIDE DEF open, other, of
  <2>4. QED
    BY <2>1, <2>2, <2>3, ThreeParts DEF open, other
<1>9. /\ \A i \in items : i.class \in decided => {i.before, i.after} \subseteq {"Open", "NotAFinding"}
      /\ \A i \in items : i.class = "NEW_FINDING" => i.before \notin {None, "Open"} \cup Trends!Inconclusive
      /\ \A i \in items : i.class \in decided \cup {"NEW_FINDING"} =>
           ~ Trends!FingerprintChanged(oldPrints, newPrints, i.key[2])
  BY <1>4
<1>12. \A pair \in Trends!Reversed, i \in items : i.class = pair[1] =>
         \E j \in back : j.key = i.key /\ j.class = pair[2]
  <2>1. SUFFICES ASSUME NEW pair \in Trends!Reversed, NEW i \in items, i.class = pair[1]
                 PROVE  \E j \in back : j.key = i.key /\ j.class = pair[2]
    OBVIOUS
  <2>2. PICK k \in keys : i = item(k)
    BY <1>1
  <2> DEFINE b == Trends!StatusIn(previous, k)
             a == Trends!StatusIn(current, k)
             j == [key |-> k, before |-> a, after |-> b,
                   class |-> Trends!Classify(a, b, Trends!FingerprintChanged(newPrints, oldPrints, k[2]))]
  <2>3. /\ Trends!FingerprintChanged(newPrints, oldPrints, k[2]) = Trends!FingerprintChanged(oldPrints, newPrints, k[2])
        /\ Trends!FingerprintChanged(oldPrints, newPrints, k[2]) \in BOOLEAN
    BY DEF Trends!FingerprintChanged
  <2>4. Trends!Classify(b, a, Trends!FingerprintChanged(oldPrints, newPrints, k[2])) = pair[1] /\ i.key = k
    BY <2>1, <2>2
  <2>5. Trends!Classify(a, b, Trends!FingerprintChanged(newPrints, oldPrints, k[2])) = pair[2]
    <3> HIDE DEF a, b
    <3>1. QED
      BY <2>3, <2>4, ClassReversed
  <2>6. j \in back
    BY DEF back, Trends!CompareRuns
  <2>7. j.key = i.key /\ j.class = pair[2]
    BY <2>4, <2>5
  <2> HIDE DEF j
  <2>8. QED
    BY <2>6, <2>7
<1>10. /\ s.previousOpen = s.resolved + s.persistent + Cardinality({i \in apart : i.before = "Open"})
       /\ s.currentOpen = s.new + s.persistent + Cardinality({i \in apart : i.after = "Open"})
  <2> HIDE DEF apart, of
  <2>1. QED
    BY <1>6, <1>7, <1>8
<1>11. /\ s.previousOpen = s.resolved + s.persistent + Trends!Cardinality({i \in apart : i.before = "Open"})
       /\ s.currentOpen = s.new + s.persistent + Trends!Cardinality({i \in apart : i.after = "Open"})
  <2> HIDE DEF apart
  <2>1. QED
    BY <1>10, SameCount
<1>13. QED
  BY <1>5, <1>9, <1>11, <1>12, Zenon DEF Trends!TrendIsHonest, items, s, back

--------------------------------------------------------------------------------
(* Verdicts.  An outcome passes when the mapping of the check turns it into    *)
(* the status for compliance; it fails when the status is another one.         *)
Passes(outcome)       == ~ outcome.raised /\ outcome.status = NoStatus /\ outcome.passed
Fails(check, outcome) == outcome.raised \/ (~ outcome.passed /\ outcome.status \in {NoStatus, check.result.error, "Not_Reviewed"})

Decides(check, outcome, good) == (good => Passes(outcome)) /\ (~ good => Fails(check, outcome))

LEMMA JudgedOutcome ==
  ASSUME NEW check, NEW failed, NEW ok, NEW good, good <=> failed = {}
  PROVE  Decides(check, Judged(failed, ok), good)
BY DEF Decides, Passes, Fails, Judged, Outcome

LEMMA UndecidedOutcome ==
  ASSUME NEW check, NEW status \in {NoStatus, check.result.error, "Not_Reviewed"}, NEW good, ~ good
  PROVE  Decides(check, Undecided(status), good) /\ Decides(check, Raised, good)
<1>1. Raised.raised
  BY DEF Raised, Undecided, Outcome
<1>2. QED
  BY <1>1 DEF Decides, Fails, Undecided, Outcome

LEMMA VerdictOfOutcome ==
  ASSUME NEW check, Tells(check), NEW collected, NEW outcome, NEW good, Decides(check, outcome, good)
  PROVE  /\ StatusOf(check, collected, outcome) = check.result.pass => good
         /\ good /\ check.commands \subseteq collected => StatusOf(check, collected, outcome) = check.result.pass
<1>1. CASE good
  BY <1>1 DEF Decides, Passes, StatusOf
<1>2. CASE ~ good
  BY <1>2 DEF Decides, Fails, StatusOf, Tells
<1>3. QED
  BY <1>1, <1>2

--------------------------------------------------------------------------------
(* One evaluator after the other: it decides what the reference says.          *)

LEMMA PatternsFound ==
  ASSUME NEW profile, NEW literal, NEW keys, NEW p
  PROVE  p \in Patterns(profile, literal, keys) <=>
           \/ p \in literal
           \/ \E k \in keys : \E v \in ProfileList(profile, k.key) : p = [command |-> k.command, pattern |-> v, blank |-> FALSE]
BY DEF Patterns

LEMMA PatternDecides ==
  ASSUME NEW check, NEW profile, NEW d
  PROVE  Decides(check, CommandPatternPolicy(check, profile, d.outputs), PatternCompliance(check, profile, d))
<1> DEFINE required     == Patterns(profile, check.all, check.profileAll)
           alternatives == Patterns(profile, check.any, check.profileAny)
           forbidden    == Patterns(profile, check.none, check.profileNone)
           missing      == {p \in required : ~ Found(d.outputs, p)}
           present      == {p \in forbidden : Found(d.outputs, p) /\ ~ p.blank}
           matched      == alternatives = {} \/ \E p \in alternatives : Found(d.outputs, p)
           of(k, v)     == [command |-> k.command, pattern |-> v, blank |-> FALSE]
           values(k)    == ProfileList(profile, k.key)
           optional     == check.any # {} \/ \E k \in check.profileAny : values(k) # {}
           some         == check.all \cup check.none # {} \/ optional
                             \/ \E k \in check.profileAll \cup check.profileNone : values(k) # {}
           outcome      == CommandPatternPolicy(check, profile, d.outputs)
<1> HIDE DEF required, alternatives, forbidden
<1>1. PatternCompliance(check, profile, d) <=>
        /\ \A p \in check.all : Found(d.outputs, p)
        /\ \A k \in check.profileAll : \A v \in values(k) : Found(d.outputs, of(k, v))
        /\ \A p \in check.none : ~ Found(d.outputs, p) \/ p.blank
        /\ \A k \in check.profileNone : \A v \in values(k) : ~ Found(d.outputs, of(k, v)) \/ of(k, v).blank
        /\ optional => \/ \E p \in check.any : Found(d.outputs, p)
                       \/ \E k \in check.profileAny : \E v \in values(k) : Found(d.outputs, of(k, v))
        /\ some
  BY Zenon DEF PatternCompliance, Found
<1>2. missing = {} <=> /\ \A p \in check.all : Found(d.outputs, p)
                       /\ \A k \in check.profileAll : \A v \in values(k) : Found(d.outputs, of(k, v))
  <2> HIDE DEF of
  <2>1. \A p : p \in required <=> p \in check.all \/ \E k \in check.profileAll : \E v \in values(k) : p = of(k, v)
    BY PatternsFound DEF required, of
  <2> HIDE DEF values
  <2>2. QED
    BY <2>1
<1>3. present = {} <=> /\ \A p \in check.none : ~ Found(d.outputs, p) \/ p.blank
                       /\ \A k \in check.profileNone : \A v \in values(k) : ~ Found(d.outputs, of(k, v)) \/ of(k, v).blank
  <2> HIDE DEF of
  <2>1. \A p : p \in forbidden <=> p \in check.none \/ \E k \in check.profileNone : \E v \in values(k) : p = of(k, v)
    BY PatternsFound DEF forbidden, of
  <2> HIDE DEF values
  <2>2. QED
    BY <2>1
<1>4. /\ alternatives # {} <=> optional
      /\ matched <=> (optional => \/ \E p \in check.any : Found(d.outputs, p)
                                  \/ \E k \in check.profileAny : \E v \in values(k) : Found(d.outputs, of(k, v)))
  <2> HIDE DEF of
  <2>1. \A p : p \in alternatives <=> p \in check.any \/ \E k \in check.profileAny : \E v \in values(k) : p = of(k, v)
    BY PatternsFound DEF alternatives, of
  <2> HIDE DEF values
  <2>2. QED
    BY <2>1
<1>5. required = {} /\ alternatives = {} /\ forbidden = {} <=> ~ some
  <2> HIDE DEF of
  <2>1. \A p : p \in required <=> p \in check.all \/ \E k \in check.profileAll : \E v \in values(k) : p = of(k, v)
    BY PatternsFound DEF required, of
  <2>2. \A p : p \in forbidden <=> p \in check.none \/ \E k \in check.profileNone : \E v \in values(k) : p = of(k, v)
    BY PatternsFound DEF forbidden, of
  <2> HIDE DEF values
  <2>3. QED
    BY <1>4, <2>1, <2>2
<1> HIDE DEF of, values, optional, some, missing, matched, present
<1>6. PatternCompliance(check, profile, d) <=> missing = {} /\ matched /\ present = {} /\ some
  BY <1>1, <1>2, <1>3, <1>4, Zenon
<1>7. outcome = IF ~ some THEN Undecided("Not_Reviewed")
                ELSE Outcome(missing = {} /\ matched /\ present = {}, NoStatus,
                             {<<"pattern", p.pattern>> : p \in missing \cup present}, {})
  <2>1. outcome = IF required = {} /\ alternatives = {} /\ forbidden = {} THEN Undecided("Not_Reviewed")
                  ELSE Outcome(missing = {} /\ matched /\ present = {}, NoStatus,
                               {<<"pattern", p.pattern>> : p \in missing \cup present}, {})
    BY Zenon DEF CommandPatternPolicy, required, alternatives, forbidden, missing, present, matched
  <2> HIDE DEF outcome
  <2>2. QED
    BY <1>5, <2>1
<1>8. CASE ~ some
  BY <1>6, <1>7, <1>8, UndecidedOutcome
<1>9. CASE some
  <2> DEFINE passed == missing = {} /\ matched /\ present = {}
             failed == {<<"pattern", p.pattern>> : p \in missing \cup present}
  <2>1. passed \in BOOLEAN
    BY Zenon
  <2>2. outcome = Outcome(passed, NoStatus, failed, {})
    BY <1>7, <1>9
  <2>3. PatternCompliance(check, profile, d) <=> passed
    BY <1>6, <1>9
  <2> HIDE DEF passed, failed
  <2>4. ~ outcome.raised /\ outcome.status = NoStatus /\ (outcome.passed <=> passed)
    BY <2>1, <2>2 DEF Outcome
  <2> HIDE DEF outcome
  <2>5. QED
    BY <2>3, <2>4 DEF Decides, Passes, Fails, outcome
<1>10. QED
  BY <1>8, <1>9

LEMMA InterfaceDecides ==
  ASSUME NEW check, NEW d
  PROVE  Decides(check, InterfaceConfigPolicy(check, d), InterfaceCompliance(check, d))
<1> DEFINE candidates == Candidates(check.scope, d.interfaces)
           missing    == check.global \ d.running
           failing    == {i \in candidates : ~ Exempt(check, i) /\ InterfaceFails(check, i)}
           nothing    == /\ check.global = {} /\ check.required = {} /\ check.alternatives = {}
                         /\ check.forbidden = {} /\ check.forbiddenFields = {}
           failed     == {<<"global_config", g>> : g \in missing} \cup {Object(i) : i \in failing}
           inScope(i) == \E rule \in check.scope : Includes(rule, i)
           good       == InterfaceCompliance(check, d)
<1>1. good <=> /\ missing = {} /\ failing = {}
               /\ check.requireCandidates => candidates # {}
               /\ ~ nothing
  <2> DEFINE wanted(i) == /\ \A p \in check.required : p \in Lines(i)
                          /\ \A p \in check.forbidden : p \notin Lines(i)
                          /\ \A group \in check.alternatives : \E p \in group : p \in Lines(i)
                          /\ \A f \in check.forbiddenFields : ~ ValueMatches(InterfaceField(i, f.field), f.expected)
  <2>1. good <=> /\ \A p \in check.global : p \in d.running
                 /\ \A i \in d.interfaces : inScope(i) => (Exempt(check, i) \/ wanted(i))
                 /\ check.requireCandidates => \E i \in d.interfaces : inScope(i)
                 /\ \/ check.global \cup check.required \cup check.forbidden # {}
                    \/ check.alternatives # {} \/ check.forbiddenFields # {}
    BY Zenon DEF InterfaceCompliance
  <2>2. \A i : wanted(i) <=> ~ InterfaceFails(check, i)
    BY DEF InterfaceFails
  <2>3. \A i : i \in candidates <=> i \in d.interfaces /\ inScope(i)
    BY DEF Candidates
  <2>4. missing = {} <=> \A p \in check.global : p \in d.running
    OBVIOUS
  <2>5. ~ nothing <=> \/ check.global \cup check.required \cup check.forbidden # {}
                      \/ check.alternatives # {} \/ check.forbiddenFields # {}
    OBVIOUS
  <2> HIDE DEF wanted, candidates, inScope
  <2>6. failing = {} <=> \A i \in d.interfaces : inScope(i) => (Exempt(check, i) \/ wanted(i))
    BY <2>2, <2>3
  <2>7. candidates # {} <=> \E i \in d.interfaces : inScope(i)
    BY <2>3
  <2> HIDE DEF good, missing, failing, nothing
  <2>8. QED
    BY <2>1, <2>4, <2>5, <2>6, <2>7
<1>2. failed = {} <=> missing = {} /\ failing = {}
  <2> HIDE DEF missing, failing
  <2>1. QED
    OBVIOUS
<1>3. InterfaceConfigPolicy(check, d) =
        IF nothing THEN Undecided("Not_Reviewed")
        ELSE IF check.requireCandidates /\ candidates = {} THEN Undecided(check.result.error)
        ELSE Judged(failed, {Object(i) : i \in candidates \ failing})
  BY Zenon DEF InterfaceConfigPolicy
<1> HIDE DEF good, failed, missing, failing, nothing, candidates
<1>4. CASE nothing \/ (check.requireCandidates /\ candidates = {})
  BY <1>1, <1>3, <1>4, UndecidedOutcome DEF good
<1>5. CASE ~ nothing /\ ~ (check.requireCandidates /\ candidates = {})
  BY <1>1, <1>2, <1>3, <1>5, JudgedOutcome DEF good
<1>6. QED
  BY <1>4, <1>5

\* The lines of finitely many blocks are finitely many.
LEMMA LinesAreFinite ==
  ASSUME NEW maximum, NEW blocks, VtyFacts(maximum, blocks)
  PROVE  Cardinality(UNION {b.first .. b.last : b \in NamesOf(blocks)}) \in Nat
<1> DEFINE ranges == {b.first .. b.last : b \in NamesOf(blocks)}
           f == [k \in 1 .. Len(blocks) |-> blocks[k].first .. blocks[k].last]
<1>1. Len(blocks) \in Nat /\ DOMAIN blocks = 1 .. Len(blocks)
  BY DEF VtyFacts, IsList
<1>2. f \in Surjection(1 .. Len(blocks), ranges)
  <2>1. ranges = {f[k] : k \in 1 .. Len(blocks)}
    BY <1>1 DEF NamesOf
  <2>2. f \in [1 .. Len(blocks) -> ranges]
    BY <2>1
  <2> HIDE DEF f, ranges
  <2>3. QED
    BY <2>1, <2>2 DEF Surjection
<1>3. IsFiniteSet(ranges)
  <2> HIDE DEF f, ranges
  <2>1. IsFiniteSet(1 .. Len(blocks))
    BY <1>1, FS_Interval
  <2>2. QED
    BY <1>2, <2>1, FS_Surjection
<1>4. ASSUME NEW r \in ranges
      PROVE  IsFiniteSet(r)
  <2>1. PICK k \in DOMAIN blocks : r = blocks[k].first .. blocks[k].last
    BY DEF NamesOf
  <2>2. blocks[k].first \in Int /\ blocks[k].last \in Int
    BY DEF VtyFacts
  <2>3. QED
    BY <2>1, <2>2, FS_Interval
<1> HIDE DEF ranges
<1>5. IsFiniteSet(UNION ranges)
  BY <1>3, <1>4, FS_UNION
<1>6. QED
  BY <1>5, FS_CardinalityType DEF ranges

LEMMA VtyDecides ==
  ASSUME NEW check, NEW maximum, NEW blocks, VtyFacts(maximum, blocks)
  PROVE  Decides(check, VtySessionLimitPolicy(maximum, blocks), VtyCompliance(maximum, blocks))
<1> DEFINE bs         == NamesOf(blocks)
           valid      == {b \in bs : b.first <= b.last}
           section(b) == <<"vty_section", b.first, b.last>>
           invalid    == {section(b) : b \in bs \ valid}
           overrun(b) == b.limits = {} \/ \E l \in b.limits : l = None \/ l > maximum
           over       == {section(b) : b \in {b \in valid : overrun(b)}}
           under      == {section(b) : b \in {b \in valid : ~ overrun(b)}}
           lines      == UNION {b.first .. b.last : b \in valid}
           capacity   == {<<"vty_capacity", Cardinality(lines)>>}
           limited    == \E b \in valid : b.limits # {}
           all        == UNION {b.first .. b.last : b \in bs}
           good       == VtyCompliance(maximum, blocks)
<1>1. VtySessionLimitPolicy(maximum, blocks) =
        IF maximum = None \/ maximum < 1 THEN Raised
        ELSE IF limited THEN Judged(invalid \cup over, under)
        ELSE IF Cardinality(lines) > maximum THEN Judged(invalid \cup capacity, {})
        ELSE Judged(invalid, capacity)
  BY Zenon DEF VtySessionLimitPolicy
<1>2. good <=> /\ maximum # None /\ maximum >= 1
               /\ \A b \in bs : b.first <= b.last
               /\ (\E b \in bs : b.limits # {} /\ b.first <= b.last) =>
                     \A b \in bs : b.limits # {} /\ \A l \in b.limits : l # None /\ l <= maximum
               /\ ~ (\E b \in bs : b.limits # {} /\ b.first <= b.last) => Cardinality(all) <= maximum
  BY Zenon DEF VtyCompliance
<1>3. /\ maximum \in Int \cup {None}
      /\ \A b \in bs : b.first \in Int /\ b.last \in Int /\ b.limits \subseteq Int \cup {None}
  BY DEF VtyFacts, NamesOf
<1>4. invalid = {} <=> \A b \in bs : b.first <= b.last
  OBVIOUS
<1>5. limited <=> \E b \in bs : b.limits # {} /\ b.first <= b.last
  OBVIOUS
<1>6. (\A b \in bs : b.first <= b.last) => valid = bs
  OBVIOUS
<1>7. Cardinality(all) \in Nat
  BY LinesAreFinite
<1>8. (\A b \in bs : b.first <= b.last) => lines = all
  <2> HIDE DEF valid
  <2>1. QED
    BY <1>6
<1>9. CASE maximum = None \/ maximum < 1
  <2>1. ~ good
    <3> HIDE DEF good, bs, all
    <3>1. QED
      BY <1>2, <1>3, <1>9
  <2> HIDE DEF good
  <2>2. QED
    BY <1>1, <1>9, <2>1, UndecidedOutcome DEF good
<1>10. CASE ~ (maximum = None \/ maximum < 1) /\ limited
  <2>1. over = {} <=> \A b \in valid : ~ overrun(b)
    <3> HIDE DEF valid, overrun
    <3>1. QED
      OBVIOUS
  <2>2. \A b \in bs : overrun(b) <=> ~ (b.limits # {} /\ \A l \in b.limits : l # None /\ l <= maximum)
    BY <1>3, <1>10
  <2> HIDE DEF overrun, over, under, invalid, section, limited, lines, capacity, all
  <2>3. (\A b \in bs : b.first <= b.last) /\ over = {} <=>
           (\A b \in bs : b.first <= b.last) /\ \A b \in bs : b.limits # {} /\ \A l \in b.limits : l # None /\ l <= maximum
    <3> HIDE DEF valid
    <3>1. QED
      BY <1>6, <2>1, <2>2
  <2>4. maximum # None /\ maximum >= 1
    BY <1>3, <1>10
  <2>5. good <=> invalid \cup over = {}
    <3>1. invalid \cup over = {} <=> invalid = {} /\ over = {}
      OBVIOUS
    <3> HIDE DEF good, valid, bs
    <3>2. QED
      BY <1>2, <1>4, <1>5, <1>10, <2>3, <2>4, <3>1, Zenon
  <2> HIDE DEF good, valid, bs
  <2>6. VtySessionLimitPolicy(maximum, blocks) = Judged(invalid \cup over, under)
    BY <1>1, <1>10
  <2>7. QED
    BY <2>5, <2>6, JudgedOutcome DEF good
<1>11. CASE ~ (maximum = None \/ maximum < 1) /\ ~ limited
  <2>1. maximum # None /\ maximum >= 1 /\ maximum \in Int
    BY <1>3, <1>11
  <2> HIDE DEF over, under, overrun, section, limited, lines, all, good, valid, bs
  <2>2. good <=> (\A b \in bs : b.first <= b.last) /\ Cardinality(all) <= maximum
    BY <1>2, <1>5, <1>11, <2>1, Zenon
  <2>3. invalid \cup capacity # {}
    OBVIOUS
  <2> HIDE DEF invalid, capacity
  <2>4. CASE Cardinality(lines) > maximum
    <3>1. ~ good
      BY <1>7, <1>8, <2>1, <2>2, <2>4
    <3>2. VtySessionLimitPolicy(maximum, blocks) = Judged(invalid \cup capacity, {})
      BY <1>1, <1>11, <2>4
    <3>3. QED
      BY <2>3, <3>1, <3>2, JudgedOutcome DEF good
  <2>5. CASE ~ (Cardinality(lines) > maximum)
    <3>1. good <=> invalid = {}
      BY <1>4, <1>7, <1>8, <2>1, <2>2, <2>5
    <3>2. VtySessionLimitPolicy(maximum, blocks) = Judged(invalid, capacity)
      BY <1>1, <1>11, <2>5
    <3>3. QED
      BY <3>1, <3>2, JudgedOutcome DEF good
  <2>6. QED
    BY <2>4, <2>5
<1> HIDE DEF good, limited
<1>12. QED
  BY <1>9, <1>10, <1>11

LEMMA RootGuardDecides ==
  ASSUME NEW check, NEW upstream, NEW d, None \notin DOMAIN d.ports
  PROVE  Decides(check, RootGuardNeighborPolicy(check, upstream, d), RootGuardCompliance(check, upstream, d))
<1> DEFINE names      == UNION {Variants(u) : u \in upstream}
           exempt(n)  == Variants(n.id) \cap names # {} \/ (check.tokens /\ n.token)
           switches   == {n \in d.neighbors : n.switch}
           targets    == {n \in switches : ~ exempt(n) /\ n.local # None}
           unresolved == {n \in switches : ~ exempt(n) /\ n.local = None}
           checked(n) == IF n.local \notin DOMAIN d.ports THEN {}
                         ELSE {n.local} \cup ({d.ports[n.local].channel} \cap DOMAIN d.ports)
           guarded(n) == \E p \in checked(n) : d.ports[p].guard
           object(n)  == <<"interface", n.local>>
           ok         == {object(n) : n \in {n \in switches : exempt(n)}}
                           \cup {object(n) : n \in {n \in targets : guarded(n)}}
           bad        == {n \in targets : ~ guarded(n)}
           above(n)   == (check.tokens /\ n.token) \/ \E u \in upstream : Variants(u) \cap Variants(n.id) # {}
           safe(n)    == /\ n.local \in DOMAIN d.ports
                         /\ \/ d.ports[n.local].guard
                            \/ LET channel == d.ports[n.local].channel
                               IN  channel \in DOMAIN d.ports /\ d.ports[channel].guard
           good       == RootGuardCompliance(check, upstream, d)
           unsaid     == (upstream = {} /\ ~ check.tokens) \/ d.neighbors = {}
<1>1. RootGuardNeighborPolicy(check, upstream, d) =
        IF upstream = {} /\ ~ check.tokens THEN Undecided("Not_Reviewed")
        ELSE IF d.neighbors = {} THEN Undecided("Not_Reviewed")
        ELSE IF bad # {} THEN Judged({object(n) : n \in bad}, ok)
        ELSE IF unresolved # {}
        THEN Outcome(FALSE, "Not_Reviewed", {<<"cdp_neighbor", n.id>> : n \in unresolved}, ok)
        ELSE Judged({}, ok)
  BY Zenon DEF RootGuardNeighborPolicy
<1>2. good <=> (\A n \in d.neighbors : n.switch /\ ~ above(n) => safe(n)) /\ ~ unsaid
  <2>1. good <=> /\ \A n \in d.neighbors : n.switch /\ ~ above(n) => safe(n)
                 /\ d.neighbors # {}
                 /\ upstream # {} \/ check.tokens
    BY Zenon DEF RootGuardCompliance
  <2> HIDE DEF good, above, safe
  <2>2. QED
    BY <2>1
<1>3. \A n : exempt(n) <=> above(n)
  BY Zenon
<1>4. \A n : safe(n) <=> guarded(n)
  BY Zenon
<1>5. \A n : n.local = None => ~ safe(n)
  OBVIOUS
<1> HIDE DEF exempt, above, safe, guarded
<1>6. bad = {} /\ unresolved = {} <=> \A n \in d.neighbors : n.switch /\ ~ above(n) => safe(n)
  BY <1>3, <1>4, <1>5
<1>7. bad # {} => {object(n) : n \in bad} # {}
  <2> HIDE DEF bad
  <2>1. QED
    OBVIOUS
<1> HIDE DEF bad, unresolved, good, ok
<1>8. CASE unsaid
  BY <1>1, <1>2, <1>8, UndecidedOutcome DEF good
<1>9. CASE ~ unsaid /\ bad # {}
  BY <1>1, <1>2, <1>6, <1>7, <1>9, JudgedOutcome DEF good
<1>10. CASE ~ unsaid /\ bad = {} /\ unresolved # {}
  <2>1. ~ good
    BY <1>2, <1>6, <1>10
  <2>2. RootGuardNeighborPolicy(check, upstream, d) =
          Outcome(FALSE, "Not_Reviewed", {<<"cdp_neighbor", n.id>> : n \in unresolved}, ok)
    BY <1>1, <1>10
  <2>3. Fails(check, RootGuardNeighborPolicy(check, upstream, d))
    BY <2>2 DEF Fails, Outcome
  <2>4. QED
    BY <2>1, <2>3 DEF Decides, good
<1>11. CASE ~ unsaid /\ bad = {} /\ unresolved = {}
  BY <1>1, <1>2, <1>6, <1>11, JudgedOutcome DEF good
<1> HIDE DEF unsaid
<1>12. QED
  BY <1>8, <1>9, <1>10, <1>11

LEMMA ManagementDecides ==
  ASSUME NEW check, NEW p, NEW d, ManagementFacts(d)
  PROVE  Decides(check, ManagementAccessPolicy(check, p, d), ManagementCompliance(p, d))
<1> DEFINE name(v)    == <<"vty_section", v.name>>
           vty        == {name(v) : v \in d.vty}
           classed    == {name(v) : v \in {v \in d.vty : v.class = p.acl}}
           network(s)  == AclPermitSource(s.type, s.tokens)
           permits    == {s \in d.acls : /\ s.acl = p.acl /\ s.action = "permit"
                                         /\ s.type \in {"standard", "extended"}}
           approved   == {s \in permits : network(s) \in p.networks}
           statement(s) == <<"acl_statement", s.sequence>>
           configured == {network(s) : s \in approved}
           noList     == (vty \ classed) \cup {<<"management_acl", p.acl>>}
           faults     == (vty \ classed) \cup {statement(s) : s \in permits \ approved}
                           \cup {<<"management_network", n>> : n \in p.networks \ configured}
           raises     == p.acl = None \/ p.networks = None \/ p.networks = {}
           good       == ManagementCompliance(p, d)
<1>1. ManagementAccessPolicy(check, p, d) =
        IF raises THEN Raised
        ELSE IF vty = {} THEN Undecided(check.result.error)
        ELSE IF permits = {} THEN Judged(noList, classed)
        ELSE Judged(faults, classed \cup {statement(s) : s \in approved})
  BY Zenon DEF ManagementAccessPolicy
<1>2. good <=> /\ ~ raises /\ vty # {}
               /\ \A v \in d.vty : v.class = p.acl
               /\ {network(s) : s \in permits} = p.networks
  <2>1. permits = {s \in d.acls : s.acl = p.acl /\ s.action = "permit" /\ s.type # "ipv6"}
    BY DEF ManagementFacts
  <2>2. vty # {} <=> d.vty # {}
    OBVIOUS
  <2>3. good <=> /\ p.acl # None /\ p.networks # None /\ p.networks # {} /\ d.vty # {}
                 /\ \A v \in d.vty : v.class = p.acl
                 /\ {network(s) : s \in {s \in d.acls : s.acl = p.acl /\ s.action = "permit" /\ s.type # "ipv6"}} = p.networks
    BY Zenon DEF ManagementCompliance
  <2> HIDE DEF good, permits, vty, network
  <2>4. QED
    BY <2>1, <2>2, <2>3
<1>3. vty \ classed = {} <=> \A v \in d.vty : v.class = p.acl
  <2>1. ASSUME vty \ classed = {}, NEW v \in d.vty
        PROVE  v.class = p.acl
    <3>1. name(v) \in classed
      BY <2>1
    <3>2. PICK w \in d.vty : w.class = p.acl /\ name(w) = name(v)
      BY <3>1
    <3>3. w.name = v.name
      BY <3>2
    <3>4. QED
      BY <3>2, <3>3 DEF ManagementFacts
  <2>2. QED
    BY <2>1
<1>4. permits \ approved = {} /\ p.networks \ configured = {} <=> {network(s) : s \in permits} = p.networks
  <2> HIDE DEF permits, network
  <2>1. QED
    OBVIOUS
<1>5. faults = {} <=> vty \ classed = {} /\ permits \ approved = {} /\ p.networks \ configured = {}
  <2> HIDE DEF permits, approved, vty, classed, configured
  <2>1. QED
    OBVIOUS
<1>6. noList # {}
  OBVIOUS
<1>7. permits = {} => {network(s) : s \in permits} = {}
  <2> HIDE DEF permits, network
  <2>1. QED
    OBVIOUS
<1> HIDE DEF vty, classed, permits, approved, configured, noList, faults, good, network
<1>8. CASE raises
  BY <1>1, <1>2, <1>8, UndecidedOutcome DEF good
<1>9. CASE ~ raises /\ vty = {}
  BY <1>1, <1>2, <1>9, UndecidedOutcome DEF good
<1>10. CASE ~ raises /\ vty # {} /\ permits = {}
  <2>1. ~ good
    BY <1>2, <1>7, <1>10
  <2>2. QED
    BY <1>1, <1>6, <1>10, <2>1, JudgedOutcome DEF good
<1>11. CASE ~ raises /\ vty # {} /\ permits # {}
  <2>1. good <=> faults = {}
    BY <1>2, <1>3, <1>4, <1>5, <1>11
  <2>2. QED
    BY <1>1, <1>11, <2>1, JudgedOutcome DEF good
<1> HIDE DEF raises
<1>12. QED
  BY <1>8, <1>9, <1>10, <1>11

\* The definition of a key that is in force is the last one.
LEMMA AlgorithmInForce ==
  ASSUME NEW keys, IsList(keys), NEW id, NEW approved, None \notin approved
  PROVE  NtpAlgorithm(keys, id) \in approved <=>
           \E n \in DOMAIN keys : /\ keys[n].id = id /\ \A j \in n + 1 .. Len(keys) : keys[j].id # id
                                  /\ keys[n].algorithm \in approved
<1> DEFINE defined == {k \in DOMAIN keys : keys[k].id = id}
           last == CHOOSE k \in defined : \A j \in defined : j <= k
           final(n) == n \in DOMAIN keys /\ keys[n].id = id /\ \A j \in n + 1 .. Len(keys) : keys[j].id # id
<1>1. Len(keys) \in Nat /\ DOMAIN keys = 1 .. Len(keys) /\ defined \in SUBSET (1 .. Len(keys))
  BY DEF IsList
<1>2. NtpAlgorithm(keys, id) = IF defined = {} THEN None ELSE keys[last].algorithm
  BY DEF NtpAlgorithm
<1>3. CASE defined = {}
  BY <1>2, <1>3
<1>4. CASE defined # {}
  <2>1. \E k \in defined : \A j \in defined : j <= k
    <3> HIDE DEF defined
    <3>1. QED
      BY <1>1, <1>4, FinalOne
  <2>2. last \in defined /\ \A j \in defined : j <= last
    <3> HIDE DEF defined
    <3>1. QED
      BY <2>1
  <2> HIDE DEF last
  <2>3. final(last)
    <3>1. last \in 1 .. Len(keys) /\ keys[last].id = id
      BY <1>1, <2>2
    <3>2. ASSUME NEW j \in last + 1 .. Len(keys), keys[j].id = id
          PROVE  FALSE
      <4>1. j \in defined /\ ~ (j <= last)
        BY <1>1, <3>1, <3>2
      <4>2. QED
        BY <2>2, <4>1
    <3>3. QED
      BY <1>1, <3>1, <3>2
  <2>4. ASSUME NEW n, final(n)
        PROVE  n = last
    <3>1. n \in 1 .. Len(keys) /\ last \in 1 .. Len(keys) /\ n <= last
      BY <1>1, <2>2, <2>4
    <3>2. CASE n < last
      <4>1. last \in n + 1 .. Len(keys) /\ keys[last].id = id
        BY <1>1, <2>2, <3>1, <3>2
      <4>2. QED
        BY <2>4, <4>1
    <3>3. QED
      BY <3>1, <3>2
  <2> HIDE DEF defined
  <2>5. NtpAlgorithm(keys, id) = keys[last].algorithm
    BY <1>2, <1>4
  <2>6. QED
    BY <2>3, <2>4, <2>5
<1> HIDE DEF defined
<1>5. QED
  BY <1>3, <1>4

(* What the reference says of a server. *)
AskedRightly(check, s, d) ==
  \E id \in {d.servers[l].key : l \in DOMAIN d.servers} \ {None} :
    /\ \E l \in DOMAIN d.servers :
         /\ d.servers[l].name = s /\ d.servers[l].key = id
         /\ \A e \in 1 .. l - 1 : d.servers[e].name = s => d.servers[e].key = None
    /\ \E t \in d.trusted : t.first <= id /\ id <= t.last
    /\ \E n \in DOMAIN d.keys : /\ d.keys[n].id = id /\ \A j \in n + 1 .. Len(d.keys) : d.keys[j].id # id
                                /\ d.keys[n].algorithm \in check.approved

\* A server is asked with the key of the first of its lines that names one.
LEMMA AskedWithFirstKey ==
  ASSUME NEW check, NEW servers, NEW d, NtpFacts(check, servers, d), NEW s
  PROVE  ~ NtpServerFails(check, s, d) <=> AskedRightly(check, s, d)
<1> DEFINE keyed == {k \in DOMAIN d.servers : d.servers[k].name = s /\ d.servers[k].key # None}
           first == CHOOSE k \in keyed : \A j \in keyed : k <= j
           key   == d.servers[first].key
           asks(l) == /\ l \in DOMAIN d.servers /\ d.servers[l].name = s /\ d.servers[l].key # None
                      /\ \A e \in 1 .. l - 1 : d.servers[e].name = s => d.servers[e].key = None
           approved(id) == \E n \in DOMAIN d.keys :
                             /\ d.keys[n].id = id /\ \A j \in n + 1 .. Len(d.keys) : d.keys[j].id # id
                             /\ d.keys[n].algorithm \in check.approved
           trusted(id) == \E t \in d.trusted : t.first <= id /\ id <= t.last
<1>1. Len(d.servers) \in Nat /\ DOMAIN d.servers = 1 .. Len(d.servers) /\ keyed \in SUBSET Nat
  BY DEF NtpFacts, IsList
<1>2. NtpServerFails(check, s, d) <=>
        keyed = {} \/ NtpAlgorithm(d.keys, key) \notin check.approved \/ key \notin NtpTrusted(d.trusted)
  BY Zenon DEF NtpServerFails
<1>3. \A id : NtpAlgorithm(d.keys, id) \in check.approved <=> approved(id)
  BY AlgorithmInForce DEF NtpFacts
<1>4. \A id \in Int : id \in NtpTrusted(d.trusted) <=> trusted(id)
  <2>1. \A t \in d.trusted : t.first \in Int /\ t.last \in Int
    BY DEF NtpFacts
  <2>2. QED
    BY <2>1 DEF NtpTrusted
<1>5. AskedRightly(check, s, d) <=> \E l : asks(l) /\ trusted(d.servers[l].key) /\ approved(d.servers[l].key)
  BY DEF AskedRightly
<1> HIDE DEF approved, trusted
<1>6. CASE keyed = {}
  <2>1. \A l : ~ asks(l)
    BY <1>6
  <2>2. QED
    BY <1>2, <1>5, <1>6, <2>1
<1>7. CASE keyed # {}
  <2>1. \E k \in keyed : \A j \in keyed : k <= j
    <3> HIDE DEF keyed
    <3>1. QED
      BY <1>1, <1>7, FirstOne
  <2>2. first \in keyed /\ \A j \in keyed : first <= j
    <3> HIDE DEF keyed
    <3>1. QED
      BY <2>1
  <2> HIDE DEF first
  <2>3. first \in 1 .. Len(d.servers) /\ d.servers[first].name = s /\ key # None
    BY <1>1, <2>2
  <2>4. asks(first)
    <3>1. ASSUME NEW e \in 1 .. first - 1, d.servers[e].name = s, d.servers[e].key # None
          PROVE  FALSE
      <4>1. e \in keyed /\ ~ (first <= e)
        BY <1>1, <2>3, <3>1
      <4>2. QED
        BY <2>2, <4>1
    <3>2. QED
      BY <1>1, <2>3, <3>1
  <2>5. ASSUME NEW l, asks(l)
        PROVE  l = first
    <3>1. l \in 1 .. Len(d.servers) /\ l \in keyed /\ first <= l
      BY <1>1, <2>2, <2>5
    <3>2. CASE first < l
      <4>1. first \in 1 .. l - 1
        BY <1>1, <2>3, <3>1, <3>2
      <4>2. QED
        BY <2>3, <2>5, <4>1
    <3>3. QED
      BY <2>3, <3>1, <3>2
  <2>6. key \in Int
    BY <1>1, <2>3 DEF NtpFacts
  <2> HIDE DEF keyed, asks
  <2>7. ~ NtpServerFails(check, s, d) <=> trusted(key) /\ approved(key)
    BY <1>2, <1>3, <1>4, <1>7, <2>6
  <2>8. QED
    BY <1>5, <2>4, <2>5, <2>7
<1> HIDE DEF keyed
<1>8. QED
  BY <1>6, <1>7

LEMMA NtpDecides ==
  ASSUME NEW check, NEW servers, NEW d, NtpFacts(check, servers, d)
  PROVE  Decides(check, NtpAuthenticationPolicy(check, servers, d), NtpCompliance(check, servers, d))
<1> DEFINE failing == {s \in NamesOf(servers) : NtpServerFails(check, s, d)}
           global  == {<<"ntp_global", "ntp authenticate">>}
           failed  == {<<"ntp_server", s>> : s \in failing} \cup (IF d.authenticate THEN {} ELSE global)
           ok      == {<<"ntp_server", s>> : s \in NamesOf(servers) \ failing}
                        \cup (IF d.authenticate THEN global ELSE {})
           few     == Cardinality(NamesOf(servers)) < check.minimum
           raises  == servers = None \/ check.approved = {}
           good    == NtpCompliance(check, servers, d)
<1>1. NtpAuthenticationPolicy(check, servers, d) =
        IF raises THEN Raised ELSE IF few THEN Raised ELSE Judged(failed, ok)
  BY Zenon DEF NtpAuthenticationPolicy
<1>2. failed = {} <=> failing = {} /\ d.authenticate
  <2> HIDE DEF failing
  <2>1. QED
    OBVIOUS
<1>3. good <=> /\ ~ raises /\ Cardinality({servers[k] : k \in DOMAIN servers}) >= check.minimum
               /\ d.authenticate /\ \A k \in DOMAIN servers : ~ NtpServerFails(check, servers[k], d)
  <2>1. good <=> /\ servers # None /\ check.approved # {}
                 /\ Cardinality({servers[k] : k \in DOMAIN servers}) >= check.minimum
                 /\ d.authenticate /\ \A k \in DOMAIN servers : AskedRightly(check, servers[k], d)
    BY Zenon DEF NtpCompliance, AskedRightly
  <2>2. \A k \in DOMAIN servers : ~ NtpServerFails(check, servers[k], d) <=> AskedRightly(check, servers[k], d)
    BY AskedWithFirstKey
  <2> HIDE DEF good
  <2>3. QED
    BY <2>1, <2>2, Zenon
<1>4. NamesOf(servers) = {servers[k] : k \in DOMAIN servers}
  BY DEF NamesOf
<1>5. ASSUME servers # None
      PROVE  Cardinality(NamesOf(servers)) \in Nat
  <2> DEFINE f == [k \in 1 .. Len(servers) |-> servers[k]]
  <2>1. IsList(servers)
    BY <1>5 DEF NtpFacts
  <2>2. f \in Surjection(1 .. Len(servers), NamesOf(servers))
    <3>1. NamesOf(servers) = {f[k] : k \in 1 .. Len(servers)}
      BY <1>4, <2>1 DEF IsList
    <3>2. f \in [1 .. Len(servers) -> NamesOf(servers)]
      BY <3>1
    <3> HIDE DEF f
    <3>3. QED
      BY <3>1, <3>2 DEF Surjection
  <2>3. IsFiniteSet(1 .. Len(servers))
    BY <2>1, FS_Interval DEF IsList
  <2>4. IsFiniteSet(NamesOf(servers))
    BY <2>2, <2>3, FS_Surjection
  <2>5. QED
    BY <2>4, FS_CardinalityType
<1>6. failing = {} <=> \A k \in DOMAIN servers : ~ NtpServerFails(check, servers[k], d)
  BY <1>4
<1> HIDE DEF failing, failed, ok, good
<1>7. CASE raises
  BY <1>1, <1>3, <1>7, UndecidedOutcome DEF good
<1>8. CASE ~ raises
  <2>1. Cardinality(NamesOf(servers)) \in Nat /\ check.minimum \in Int
    BY <1>5, <1>8 DEF NtpFacts
  <2>2. ~ few <=> Cardinality({servers[k] : k \in DOMAIN servers}) >= check.minimum
    BY <1>4, <2>1
  <2> HIDE DEF few, raises
  <2>3. CASE few
    BY <1>1, <1>3, <1>8, <2>2, <2>3, UndecidedOutcome DEF good
  <2>4. CASE ~ few
    <3>1. good <=> failed = {}
      BY <1>2, <1>3, <1>6, <1>8, <2>2, <2>4
    <3>2. NtpAuthenticationPolicy(check, servers, d) = Judged(failed, ok)
      BY <1>1, <1>8, <2>4
    <3>3. QED
      BY <3>1, <3>2, JudgedOutcome DEF good
  <2>5. QED
    BY <2>3, <2>4
<1> HIDE DEF raises
<1>9. QED
  BY <1>7, <1>8

--------------------------------------------------------------------------------
(* Banners.  What the scan finds from a line on, given what it finds later.    *)

Later(config, i) == {j \in i + 1 .. Len(config) : Ends(config[j])}
EndOf(config, i) == CHOOSE j \in Later(config, i) : \A k \in Later(config, i) : j <= k
Body(config, i, last) == (UNION {config[j].clauses : j \in i .. last - 1})
                           \cup (IF config[last].header THEN {} ELSE config[last].clauses)
From(config, f, i) ==
  IF i > Len(config) THEN {}
  ELSE IF ~ config[i].header THEN f[i + 1]
  ELSE IF config[i].ends THEN {config[i].clauses} \cup f[i + 1]
  ELSE IF Later(config, i) = {} THEN f[i + 1]
  ELSE {Body(config, i, EndOf(config, i))} \cup f[EndOf(config, i) + 1]

LEMMA FirstEnd ==
  ASSUME NEW config, IsList(config), NEW i \in 1 .. Len(config), Later(config, i) # {}
  PROVE  /\ EndOf(config, i) \in i + 1 .. Len(config) /\ Ends(config[EndOf(config, i)])
         /\ \A j \in i + 1 .. EndOf(config, i) - 1 : ~ Ends(config[j])
<1> DEFINE later == Later(config, i)
           e == EndOf(config, i)
<1>1. Len(config) \in Nat
  BY DEF IsList
<1>2. later \in SUBSET Nat /\ \A j : j \in later <=> j \in i + 1 .. Len(config) /\ Ends(config[j])
  BY <1>1 DEF Later
<1> HIDE DEF later
<1>3. \E j \in later : \A k \in later : j <= k
  BY <1>2, FirstOne DEF later
<1>4. e \in later /\ \A k \in later : e <= k
  BY <1>3 DEF EndOf, later
<1> HIDE DEF e
<1>5. ASSUME NEW j \in i + 1 .. e - 1
      PROVE  ~ Ends(config[j])
  <2>1. e \in i + 1 .. Len(config)
    BY <1>2, <1>4
  <2>2. j \in i + 1 .. Len(config) /\ ~ (e <= j)
    BY <1>1, <2>1
  <2>3. QED
    BY <1>2, <1>4, <2>2
<1>6. QED
  BY <1>2, <1>4, <1>5 DEF e

\* The scan of a line reads only what is found at later lines, ...
LEMMA ReadsLaterLines ==
  ASSUME NEW config, IsList(config), NEW i \in 1 .. Len(config) + 1, NEW f, NEW g,
         \A j \in i + 1 .. Len(config) + 1 : f[j] = g[j]
  PROVE  From(config, f, i) = From(config, g, i)
<1>1. Len(config) \in Nat
  BY DEF IsList
<1>2. CASE i > Len(config)
  BY <1>2 DEF From
<1>3. CASE ~ (i > Len(config))
  <2>1. i \in 1 .. Len(config) /\ f[i + 1] = g[i + 1]
    BY <1>1, <1>3
  <2>2. CASE Later(config, i) = {}
    BY <2>1, <2>2 DEF From
  <2>3. CASE Later(config, i) # {}
    <3>1. EndOf(config, i) \in i + 1 .. Len(config)
      BY <2>1, <2>3, FirstEnd
    <3>2. EndOf(config, i) + 1 \in i + 1 .. Len(config) + 1
      BY <1>1, <3>1
    <3>3. f[EndOf(config, i) + 1] = g[EndOf(config, i) + 1]
      BY <3>2
    <3>4. QED
      BY <2>1, <2>3, <3>3 DEF From
  <2>4. QED
    BY <2>2, <2>3
<1>4. QED
  BY <1>2, <1>3

\* ... so what it finds is defined, from the last line upwards, ...
LEMMA ScanIsDefined ==
  ASSUME NEW config, IsList(config)
  PROVE  \E f : f = [i \in 1 .. Len(config) + 1 |-> From(config, f, i)]
<1> DEFINE n == Len(config)
           Scans(f, m) == f = [i \in m .. n + 1 |-> From(config, f, i)]
           bad == {m \in 1 .. n + 1 : ~ \E f : Scans(f, m)}
<1>1. n \in Nat
  BY DEF IsList
<1> HIDE DEF n
<1>2. SUFFICES ASSUME bad # {}
               PROVE  FALSE
  <2>1. 1 \in 1 .. n + 1
    BY <1>1
  <2>2. 1 \notin bad
    BY <1>2
  <2>3. \E f : Scans(f, 1)
    BY <2>1, <2>2
  <2>4. QED
    BY <2>3 DEF n
<1>3. PICK m \in bad : \A j \in bad : j <= m
  <2>1. bad \in SUBSET (1 .. n + 1) /\ n + 1 \in Nat
    BY <1>1
  <2> HIDE DEF bad
  <2>2. QED
    BY <1>2, <2>1, FinalOne
<1>4. m \in 1 .. n + 1 /\ ~ \E f : Scans(f, m)
  OBVIOUS
<1>5. \E f : m + 1 \in 1 .. n + 1 => Scans(f, m + 1)
  <2>1. m + 1 \notin bad
    <3> HIDE DEF bad
    <3>1. QED
      BY <1>1, <1>3, <1>4
  <2>2. CASE m + 1 \in 1 .. n + 1
    BY <2>1, <2>2
  <2>3. CASE m + 1 \notin 1 .. n + 1
    BY <2>3
  <2>4. QED
    BY <2>2, <2>3
<1> HIDE DEF bad
<1>6. PICK f : m + 1 \in 1 .. n + 1 => Scans(f, m + 1)
  BY <1>5
<1> DEFINE g == [i \in m .. n + 1 |-> IF i = m THEN From(config, f, m) ELSE f[i]]
<1>7. \A j \in m + 1 .. n + 1 : g[j] = f[j] /\ f[j] = From(config, f, j)
  <2> SUFFICES ASSUME NEW j \in m + 1 .. n + 1
               PROVE  g[j] = f[j] /\ f[j] = From(config, f, j)
    OBVIOUS
  <2>1. j \in m .. n + 1 /\ j # m /\ m + 1 \in 1 .. n + 1
    BY <1>1, <1>4
  <2>2. f = [i \in m + 1 .. n + 1 |-> From(config, f, i)]
    BY <1>6, <2>1
  <2>3. [i \in m + 1 .. n + 1 |-> From(config, f, i)][j] = From(config, f, j)
    OBVIOUS
  <2>4. f[j] = From(config, f, j)
    BY <2>2, <2>3, Zenon
  <2>5. QED
    BY <2>1, <2>4
<1>8. ASSUME NEW i \in m .. n + 1
      PROVE  g[i] = From(config, g, i)
  <2>1. i \in 1 .. Len(config) + 1
    BY <1>1, <1>4 DEF n
  <2>2. \A j \in i + 1 .. Len(config) + 1 : f[j] = g[j]
    BY <1>1, <1>4, <1>7 DEF n
  <2>3. From(config, f, i) = From(config, g, i)
    <3> HIDE DEF g
    <3>1. QED
      BY <2>1, <2>2, ReadsLaterLines
  <2>4. CASE i = m
    BY <2>3, <2>4
  <2>5. CASE i # m
    <3>1. i \in m + 1 .. n + 1
      BY <1>1, <1>4, <2>5
    <3>2. QED
      BY <1>7, <2>3, <3>1
  <2>6. QED
    BY <2>4, <2>5
<1>9. Scans(g, m)
  <2>1. g = [i \in m .. n + 1 |-> g[i]]
    OBVIOUS
  <2> HIDE DEF g
  <2>2. [i \in m .. n + 1 |-> g[i]] = [i \in m .. n + 1 |-> From(config, g, i)]
    BY <1>8
  <2>3. QED
    BY <2>1, <2>2
<1>10. QED
  BY <1>4, <1>9

\* ... and the banners are what is found from the first line on.
LEMMA Scanning ==
  ASSUME NEW config, IsList(config)
  PROVE  \E f : /\ Banners(config) = f[1]
                /\ \A i \in 1 .. Len(config) + 1 : f[i] = From(config, f, i)
<1> DEFINE f == CHOOSE f : f = [i \in 1 .. Len(config) + 1 |-> From(config, f, i)]
<1>1. Banners(config) = f[1]
  BY Zenon DEF Banners, From, Later, EndOf, Body
<1>2. f = [i \in 1 .. Len(config) + 1 |-> From(config, f, i)]
  BY ScanIsDefined
<1> HIDE DEF f
<1>3. ASSUME NEW i \in 1 .. Len(config) + 1
      PROVE  f[i] = From(config, f, i)
  <2>1. [j \in 1 .. Len(config) + 1 |-> From(config, f, j)][i] = From(config, f, i)
    OBVIOUS
  <2>2. QED
    BY <1>2, <2>1, Zenon
<1>4. QED
  BY <1>1, <1>3

\* One more line adds its clauses to those of the lines before it.
LEMMA OneMoreLine ==
  ASSUME NEW config, NEW lines, NEW last
  PROVE  UNION {config[k].clauses : k \in lines \cup {last}}
           = (UNION {config[k].clauses : k \in lines}) \cup config[last].clauses
<1> DEFINE of(S) == UNION {config[k].clauses : k \in S}
<1>1. \A S : \A x : x \in of(S) <=> \E k \in S : x \in config[k].clauses
  BY Zenon
<1> HIDE DEF of
<1>2. \A x : x \in of(lines \cup {last}) <=> x \in of(lines) \/ x \in config[last].clauses
  BY <1>1, SMT
<1>3. of(lines \cup {last}) = of(lines) \cup config[last].clauses
  BY <1>2, SMT
<1>4. QED
  BY <1>3 DEF of

(* A banner of the reference: its lines, and its clauses. *)
IsBanner(config, i, j) ==
  /\ i \in DOMAIN config /\ j \in i .. Len(config)
  /\ config[i].header
  /\ config[j].ends \/ (i < j /\ config[j].header)
  /\ \A k \in i .. j - 1 : ~ config[k].ends
ClausesOf(config, i, j) == UNION {config[k].clauses : k \in {k \in i .. j : k = i \/ ~ config[k].header}}

LEMMA BannerIsCovered ==
  ASSUME NEW d
  PROVE  BannerCompliance(d) <=> \E i, j : IsBanner(d.config, i, j) /\ Clauses \subseteq ClausesOf(d.config, i, j)
BY Zenon DEF BannerCompliance, IsBanner, ClausesOf

\* A line that begins a banner without ending it, and a later end.
LEMMA BannerAtEnd ==
  ASSUME NEW d, BannerFacts(d), NEW i \in 1 .. Len(d.config), d.config[i].header, ~ d.config[i].ends,
         Later(d.config, i) # {}
  PROVE  LET last == EndOf(d.config, i)
         IN  IsBanner(d.config, i, last) /\ Body(d.config, i, last) = ClausesOf(d.config, i, last)
<1> DEFINE config == d.config
           last == EndOf(config, i)
<1>1. IsList(config) /\ Len(config) \in Nat /\ DOMAIN config = 1 .. Len(config)
  BY DEF BannerFacts, IsList
<1>2. /\ last \in i + 1 .. Len(config) /\ Ends(config[last])
      /\ \A j \in i + 1 .. last - 1 : ~ Ends(config[j])
  BY <1>1, FirstEnd
<1> HIDE DEF last
<1>3. \A j \in i + 1 .. last - 1 : ~ config[j].ends /\ ~ config[j].header
  BY <1>2 DEF Ends
<1>4. IsBanner(config, i, last)
  <2>1. \A k \in i .. last - 1 : ~ config[k].ends
    <3> SUFFICES ASSUME NEW k \in i .. last - 1
                 PROVE  ~ config[k].ends
      OBVIOUS
    <3>1. k = i \/ k \in i + 1 .. last - 1
      BY <1>1, <1>2
    <3>2. QED
      BY <1>3, <3>1
  <2>2. i < last /\ last \in i .. Len(config)
    BY <1>1, <1>2
  <2>3. QED
    BY <1>1, <1>2, <2>1, <2>2 DEF IsBanner, Ends
<1>5. Body(config, i, last) = ClausesOf(config, i, last)
  <2>1. {k \in i .. last : k = i \/ ~ config[k].header} =
           (i .. last - 1) \cup (IF config[last].header THEN {} ELSE {last})
    <3>1. \A k : k \in i .. last <=> k = i \/ k \in i + 1 .. last - 1 \/ k = last
      BY <1>1, <1>2
    <3>2. \A k : k \in i .. last - 1 <=> k = i \/ k \in i + 1 .. last - 1
      BY <1>1, <1>2
    <3>3. last # i
      BY <1>1, <1>2
    <3>4. QED
      BY <1>3, <3>1, <3>2, <3>3
  <2> DEFINE lines == i .. last - 1
  <2> HIDE DEF lines
  <2>2. CASE config[last].header
    <3>1. ClausesOf(config, i, last) = UNION {config[k].clauses : k \in lines}
      BY <2>1, <2>2 DEF ClausesOf, lines
    <3>2. Body(config, i, last) = (UNION {config[k].clauses : k \in lines}) \cup {}
      BY <2>2 DEF Body, lines
    <3>3. QED
      BY <3>1, <3>2
  <2>3. CASE ~ config[last].header
    <3>1. ClausesOf(config, i, last) = UNION {config[k].clauses : k \in lines \cup {last}}
      BY <2>1, <2>3 DEF ClausesOf, lines
    <3>2. Body(config, i, last) = (UNION {config[k].clauses : k \in lines}) \cup config[last].clauses
      BY <2>3 DEF Body, lines
    <3>3. QED
      BY <3>1, <3>2, OneMoreLine
  <2>4. QED
    BY <2>2, <2>3
<1>6. QED
  BY <1>4, <1>5 DEF last

LEMMA BannerOnALine ==
  ASSUME NEW d, BannerFacts(d), NEW i \in 1 .. Len(d.config), d.config[i].header, d.config[i].ends
  PROVE  IsBanner(d.config, i, i) /\ ClausesOf(d.config, i, i) = d.config[i].clauses
<1> DEFINE config == d.config
<1>1. Len(config) \in Nat /\ DOMAIN config = 1 .. Len(config)
  BY DEF BannerFacts, IsList
<1>2. IsBanner(config, i, i)
  BY <1>1 DEF IsBanner
<1>3. {k \in i .. i : k = i \/ ~ config[k].header} = {i}
  BY <1>1
<1>4. ClausesOf(config, i, i) = UNION {config[k].clauses : k \in {i}}
  BY <1>3 DEF ClausesOf
<1>5. QED
  BY <1>2, <1>4

\* Everything the scan finds is a banner.
LEMMA FoundAreBanners ==
  ASSUME NEW d, BannerFacts(d), NEW b \in Banners(d.config)
  PROVE  \E i, j : IsBanner(d.config, i, j) /\ b = ClausesOf(d.config, i, j)
<1> DEFINE config == d.config
           n == Len(config)
           Real(c) == \E i, j : IsBanner(config, i, j) /\ c = ClausesOf(config, i, j)
<1>1. IsList(config) /\ n \in Nat
  BY DEF BannerFacts, IsList
<1>2. PICK f : /\ Banners(config) = f[1]
               /\ \A i \in 1 .. n + 1 : f[i] = From(config, f, i)
  BY <1>1, Scanning
<1> DEFINE bad == {m \in 1 .. n + 1 : \E c \in f[m] : ~ Real(c)}
<1>3. bad = {}
  <2> SUFFICES ASSUME bad # {}
               PROVE  FALSE
    OBVIOUS
  <2>1. PICK m \in bad : \A j \in bad : j <= m
    <3>1. bad \in SUBSET (1 .. n + 1) /\ n + 1 \in Nat
      BY <1>1
    <3> HIDE DEF bad
    <3>2. QED
      BY <3>1, FinalOne
  <2>2. m \in 1 .. n + 1 /\ m \in Nat
    BY <1>1
  <2>3. PICK c \in f[m] : ~ Real(c)
    BY <2>1
  <2>4. ASSUME NEW j \in m + 1 .. n + 1
        PROVE  c \notin f[j]
    <3>1. j \in 1 .. n + 1 /\ ~ (j <= m)
      BY <1>1, <2>2
    <3>2. j \notin bad
      <4> HIDE DEF bad
      <4>1. QED
        BY <2>1, <3>1
    <3>3. QED
      BY <2>3, <3>1, <3>2
  <2> HIDE DEF bad, Real
  <2>5. c \in From(config, f, m)
    BY <1>2, <2>2, <2>3
  <2>6. m \in 1 .. n /\ c \notin f[m + 1]
    <3>1. CASE m = n + 1
      BY <1>1, <2>5, <3>1 DEF From
    <3>2. CASE m # n + 1
      <4>1. m \in 1 .. n /\ m + 1 \in m + 1 .. n + 1
        BY <1>1, <2>2, <3>2
      <4>2. QED
        BY <2>4, <4>1
    <3>3. QED
      BY <3>1, <3>2
  <2>7. ~ (m > n)
    BY <1>1, <2>6
  <2>8. CASE ~ config[m].header
    BY <2>5, <2>6, <2>7, <2>8 DEF From
  <2>9. CASE config[m].header /\ config[m].ends
    <3>1. c = config[m].clauses
      BY <2>5, <2>6, <2>7, <2>9 DEF From
    <3>2. QED
      BY <2>3, <2>6, <2>9, <3>1, BannerOnALine DEF Real
  <2>10. CASE config[m].header /\ ~ config[m].ends /\ Later(config, m) = {}
    BY <2>5, <2>6, <2>7, <2>10 DEF From
  <2>11. CASE config[m].header /\ ~ config[m].ends /\ Later(config, m) # {}
    <3>1. EndOf(config, m) \in m + 1 .. n
      BY <1>1, <2>6, <2>11, FirstEnd
    <3>2. EndOf(config, m) + 1 \in m + 1 .. n + 1
      BY <1>1, <2>6, <3>1
    <3>3. c = Body(config, m, EndOf(config, m))
      BY <2>4, <2>5, <2>7, <2>11, <3>2 DEF From
    <3>4. QED
      BY <2>3, <2>6, <2>11, <3>3, BannerAtEnd DEF Real
  <2>12. QED
    BY <2>8, <2>9, <2>10, <2>11
<1>4. 1 \in 1 .. n + 1 /\ 1 \notin bad
  BY <1>1, <1>3
<1>5. Real(b)
  BY <1>2, <1>4
<1>6. QED
  BY <1>5

\* Unless one begins inside another, the scan finds every banner.
LEMMA BannersAreFound ==
  ASSUME NEW d, BannerFacts(d), ~ BannersNested(d), NEW i, NEW j, IsBanner(d.config, i, j)
  PROVE  ClausesOf(d.config, i, j) \in Banners(d.config)
<1> DEFINE config == d.config
           n == Len(config)
           c == ClausesOf(config, i, j)
<1>1. IsList(config) /\ n \in Nat /\ DOMAIN config = 1 .. n
  BY DEF BannerFacts, IsList
<1>2. PICK f : /\ Banners(config) = f[1]
               /\ \A k \in 1 .. n + 1 : f[k] = From(config, f, k)
  BY <1>1, Scanning
<1>3. /\ i \in 1 .. n /\ j \in i .. n /\ config[i].header
      /\ config[j].ends \/ (i < j /\ config[j].header)
      /\ \A k \in i .. j - 1 : ~ config[k].ends
  BY <1>1 DEF IsBanner
<1>4. ASSUME NEW k \in 1 .. n, NEW l \in 1 .. n, k < l, config[k].header, config[l].header
      PROVE  \E e \in k .. l - 1 : config[e].ends
  BY <1>1, <1>4 DEF BannersNested
<1> HIDE DEF c
<1>5. c \in From(config, f, i)
  <2>1. ~ (i > n)
    BY <1>1, <1>3
  <2>2. CASE config[i].ends
    <3>1. i = j
      <4>1. CASE i < j
        <5>1. i \in i .. j - 1
          BY <1>1, <1>3, <4>1
        <5>2. QED
          BY <1>3, <2>2, <5>1
      <4>2. QED
        BY <1>1, <1>3, <4>1
    <3>2. c = config[i].clauses
      BY <1>3, <2>2, <3>1, BannerOnALine DEF c
    <3>3. QED
      BY <1>3, <2>1, <2>2, <3>2 DEF From
  <2>3. CASE ~ config[i].ends
    <3>1. i < j
      BY <1>1, <1>3, <2>3
    <3>2. j \in i + 1 .. n /\ Ends(config[j])
      BY <1>1, <1>3, <3>1 DEF Ends
    <3>3. Later(config, i) # {}
      BY <3>2 DEF Later
    <3> DEFINE e == EndOf(config, i)
    <3>4. /\ e \in i + 1 .. n /\ Ends(config[e])
          /\ \A k \in i + 1 .. e - 1 : ~ Ends(config[k])
      BY <1>1, <1>3, <3>3, FirstEnd
    <3> HIDE DEF e
    <3>5. ~ (j < e)
      <4> SUFFICES ASSUME j < e
                   PROVE  FALSE
        OBVIOUS
      <4>1. j \in i + 1 .. e - 1
        BY <1>1, <3>2, <3>4
      <4>2. QED
        BY <3>2, <3>4, <4>1
    <3>6. ~ (e < j)
      <4> SUFFICES ASSUME e < j
                   PROVE  FALSE
        OBVIOUS
      <4>1. e \in i .. j - 1 /\ e \in 1 .. n /\ i < e
        BY <1>1, <1>3, <3>4
      <4>2. config[e].header
        BY <1>3, <3>4, <4>1 DEF Ends
      <4>3. PICK k \in i .. e - 1 : config[k].ends
        BY <1>3, <1>4, <4>1, <4>2
      <4>4. k \in i .. j - 1
        BY <1>1, <1>3, <4>1
      <4>5. QED
        BY <1>3, <4>3, <4>4
    <3>7. e = j
      BY <1>1, <1>3, <3>4, <3>5, <3>6
    <3>8. c = Body(config, i, e)
      BY <1>3, <2>3, <3>3, <3>7, BannerAtEnd DEF c, e
    <3>9. From(config, f, i) = {Body(config, i, e)} \cup f[e + 1]
      BY <1>3, <2>1, <2>3, <3>3 DEF From, e
    <3>10. QED
      BY <3>8, <3>9
  <2>4. QED
    BY <2>2, <2>3
<1> DEFINE bad == {m \in 1 .. i : c \notin f[m]}
<1>6. bad = {}
  <2> SUFFICES ASSUME bad # {}
               PROVE  FALSE
    OBVIOUS
  <2>1. PICK m \in bad : \A k \in bad : k <= m
    <3>1. bad \in SUBSET (1 .. i) /\ i \in Nat
      BY <1>1, <1>3
    <3> HIDE DEF bad
    <3>2. QED
      BY <3>1, FinalOne
  <2>2. m \in 1 .. i /\ m \in 1 .. n /\ m \in 1 .. n + 1 /\ c \notin f[m]
    BY <1>1, <1>3
  <2>3. m < i
    <3>1. m # i
      BY <1>2, <1>5, <2>2
    <3>2. QED
      BY <1>1, <1>3, <2>2, <3>1
  <2>4. ASSUME NEW k \in m + 1 .. i
        PROVE  c \in f[k]
    <3>1. k \in 1 .. i /\ ~ (k <= m)
      BY <1>1, <1>3, <2>2
    <3>2. k \notin bad
      <4> HIDE DEF bad
      <4>1. QED
        BY <2>1, <3>1
    <3>3. QED
      BY <3>1, <3>2
  <2> HIDE DEF bad
  <2>5. c \in f[m + 1]
    <3>1. m + 1 \in m + 1 .. i
      BY <1>1, <1>3, <2>2, <2>3
    <3>2. QED
      BY <2>4, <3>1
  <2>6. f[m] = From(config, f, m) /\ ~ (m > n)
    BY <1>1, <1>2, <2>2
  <2>7. CASE ~ config[m].header \/ config[m].ends
    BY <2>2, <2>5, <2>6, <2>7 DEF From
  <2>8. CASE config[m].header /\ ~ config[m].ends
    <3>1. i \in Later(config, m)
      <4>1. i \in m + 1 .. n
        BY <1>1, <1>3, <2>2, <2>3
      <4>2. QED
        BY <1>3, <4>1 DEF Later, Ends
    <3> DEFINE e == EndOf(config, m)
    <3>2. /\ e \in m + 1 .. n
          /\ \A k \in m + 1 .. e - 1 : ~ Ends(config[k])
      BY <1>1, <2>2, <3>1, FirstEnd
    <3>3. From(config, f, m) = {Body(config, m, e)} \cup f[e + 1]
      BY <2>6, <2>8, <3>1 DEF From, e
    <3> HIDE DEF e
    <3>4. PICK k \in m .. i - 1 : config[k].ends
      BY <1>3, <1>4, <2>2, <2>3, <2>8
    <3>5. k \in m + 1 .. i - 1
      <4>1. k # m
        BY <2>8, <3>4
      <4>2. QED
        BY <1>1, <1>3, <2>2, <4>1
    <3>6. ~ (k < e)
      <4> SUFFICES ASSUME k < e
                   PROVE  FALSE
        OBVIOUS
      <4>1. k \in m + 1 .. e - 1
        BY <1>1, <1>3, <2>2, <3>2, <3>5
      <4>2. QED
        BY <3>2, <3>4, <4>1 DEF Ends
    <3>7. e + 1 \in m + 1 .. i
      BY <1>1, <1>3, <2>2, <3>2, <3>5, <3>6
    <3>8. QED
      BY <2>2, <2>4, <2>6, <3>3, <3>7
  <2>9. QED
    BY <2>7, <2>8
<1>7. 1 \in 1 .. i /\ 1 \notin bad
  BY <1>1, <1>3, <1>6
<1>8. QED
  BY <1>2, <1>7 DEF c

\* The banner that misses fewest clauses misses none exactly when one does.
LEMMA BestBanner ==
  ASSUME IsFiniteSet(Clauses), NEW banners, banners # {}
  PROVE  LET missing(b) == Cardinality(Clauses \ b)
             best == CHOOSE b \in banners : \A c \in banners : missing(b) <= missing(c)
         IN  missing(best) > 0 <=> ~ \E b \in banners : Clauses \subseteq b
<1> DEFINE missing(b) == Cardinality(Clauses \ b)
           counts == {missing(b) : b \in banners}
           best == CHOOSE b \in banners : \A c \in banners : missing(b) <= missing(c)
<1>1. \A b : missing(b) \in Nat /\ (missing(b) = 0 <=> Clauses \subseteq b)
  <2> SUFFICES ASSUME NEW b
               PROVE  missing(b) \in Nat /\ (missing(b) = 0 <=> Clauses \subseteq b)
    OBVIOUS
  <2>1. IsFiniteSet(Clauses \ b)
    BY FS_Difference
  <2>2. Cardinality(Clauses \ b) \in Nat /\ (Cardinality(Clauses \ b) = 0 <=> Clauses \ b = {})
    BY <2>1, FS_CardinalityType, FS_EmptySet
  <2>3. QED
    BY <2>2
<1> HIDE DEF missing
<1>2. counts \in SUBSET Nat /\ counts # {}
  BY <1>1
<1>3. PICK k \in counts : \A j \in counts : k <= j
  <2> HIDE DEF counts
  <2>1. QED
    BY <1>2, FirstOne
<1>4. \E b \in banners : \A c \in banners : missing(b) <= missing(c)
  <2>1. PICK b \in banners : k = missing(b)
    OBVIOUS
  <2>2. \A c \in banners : missing(c) \in counts
    OBVIOUS
  <2> HIDE DEF counts
  <2>3. QED
    BY <1>3, <2>1, <2>2
<1>5. best \in banners /\ \A c \in banners : missing(best) <= missing(c)
  BY <1>4
<1> HIDE DEF best
<1>6. missing(best) > 0 <=> ~ \E b \in banners : Clauses \subseteq b
  BY <1>1, <1>5
<1>7. QED
  BY <1>6 DEF missing, best

LEMMA BannerDecides ==
  ASSUME IsFiniteSet(Clauses), NEW check, NEW d, BannerFacts(d)
  PROVE  \E good : /\ Decides(check, DodBannerPolicy(d), good)
                   /\ good => BannerCompliance(d)
                   /\ BannerCompliance(d) => good \/ BannersNested(d)
<1> DEFINE banners == Banners(d.config)
           good == \E b \in banners : Clauses \subseteq b
           missing(b) == Cardinality(Clauses \ b)
           best == CHOOSE b \in banners : \A c \in banners : missing(b) <= missing(c)
           object == {<<"banner", "login">>}
<1>1. DodBannerPolicy(d) =
        IF banners = {} THEN Judged(object, {})
        ELSE IF missing(best) > 0 THEN Judged(object, {}) ELSE Judged({}, object)
  BY Zenon DEF DodBannerPolicy
<1> HIDE DEF banners
<1>2. banners # {} => (missing(best) > 0 <=> ~ good)
  BY BestBanner
<1>3. object # {}
  OBVIOUS
<1>4. banners = {} => ~ good
  OBVIOUS
<1>5. good => BannerCompliance(d)
  BY FoundAreBanners, BannerIsCovered DEF banners
<1>6. BannerCompliance(d) => good \/ BannersNested(d)
  BY BannersAreFound, BannerIsCovered DEF banners
<1> HIDE DEF missing, best, object, good
<1>7. Decides(check, DodBannerPolicy(d), good)
  <2>1. CASE good
    BY <1>1, <1>2, <1>4, <2>1, JudgedOutcome
  <2>2. CASE ~ good
    BY <1>1, <1>2, <1>3, <2>2, JudgedOutcome
  <2>3. QED
    BY <2>1, <2>2
<1>8. QED
  BY <1>5, <1>6, <1>7

--------------------------------------------------------------------------------
(* The verdict of a check without exception rules is the status of the outcome *)
(* of its evaluator, and the outcome decides what the reference says.          *)

LEMMA PlainVerdict ==
  ASSUME NEW check, NEW collected, NEW outcome, NEW device
  PROVE  Result(check, collected, outcome, <<>>, device).status = StatusOf(check, collected, outcome)
<1> DEFINE lost == ~ check.commands \subseteq collected \/ outcome.raised
           objects == IF lost THEN {} ELSE outcome.failed \cup outcome.ok
           status == StatusOf(check, collected, outcome)
<1>1. Result(check, collected, outcome, <<>>, device).status = ApplyExceptions(status, <<>>, device, check, objects)
  BY DEF Result
<1> HIDE DEF objects, status
<1>2. {k \in DOMAIN <<>> : ExceptionApplies(<<>>[k], device, check, objects)} = {}
  OBVIOUS
<1>3. ApplyExceptions(status, <<>>, device, check, objects) = status
  BY <1>2 DEF ApplyExceptions
<1>4. QED
  BY <1>1, <1>3 DEF status

LEMMA EvaluatorDecides ==
  ASSUME JudgementAssumption, NEW c, FactsOf(c), c.check.type \in Referenced
  PROVE  \E good : /\ Decides(c.check, EvaluateByType(c.check, c.profile, c.device), good)
                   /\ good => Complies(c)
                   /\ Complies(c) => \/ good
                                     \/ c.check.type = "dod_banner_policy" /\ BannersNested(c.device)
<1> DEFINE check == c.check
           d     == c.device
           type  == check.type
           outcome == EvaluateByType(check, c.profile, d)
           Exact   == Decides(check, outcome, Complies(c))
<1>1. CASE type = "command_pattern_policy"
  <2>1. outcome = CommandPatternPolicy(check, c.profile, d.outputs) /\ (Complies(c) <=> PatternCompliance(check, c.profile, d))
    BY <1>1 DEF EvaluateByType, Complies
  <2>2. Exact
    BY <2>1, PatternDecides DEF Decides
  <2>3. QED
    BY <2>2
<1>2. CASE type = "interface_config_policy"
  <2>1. outcome = InterfaceConfigPolicy(check, d) /\ (Complies(c) <=> InterfaceCompliance(check, d))
    BY <1>2 DEF EvaluateByType, Complies
  <2>2. Exact
    BY <2>1, InterfaceDecides DEF Decides
  <2>3. QED
    BY <2>2
<1>3. CASE type = "dod_banner_policy"
  <2>1. outcome = DodBannerPolicy(d) /\ (Complies(c) <=> BannerCompliance(d))
    BY <1>3 DEF EvaluateByType, Complies
  <2>2. BannerFacts(d) /\ IsFiniteSet(Clauses)
    BY <1>3 DEF FactsOf, JudgementAssumption
  <2>3. QED
    BY <1>3, <2>1, <2>2, BannerDecides
<1>4. CASE type = "vty_session_limit_policy"
  <2>1. outcome = VtySessionLimitPolicy(c.profile.maximum, d.blocks) /\ (Complies(c) <=> VtyCompliance(c.profile.maximum, d.blocks))
    BY <1>4 DEF EvaluateByType, Complies
  <2>2. VtyFacts(c.profile.maximum, d.blocks)
    BY <1>4 DEF FactsOf
  <2>3. Exact
    BY <2>1, <2>2, VtyDecides DEF Decides
  <2>4. QED
    BY <2>3
<1>5. CASE type = "root_guard_neighbor_policy"
  <2>1. outcome = RootGuardNeighborPolicy(check, c.profile.upstream, d) /\ (Complies(c) <=> RootGuardCompliance(check, c.profile.upstream, d))
    BY <1>5 DEF EvaluateByType, Complies
  <2>2. None \notin DOMAIN d.ports
    BY <1>5 DEF FactsOf
  <2>3. Exact
    BY <2>1, <2>2, RootGuardDecides DEF Decides
  <2>4. QED
    BY <2>3
<1>6. CASE type = "management_access_policy"
  <2>1. outcome = ManagementAccessPolicy(check, c.profile, d) /\ (Complies(c) <=> ManagementCompliance(c.profile, d))
    BY <1>6 DEF EvaluateByType, Complies
  <2>2. ManagementFacts(d)
    BY <1>6 DEF FactsOf
  <2>3. Exact
    BY <2>1, <2>2, ManagementDecides DEF Decides
  <2>4. QED
    BY <2>3
<1>7. CASE type = "ntp_authentication_policy"
  <2>1. outcome = NtpAuthenticationPolicy(check, c.profile.servers, d) /\ (Complies(c) <=> NtpCompliance(check, c.profile.servers, d))
    BY <1>7 DEF EvaluateByType, Complies
  <2>2. NtpFacts(check, c.profile.servers, d)
    BY <1>7 DEF FactsOf
  <2>3. Exact
    BY <2>1, <2>2, NtpDecides DEF Decides
  <2>4. QED
    BY <2>3
<1>8. type \in Referenced
  OBVIOUS
<1> HIDE DEF outcome
<1>9. QED
  BY <1>1, <1>2, <1>3, <1>4, <1>5, <1>6, <1>7, <1>8 DEF Referenced, outcome

LEMMA VerdictMeans ==
  ASSUME JudgementAssumption, JudgeInv
  PROVE  VerdictMeansCompliance
<1> DEFINE outcome == EvaluateByType(case.check, case.profile, case.device)
<1> SUFFICES ASSUME Answered("check"), case.rules = <<>>, case.check.type \in Referenced, Tells(case.check)
             PROVE  /\ verdict.status = case.check.result.pass => Complies(case)
                    /\ Complies(case) /\ case.check.commands \subseteq case.device.collected =>
                         \/ verdict.status = case.check.result.pass
                         \/ case.check.type = "dod_banner_policy" /\ BannersNested(case.device)
  BY DEF VerdictMeansCompliance
<1>1. FactsOf(case) /\ verdict = Evaluate(case)
  BY DEF JudgeInv, IsCase, Answered
<1>2. PICK good : /\ Decides(case.check, outcome, good)
                  /\ good => Complies(case)
                  /\ Complies(case) => good \/ (case.check.type = "dod_banner_policy" /\ BannersNested(case.device))
  BY <1>1, EvaluatorDecides
<1>3. verdict.status = StatusOf(case.check, case.device.collected, outcome)
  BY <1>1, PlainVerdict DEF Evaluate
<1>4. /\ verdict.status = case.check.result.pass => good
      /\ good /\ case.check.commands \subseteq case.device.collected => verdict.status = case.check.result.pass
  BY <1>2, <1>3, VerdictOfOutcome
<1> HIDE DEF outcome
<1>5. QED
  BY <1>2, <1>4

--------------------------------------------------------------------------------
(* The invariant, and the theorems                                             *)

\* A case is judged once, by the function of its kind, and stays what it is.
LEMMA JudgeStep ==
  ASSUME JudgeInv, [JudgeNext]_caseVars
  PROVE  JudgeInv'
<1> USE DEF JudgeInv
<1>1. case' = case
  BY DEF JudgeNext, JudgeCheck, CompareReleases, CompareTwoRuns, PlanSession, CheckReadiness,
         FillChecklists, Judge, caseVars
<1>2. IsCase(case)'
  BY <1>1
<1>3. Evaluate(case)' = Evaluate(case) /\ ChecklistsOf(case)' = ChecklistsOf(case)
  BY <1>1
<1>4. CASE JudgeCheck \/ FillChecklists \/ UNCHANGED caseVars
  BY <1>1, <1>2, <1>3, <1>4 DEF JudgeCheck, FillChecklists, Judge, caseVars, Answered
<1>5. CASE CompareReleases \/ CompareTwoRuns \/ PlanSession \/ CheckReadiness
  <2>1. case.kind # "check" /\ case.kind # "checklist"
    BY <1>5 DEF CompareReleases, CompareTwoRuns, PlanSession, CheckReadiness, Judge
  <2>2. QED
    BY <1>1, <1>2, <2>1 DEF Answered
<1>6. QED
  BY <1>4, <1>5 DEF JudgeNext

(* Every reachable state satisfies the inductive invariant: an answered check  *)
(* is answered by evaluate, check_engine.py:51-93, and a run that filled its   *)
(* checklists filled those of its results, main_window.py:2337-2365.           *)
THEOREM JudgeInvariance == JudgeSpec => []JudgeInv
<1>1. JudgeInit => JudgeInv
  BY DEF JudgeInit, JudgeInv, Answered
<1>2. JudgeInv /\ [JudgeNext]_caseVars => JudgeInv'
  BY JudgeStep
<1>3. QED
  BY <1>1, <1>2, PTL DEF JudgeSpec

(* For every check, profile, device and list of rules, whatever the evaluator: *)
(* a forced status is forced by a rule for this device, vulnerability and an   *)
(* object of the result.  check_engine.py:51-93, exceptions.py:40-66.          *)
THEOREM ExceptionsStayInScope == JudgeSpec => []ExceptionsAreScoped
<1>1. JudgeInv => ExceptionsAreScoped
  BY ExceptionsInScope
<1>2. QED
  BY <1>1, JudgeInvariance, PTL

(* For any two runs of any length: a trend is claimed for the same rule judged *)
(* twice, and the counts of a comparison reconcile.  run_comparison.py:47-127. *)
THEOREM TrendsStayHonest == JudgeSpec => []TrendsAreHonest
<1>1. JudgeInv => TrendsAreHonest
  BY RunsCompareHonestly DEF JudgeInv, IsCase, TrendsAreHonest, Answered
<1>2. QED
  BY <1>1, JudgeInvariance, PTL

(* For every check of the seven types with a reference definition, and every   *)
(* configuration, neighbour table, profile and mapping: the status says that   *)
(* the device complies only if it does, and says so if it does and the outputs *)
(* were all collected.  check_engine.py:51-93 and the seven evaluators.        *)
THEOREM VerdictsMeanCompliance ==
  ASSUME JudgementAssumption
  PROVE  JudgeSpec => []VerdictMeansCompliance
<1>1. JudgeInv => VerdictMeansCompliance
  BY VerdictMeans
<1>2. QED
  BY <1>1, JudgeInvariance, PTL
================================================================================
