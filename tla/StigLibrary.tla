------------------------------- MODULE StigLibrary -------------------------------
(* STIG packages from their download to the review of the checks against them  *)
(* (source_manager.py, stig_repository.py, lifecycle_service.py,               *)
(* check_generator.py and their callers in main_window.py).  The window does   *)
(* one job at a time; any step may raise, and the process may end between two. *)
EXTENDS Absence, Integers, FiniteSets, SequencesExt

CONSTANTS
    Packages,      \* [family, rules: set of [vuln, rule, print]]
    Requests,      \* the sequences of packages one button imports
    Libraries,     \* what an operator may save: sets of [vuln, rule, automated, seen]
    MaxPresses, MaxFaults  \* bounds on buttons; on raising steps and process ends

VARIABLES
    cached,        \* metadata.json of every family: None, Torn or a package
    releases,      \* the benchmark table, oldest first
    mappings,      \* check_mappings: [check, file, in, vuln, reviewed]
    differences,   \* the saved difference files: release -> its predecessor
    files,         \* the two check libraries: None, Torn or a set of checks
    up, shown, loaded,  \* the window: running, its metadata, its checks
    job, queue, done,  \* the step of the button pressed, the packages it has left and has stored
    reported,      \* packages the operator was told are imported
    decisions,     \* history: the reviews an operator recorded
    kept,          \* history: identifiers the operator keeps a check for
    presses, faults
libraryVars == <<cached, releases, mappings, differences, files, up, shown, loaded,
                 job, queue, done, reported, decisions, kept, presses, faults>>

FamiliesOf == {p.family : p \in Packages}
Main       == "main"
Generated  == "generated"
Vulns(set) == {c.vuln : c \in set}

\* A rule is known in its release by its vulnerability identifier, as its row in
\* the database is by a number; a text has a fingerprint.  Every button imports
\* something, and a package is told apart from no package.
LibraryAssumption ==
  /\ \A p \in Packages : /\ IsFiniteSet(p.rules)
                         /\ \A r \in p.rules : r.print # None
                         /\ \A q, r \in p.rules : q.vuln = r.vuln => q = r
  /\ Requests \subseteq Seq(Packages) \ {<<>>}
  /\ Torn \notin Packages /\ None \notin Packages /\ None # Torn

LibraryInit ==
  /\ cached = [f \in FamiliesOf |-> None] /\ releases = <<>> /\ mappings = {} /\ differences = <<>>
  /\ \E l \in Libraries : files = [f \in {Main, Generated} |-> IF f = Main THEN l ELSE None]
  /\ up = TRUE /\ shown = {} /\ loaded = files[Main]
  /\ job = "none" /\ queue = <<>> /\ done = {} /\ reported = {} /\ decisions = {} /\ kept = Vulns(files[Main]) /\ presses = 0 /\ faults = 0

Press == /\ up /\ job = "none"
         /\ presses < MaxPresses /\ presses' = presses + 1
Windows   == <<up, shown, loaded>>
Tasks     == <<job, queue, done>>
Stored    == <<releases, mappings, differences>>
Histories == <<reported, decisions, kept>>

--------------------------------------------------------------------------------
(* reload_from_disk: a library that does not load, or a repeated vulnerability *)
(* identifier, leaves the checks that were loaded.                             *)
Present(fs)  == {f \in DOMAIN fs : fs[f] # None}
Readable(fs) == \A f \in DOMAIN fs : fs[f] # Torn
AllChecks(fs) == UNION {{[check |-> c, file |-> f] : c \in fs[f]} : f \in Present(fs)}
Reloaded(fs, held) ==
  IF Readable(fs) /\ \A a, b \in AllChecks(fs) : a.check.vuln = b.check.vuln => a = b
  THEN {a.check : a \in AllChecks(fs)} ELSE held

(* An import: the package is fetched and extracted, its metadata written in    *)
(* place, the release stored and compared with its predecessor, and what the   *)
(* window shows read again.                                                    *)
RequestImport ==
  /\ Press /\ queue' \in Requests /\ job' = "fetch"
  /\ UNCHANGED <<cached, Stored, files, Windows, done, Histories, faults>>

FetchSource ==
  /\ job = "fetch" /\ job' = "metadata"
  /\ cached' = [cached EXCEPT ![Head(queue).family] = Torn]    \* write_text opens the file
  /\ UNCHANGED <<Stored, files, Windows, queue, done, Histories, presses, faults>>

WriteMetadata ==
  /\ job = "metadata" /\ job' = "store"
  /\ cached' = [cached EXCEPT ![Head(queue).family] = Head(queue)]
  /\ UNCHANGED <<Stored, files, Windows, queue, done, Histories, presses, faults>>

\* a release that replaces the one of its family, instead of joining it
AddAgain ==
  /\ job = "store" /\ job' = "compare"
  /\ releases' = SelectSeq(releases, LAMBDA r : r.family # Head(queue).family) \o <<Head(queue)>>
  /\ UNCHANGED <<cached, mappings, differences, files, Windows, queue, done, Histories, presses, faults>>

AddBenchmark ==
  /\ job = "store" /\ job' = "compare"
  /\ releases' = IF Head(queue) \in ToSet(releases) THEN releases ELSE Append(releases, Head(queue))
  /\ UNCHANGED <<cached, mappings, differences, files, Windows, queue, done, Histories, presses, faults>>

Position(p)   == CHOOSE k \in DOMAIN releases : releases[k] = p
Predecessor(p) ==
  LET earlier == {k \in DOMAIN releases : releases[k].family = p.family /\ k < Position(p)}
  IN  IF earlier = {} THEN None ELSE releases[CHOOSE k \in earlier : \A j \in earlier : j <= k]

SaveDifference ==
  /\ job = "compare" /\ Readable(files)
  /\ LET p == Head(queue)
     IN  differences' = [q \in DOMAIN differences \cup {p} |-> IF q = p THEN Predecessor(p) ELSE differences[q]]
  /\ queue' = Tail(queue) /\ done' = done \cup {Head(queue)}
  /\ job' = IF Tail(queue) = <<>> THEN "refresh" ELSE "fetch"
  /\ UNCHANGED <<cached, releases, mappings, files, Windows, Histories, presses, faults>>

(* refresh_stig_metadata raises when the metadata of any family is cut off.    *)
Cached    == {cached[f] : f \in FamiliesOf} \ {None}
ReportImport ==
  /\ job = "refresh" /\ Torn \notin Cached
  /\ shown' = Cached /\ job' = "none" /\ reported' = reported \cup done /\ done' = {}
  /\ UNCHANGED <<cached, Stored, files, up, loaded, queue, decisions, kept, presses, faults>>

--------------------------------------------------------------------------------
(* sync_check_mappings: every check with exactly one rule in the release gets  *)
(* a mapping of its own, with the review its YAML records.                     *)
CheckMatchesRule(check, rule) ==
  check.vuln = rule.vuln \/ (check.rule # None /\ check.rule = rule.rule)
Unmapped(a, release) ==
  {r \in release.rules :
     /\ {q \in release.rules : CheckMatchesRule(a.check, q)} = {r}
     /\ ~ \E m \in mappings : m.check = a.check.vuln /\ m.file = a.file /\ m.in = release /\ m.vuln = r.vuln}
Synchronized(release) ==
  mappings \cup
    UNION {{[check |-> a.check.vuln, file |-> a.file, in |-> release, vuln |-> r.vuln, reviewed |-> a.check.seen] :
              r \in Unmapped(a, release)} : a \in AllChecks(files)}

(* coverage: a rule with one automated check is current when some mapping of   *)
(* the rule records a review of the text it has now.                           *)
MatchesOf(rule) == {a \in AllChecks(files) : CheckMatchesRule(a.check, rule)}
Automated(release) ==
  {r \in release.rules : Cardinality(MatchesOf(r)) = 1 /\ \A a \in MatchesOf(r) : a.check.automated}
ReviewedOnce(known, release, rule) ==
  \E m \in known : m.vuln = rule.vuln /\ m.reviewed # None
ReviewedCurrent(known, release, rule) ==
  \E m \in known : m.in = release /\ m.vuln = rule.vuln /\ m.reviewed = rule.print
StaleRules(known, release) ==
  {r \in Automated(release) : ~ ReviewedCurrent(known, release, r)}
    \cup {r \in release.rules : Cardinality(MatchesOf(r)) > 1}
CurrentReviewed(known, release) ==
  LET n == Cardinality(Automated(release)) - Cardinality(StaleRules(known, release))
  IN  IF n < 0 THEN 0 ELSE n

ShowCoverage ==
  /\ Press /\ Readable(files)
  /\ \E release \in ToSet(releases) : mappings' = Synchronized(release)
  /\ UNCHANGED <<cached, releases, differences, files, Windows, Tasks, Histories, faults>>

MarkReviewed ==
  /\ Press /\ Readable(files)
  /\ \E release \in ToSet(releases) :
       LET known == Synchronized(release)
       IN  \E r \in release.rules :
             LET its == {m \in known : m.check = r.vuln /\ m.in = release /\ m.vuln = r.vuln}
             IN  /\ IF Cardinality(its) = 1
                    THEN /\ mappings' = (known \ its) \cup {[m EXCEPT !.reviewed = r.print] : m \in its}
                         /\ decisions' = decisions \cup {<<release, r.vuln, r.print>>}
                    ELSE mappings' = known /\ UNCHANGED decisions
  /\ UNCHANGED <<cached, releases, differences, files, Windows, Tasks, reported, kept, faults>>

--------------------------------------------------------------------------------
(* A starter for every rule whose vulnerability identifier no loaded check     *)
(* has among its identifiers.                                                  *)
ExistingKeys == {c.vuln : c \in loaded} \cup ({c.rule : c \in loaded} \ {None})
Starters(rules) ==
  {[vuln |-> v, rule |-> (CHOOSE r \in rules : r.vuln = v).rule, automated |-> FALSE, seen |-> None] :
     v \in {r.vuln : r \in rules} \ ExistingKeys}

Replaces(fs) == files' = fs /\ loaded' = Reloaded(fs, loaded)
Keeps(fs)    == UNION {Vulns(fs[f]) : f \in Present(fs)}

(* generate_missing_starter_checks never writes over a file. *)
GenerateMissing ==
  /\ Press /\ files[Generated] = None
  /\ \E release \in ToSet(releases) : Replaces([files EXCEPT ![Generated] = Starters(release.rules)])
  /\ kept' = Keeps(files')
  /\ UNCHANGED <<cached, Stored, up, shown, Tasks, reported, decisions, faults>>

(* Build Starter Checks writes the file in place, whatever it held, from the   *)
(* rules of the metadata shown.                                                *)
BuildStarters ==
  /\ Press /\ Torn \notin Cached /\ Cached # {}
  /\ shown' = Cached /\ job' = "starters"
  /\ files' = [files EXCEPT ![Generated] = Torn]
  /\ UNCHANGED <<cached, Stored, up, loaded, queue, done, Histories, faults>>

WriteStarters ==
  /\ job = "starters" /\ job' = "none"
  /\ Replaces([files EXCEPT ![Generated] = Starters(UNION {p.rules : p \in shown})])
  /\ UNCHANGED <<cached, Stored, up, shown, queue, done, Histories, presses, faults>>

(* save_check_yaml replaces a library with what the operator wrote.            *)
SaveChecks ==
  /\ Press
  /\ \E f \in Present(files), l \in Libraries : Replaces([files EXCEPT ![f] = l])
  /\ Readable(files') /\ kept' = Keeps(files')
  /\ UNCHANGED <<cached, Stored, up, shown, Tasks, reported, decisions, faults>>

--------------------------------------------------------------------------------
(* A step raises and its handler shows the error; what was written stays.      *)
StepRaises ==
  /\ job # "none" /\ job' = "none" /\ queue' = <<>> /\ done' = {}
  /\ \/ faults < MaxFaults /\ faults' = faults + 1
     \/ /\ UNCHANGED faults
        /\ \/ job = "compare" /\ ~ Readable(files)
           \/ job = "refresh" /\ Torn \in Cached
  /\ UNCHANGED <<cached, Stored, files, Windows, Histories, presses>>

WindowEnds ==
  /\ up /\ faults < MaxFaults /\ faults' = faults + 1
  /\ up' = FALSE /\ shown' = {} /\ loaded' = {} /\ job' = "none" /\ queue' = <<>> /\ done' = {}
  /\ UNCHANGED <<cached, Stored, files, Histories, presses>>

(* The window reads the libraries, then the metadata, before it is shown: with *)
(* metadata cut off it does not open.                                          *)
OpenWindow ==
  /\ ~ up /\ Torn \notin Cached
  /\ up' = TRUE /\ shown' = Cached /\ loaded' = Reloaded(files, {})
  /\ UNCHANGED <<cached, Stored, files, Tasks, Histories, presses, faults>>

LibraryNext ==
  \/ RequestImport \/ FetchSource \/ WriteMetadata \/ AddBenchmark \/ SaveDifference \/ ReportImport
  \/ ShowCoverage \/ MarkReviewed
  \/ GenerateMissing \/ BuildStarters \/ WriteStarters \/ SaveChecks
  \/ StepRaises \/ WindowEnds \/ OpenWindow

LibrarySpec == LibraryInit /\ [][LibraryNext]_libraryVars

--------------------------------------------------------------------------------
(* What the operator was told is imported is in the library with the           *)
(* difference to the release of the family imported before it, and the window  *)
(* shows only packages written to their end, whatever failed or ended on the   *)
(* way.  main_window.py:1521-1605, source_manager.py:129-155, :413,            *)
(* stig_repository.py:94-121.                                                  *)
ImportsAreInstalled ==
  /\ \A p \in reported : p \in ToSet(releases) /\ differences[p] = Predecessor(p)
  /\ Torn \notin shown

(* The coverage of a release counts as reviewed no more rules than there are   *)
(* rules with one automated check whose text, as it is in this release, an     *)
(* operator or the YAML of a check said was reviewed.                          *)
(* stig_repository.py:178-310, main_window.py:1640-1664.                       *)
ReviewsAreOfThisText ==
  Readable(files) =>
    \A release \in ToSet(releases) :
      LET known == Synchronized(release)
          said(r) == \/ <<release, r.vuln, r.print>> \in decisions
                     \/ \E l \in Libraries : \E c \in l : CheckMatchesRule(c, r) /\ c.seen = r.print
      IN  CurrentReviewed(known, release) <= Cardinality({r \in Automated(release) : said(r)})

(* "Create a release-labelled manual starter library without overwriting ...   *)
(* generated starters never alter existing automation": no check the operator  *)
(* keeps disappears from the libraries.  check_generator.py:67-71,             *)
(* stig_tab.py:602.                                                            *)
StartersAreKept ==
  job = "none" /\ Readable(files) => \A v \in kept : \E a \in AllChecks(files) : a.check.vuln = v
================================================================================
