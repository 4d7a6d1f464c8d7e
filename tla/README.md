# A verification project for STIG Audit

STIG Audit collects read-only command output from Cisco devices (live over SSH,
or from files), evaluates STIG checks on it, and writes protected reports and
checklists.  Two applications share the core: the Basic window
(`basic_app.py`), which keeps nothing but protected report files, and the
Professional window (`gui/main_window.py`), which keeps a database, an evidence
store and a STIG library.

This directory holds TLA+ models of the parts of that program, the TLC runs
that check them on small instances, and proofs for every instance.  All source
paths below are relative to `src/stig_audit_pro`.

## 1. Inventory

| Component | State it keeps | Operations | Interacts with | What is hard |
|---|---|---|---|---|
| Scan orchestrator, `application/scan_orchestrator.py` | `pending`, `next_index`, `outcomes_by_index`, the executor's queue | `run`, `execute`, `report` | event queue (to a window), cancel event (from a window), one worker per device | threads and futures finish in any order; cancellation races submission, pick-up and completion |
| Audit service, `application/audit_service.py`, `infrastructure/ssh/netmiko_runner.py`, `core/command_planner.py` | the outputs of a device, until it is judged | `run_live`, `run_offline`, `_evaluate_device`, `run_commands` | orchestrator (as its worker), evidence sink, check engine | every call may fail; cancellation between commands |
| Basic application, `basic_app.py` | the worker thread, cancel event, event queue, result card, `last_*` summary data | `start`, `cancel_run`, `on_close`, `import_license_file`, `poll`, `_run`, `export_summary` | audit service, license policy, protected artifacts | Tk callbacks run between any two steps of the worker; a completion event outlives its run |
| At-rest vault, `infrastructure/security/*.py` | the vault file, encrypted files, temporary files | `create`, `open`, `write_file`, `encrypt_tree`, `save` | file system | a crash between any two file operations |
| Run service and evidence store, `application/run_service.py`, `infrastructure/evidence/evidence_store.py` | run records, device results, evidence directories, manifest, checksums | `begin_run`, sink, `persist_result`, `abort_run`, `import_offline`, `delete_run` | two stores that have no common transaction | partial failure, crash, directory names of devices |
| Database, `infrastructure/persistence/*.py` | SQL tables, schema version | repositories, migrations | run service | migration steps and restarts |
| Backup service and audit packages, `application/backup_service.py`, `application/audit_package_service.py` | a backup file, a rollback copy | `create`, `restore_in_place`, import, export | file system, evidence store, database | crash during restore |
| License manager and policy, `licensing/*.py` | installed license, its verdict | `load`, `import_license`, `validate` | file system, clock | expiry while a run is under way |
| Check engine, `core/check_engine.py` and its models | none (a function of outputs, profile and checks) | one evaluator per check type | parsers | which of the eight statuses a combination of facts gives |
| Parsers, `parsers/*.py` | none | text to facts | check engine | section boundaries |
| Command policy, preflight, `core/command_policy.py`, `application/preflight_service.py` | none | validate, canonicalise | audit service | order of tests |
| STIG sources, repository, comparison, `stig/*.py`, `application/run_comparison.py` | library of sources, active releases, YAML impact | import, activate, diff, coverage | file system | file and metadata written separately; matching of rules |
| Checklist and report writers, `stig/*_writer.py`, `reports/*.py` | none | render | applications | counts that must agree with each other |
| Professional window, `gui/*.py` | scan, checklist and STIG job state, two queues | begin, poll, finish, cancel, close | run service, audit service | a finish callback overtaking scan events |
| Operator storage, `storage/*.py` | presets, groups, workspace files | save, load, merge | file system | replaced or damaged files |

What each component must guarantee:

- *Orchestrator*: every target gets exactly one terminal outcome, the
  concurrency bound is never exceeded, cancellation stops new work, the event
  stream tells what the summary says, `run` returns.
- *Audit service*: evidence is stored before anything is judged, is never a
  fragment of a collection, and the workers keep the orchestrator's contract.
- *Basic application*: one worker at a time, every run is reported, the card
  and the summary speak of the files and of the run they claim to speak of, no
  export without a license, nothing is saved after the window has gone.
- *Vault*: whatever is interrupted, a protected report is whole under the one key
  of the vault, and a file of a tree that one process at a time converts holds its
  data in full, in clear or under that key.  An interrupted conversion cannot be
  resumed as documented (finding 7), and two at a time may lose a file (Observations).
- *Backup*: a restore is complete or undone, and what was there is never lost.
- *Run service*: both stores tell the same story of a run; no run stays RUNNING.
- *Licensing*: every answer is the one the license in force gives.
- *STIG library*: what the operator was told is imported is there, a review
  counts for the text it was made of, generated starters keep what is there.
- *Professional window*: it is busy exactly while one scan is under way, unless a
  completion or the start of an import raises, which leaves it busy for good; an
  audit gets the targets the table shows; the evidence pane shows the artifact
  looked for last, and does so even when a result without evidence is shown by then
  (Observations).
- *Check engine*: a verdict of compliance means that the device complies;
  exceptions act within their scope.
- *Policy, preflight*: only approved commands are planned; ready means runnable.
- *Comparisons*: no rule is lost, every new text reaches a reviewer, a trend says
  what the two statuses say, and the counts of two runs reconcile.
- *Checklists*: they say what the results say, and no result is lost on the way.

The components with their status are in `PROJECT.json` under `components`, and
what is hard to test, at its line, under `hazards`.

## 2. Modules

| Module | Models | Kind |
|---|---|---|
| `ScanTypes` | `RunStatus`, `DeviceStatus`, the counts of `ScanSummary`, `_run_status` | operators |
| `DeviceRun` | what a caller of `ScanOrchestrator.run` may rely on | abstract specification |
| `ScanOrchestrator` | one call of `run`: main loop, pool threads, cancel event, events | detailed specification |
| `AuditService` | the live and offline device workers, inside `ScanOrchestrator` | composition |
| `BasicApp` | Tk callbacks, poll and worker thread of the Basic window | detailed specification; collection is `DeviceRun`'s contract |
| `RunStore` | one audit run of the Professional window, written to the database and the evidence store | detailed specification |
| `ScanOrchestratorProofs`, `AuditServiceProofs`, `BasicAppProofs`, `RunStoreProofs` | theorems about the module of that name | proofs |
| `VaultAndBackupProofs` | theorems about `AtRestVault` and `BackupRestore`, the two components that keep the application's data | proofs |
| `DecisionProofs` | theorems about `LicenseManager` and `Judgement`: what a license allows, and what the engine and the comparison of runs return | proofs |
| `ReviewProofs` | theorems about the rest of `Judgement`: the comparison of releases, the plan and the readiness of an audit, the checklists | proofs |
| `ProWindowProofs` | theorems about `ProSession`, `StigLibrary` and `TargetTable`, the state machines behind the Professional window | proofs |
| `Absence` | `None` and `Torn`, the values that stand for what is not there | constants |
| `CheckOutcome`, `InterfaceChecks`, `ControlChecks`, `CheckEngine` | the check engine: outcome to status, exceptions, and the evaluator of every check type | operators, recursive functions |
| `StigDiff`, `RunComparison` | the comparison of two STIG releases, of two sources, and of two runs | operators |
| `Preflight` | command policy, library loading, command planning, readiness of an audit | operators |
| `Checklists` | template choice, filling of CKL and CKLB, the files left in the folder | operators |
| `AtRestVault` | the vault and the protected reports, two processes | detailed specification |
| `BackupRestore` | safety backup, restore in place, rollback, the next start | detailed specification |
| `LicenseManager` | the installed license, import, both policies | detailed specification |
| `StigLibrary` | import, mapping and review of STIG releases, starter libraries | detailed specification |
| `TargetTable` | the target list, the widgets that show it, device groups | detailed specification |
| `ProSession` | the Professional window around a scan, and its evidence pane | detailed specification |
| `Judgement` | a case that is judged once by the function of its kind, and what each judgement promises | composition of the operator modules |
| `MCJudgement` | the families of cases for `Judgement` | model checking |
| `MCComponents` | constants of the modules above; one component at work in each behaviour | model checking |
| `MCScanOrchestrator`, `MCAuditService`, `MCBasicApp`, `MCRunStore` | constants of the runs | model checking |

`ScanOrchestrator` implements `DeviceRun` (run `orchestrator`; its safety half
is theorem `Refinement`), `AuditService` implements `ScanOrchestrator` (run
`audit`), and `BasicApp` draws the outcomes of a
collection from `PossibleOutcomes`, the same operator `DeviceRun` decides with.
So the three layers fit together without one big composition.  `RunStore`
concludes its audit with `RunStatusOf` of `ScanTypes`, the operator the
orchestrator concludes with.

Each module that models code also holds *mutants*: operators that change one
definition the way a plausible bug would (a missing guard, an order swapped).
They are not used by the specification.  `PROJECT.json` pairs each with the
property that must fail under it, which shows that the property can fail.

### 2.1 ScanOrchestrator

`phase` is the main thread's place in `run`, `admitted` says that a submit
loop's condition has been evaluated and its body has not run: the two are
separate steps because the event can be set in between.  `nxt` is
`next_index`, `pending` the dict, `batch` the set a `for` loop still has to
visit, `outcome` is `outcomes_by_index`.  `fut[t]` is the future of target `t`:
queued in the executor, `entered` (a thread is in `execute`), `cleared` (past
the test of the event), `working`, `done`, or `withdrawn`.  The queue of events
is FIFO with one reader, so it is represented by what the reader knows once it
has read everything: the last status of each device (`shown`), the last
progress, the final status.

One simplification: the result of `report` carries `completed`, read from a
dict another thread is filling; it is text for a log line and is left out.  The
progress bar uses the PROGRESS events only, which the main thread puts.

### 2.2 AuditService

The worker's place is `stage`.  `sent` counts commands whose output has
arrived, `evidence` says what the sink holds.  The sink is optional in the
code (the Basic window has none); the model is of a run that has one.

### 2.3 BasicApp

The Tk thread runs one callback at a time; `poll` gives the interpreter a
chance to run the worker between two queue operations, so it is a sequence of
steps (`gui`), every other callback is one.  The queue holds completion events
only; scan events add a line of text.  `licensed` is the answer `validate`
would give for the selected batch; it changes at any moment (expiry, a file
replaced).  `onDisk`, `applied` and `permitted` are history variables.

### 2.4 RunStore

The two stores share no transaction, so the model takes one step per write: a
database operation is one transaction, a file appears by a rename.  `pc` names
the worker's next write and `at` the device of a loop; `Possible` is what that
write itself insists on (the record exists, the bundle is there and has no
manifest); `Handler` says where the exception of a failed call is handled:
`begin_run` undoes, the workers call `abort_run`, `abort_run` tolerates a
manifest it cannot write, `_abort_persistent_run` tolerates everything.  `sink[t]`
is the place of device `t` in its one call of the evidence sink.  The sink of a
scan holds `context.lock` throughout, that of an import only the store's lock
around a write (`Turn`).

| State | Code |
|---|---|
| `run`, `dev`, `counts`, `rows`, `result`, `links`, `log` | the tables `audit_runs`, `audit_devices`, artifacts, results, their links, the activity log |
| `bundle`, `owner`, `files`, `listed`, `resultsFile`, `manifest` | run directory with `run.json`; `device.json` (its `target_ip` and its list); output files; `results.json`; `manifest.json` |
| `known`, `summary`, `outcome` | `RunContext.artifacts_by_device`, the summary, the outcomes in memory |
| `scanning`, `current` | `_scan_in_progress`, `current_run_id == run_id` |
| `removed`, `removedLive`, `faults` | history variables |

`kind` is chosen in the initial state: the live worker, the checklist worker
(which exports after the run is finished, and whose inner call aborts once
before the outer one does) or an import (not given the cancel event, its run
not made current before its end, a device without results not given a
DEVICE-SCAN result).  The Tk thread begins a live or checklist run itself, so
no callback runs during `begin_run` there.

Left out: `_create_sample_run`, which runs on the Tk thread in one piece; a
tree that is removed only in part; the activity of a purge; the import of
packages, manual decisions and the verdicts of `verify_evidence`.

### 2.5 The judgements

`CheckEngine` abstracts a text to the set of patterns that match it, so that a
pattern found in a text is a member of a set; an interface, a banner line, a
VTY block or a key is a record of what the parser gives for it.  An evaluator
returns what `EvaluationOutcome` holds (passed, a status of its own, the failed
and the passed objects) or `Raised`; `StatusOf` and the exceptions turn it into
the status of the result.  Beside the evaluators stand definitions of
compliance that are said of the device and not of the evaluation
(`PatternCompliance` to `NtpCompliance`); `VerdictMeansCompliance` compares the
two for every mapping that keeps the status for compliance apart from the others
(`Tells`).  The one difference it allows is a banner header inside an unfinished
banner, where the engine may report a fault that is none.  `FactsOf` says what
the parsers give an evaluator: lists, whole numbers, one entry for each section.

`StigDiff` matches the rules of two releases in three rounds, one for each
identifier in the order of `_match_rules`, and derives what the comparison asks
of the local checks.  `Preflight` keeps the text of a command as a sequence of
tokens, because the order of normalising, rejecting and looking up is what the
policy is about; the two loops of `plan_commands` are the recursive functions of
`PlanOf` and `AddEach`.  `Checklists` keeps the entries of a template with their
status and comments; details texts are left out.  The results of one device and
job are a `Share` of the results of the run: a function on their places in that
list, so that "the last result for a rule" needs no second numbering.  The files
are numbered by the two loops that write them, target by target and job by job,
and of two with one name the later one is left (`Folder`).  File names do
matter: `SafeName` maps two IPv6 addresses to one name.  In the plan the branch of
`plan_commands` for `run_all` is left out: every caller passes `False`.

`RunComparison` keeps what `compare_runs` does with statuses and fingerprints.  A
rule that was *Not_Reviewed* and is open now is a new finding, as in the code, and
a rule without a fingerprint in either run counts as unchanged.  The window passes
no fingerprints at all (`gui/main_window.py:792-797`), so a trend it shows may
cross two texts of a rule; `TrendIsHonest` speaks of fingerprints that are there.

`Judgement` starts with a case - what one of these functions is asked - and
judges it in one step; it does not say which cases there are, so its theorems
hold for all.  `IsCase` is what is known of a case: lists are lists, a rule has
the normalised fields, a result has a status of the engine, every evaluated
device is one of the targets.  It excludes none of the cases of `MCJudgement`,
which enumerates the families TLC goes through.

### 2.6 Vault, backup, license

`AtRestVault` runs two processes of the program on the same files.  A process
may end, or a call fail, between the creation of the metadata file and its
content, between staging and publishing a file, and anywhere in a conversion.
A key stands for what one salt and one passphrase derive, so a vault created
over another one is a different key.

Any process with an open vault may convert the tree, also while another one does.
`disk` holds the files and the staging files of conversions by name (`drawn` of
them exist so far); a staging file is `Blank`, then `Cut` (it has the magic bytes
and is not complete), then a ciphertext.  `todo[p]` is what the conversion of `p`
has listed, staging files of others included, and the order in which it goes
through them is left open.  The bytes of one file are read in one step together
with the creation of its staging file; that a conversion reads, and another one
publishes before it writes, is covered by the staging steps in between.  The
unlink that ends `write_file` finds nothing after a rename, and after a link it
removes a name of the writer's own, so it is part of `Publish`.  Staging files of
reports lie outside of the tree and are not kept.  `overlapped` is history.  No
code of this repository calls `encrypt_tree`; it is modelled as it stands.

`BackupRestore` takes one step per rename and per removal; `place`, `aside`,
`staged` and `safety` are the four places the data can be.  The next start
follows, with the defaults it fills in and the two transactions of a migration.

`LicenseManager` keeps the installed file, the staging copy and the source
apart, because an import validates the source and copies it in another step.
The clock moves; the answer to the last question is kept.

### 2.7 STIG library, target table, Professional session

`StigLibrary` takes one step for the files and the metadata of a source, one
per release stored and one per difference; the window does one job at a time
(`job`, `queue`, `done`).  `reported`, `decisions` and `kept` are history.

`TargetTable` keeps the records and the widgets apart, because the window reads
the widgets back at some operations and not at others.  `ProSession` has the
flag and the cancel event, the scan thread, and the two queues with a timer
each; a finish callback and a progress event may be fetched in either order.  A
completion that refreshes tabs may raise on the way to `_finish_scan_ui`
(`FinishRaises`), and the thread of an import may fail to start (`StartFails`);
`stranded` remembers it.  The calls on widgets inside `_finish_scan_ui` itself are
taken to succeed.  `sought` is the artifact of the last read, a history variable.

### 2.8 MCComponents

These components share nothing the models would have to keep consistent, so one
run checks them together: `which` is the component at work, and the others rest
in an initial state.  `Parts` names those that may be at work.

## 3. Runs

| Run | Instance | Shows |
|---|---|---|
| `orchestrator` | 4 targets, pool of 2, one failure and one in-flight status | the safety, action and liveness properties of one run, and the refinement of `DeviceRun` |
| `audit` | 2 devices, pool of 2, 2 commands; live or offline | evidence and cancellation properties of the workers; refinement of `ScanOrchestrator` |
| `basic_app` | 2 devices, 1 report each, 2 runs in a row | the card, export, close, cancel and reporting properties |
| `run_store` | 2 devices, 2 outputs each, 1 failing call and 1 more while it is handled; live, checklist or import | crash consistency of the evidence, agreement of the stores, settled and traceable runs, every run closes |
| `components` | see below; 1.3 million states | the fifteen properties of sections 2.5 to 2.7 |
| `announce` (violation) | 3 targets, pool of 2 | a withdrawn target is never announced |
| `card_current` (violation) | as `basic_app` | a completion of the earlier run replaces RUNNING |
| `summary_current` (violation) | as `basic_app` | the Summary tab keeps the earlier run after a failed one |
| `falsely_running` (violation) | as `run_store`, no failing call | a run stays RUNNING in the history |
| `active_removed` (violation) | as `run_store`, no failing call | the active run is removed |
| `starters` (violation) | the STIG library of `components`, no failing step | Build Starter Checks replaces starters that are there |
| `conversion_resumes` (violation) | the vault of `components` | a conversion is refused because of what an interrupted one has left |

Why the bounds are enough.  With four targets and two slots each slot is
refilled, a target can be left unsubmitted, a future can be withdrawn while the
other runs, and progress takes several rounds; a third slot adds no new kind of
step.  The statuses a worker may return fall into success, failure and
cancelled, and the main loop does not tell failures apart, so one of each is
enough there (the audit runs use three failures).  Two commands give a
cancellation before, between and after.  Two runs in a row are what stale
events need; a third repeats the second.  In `run_store` two
devices give a loop that stops between devices and sinks that wait for each
other, two outputs a device that fails after a part of its evidence is stored,
and one failing call (`MaxFaults`) meets every write; a second one is allowed
only in the steps that handle the first (`FaultBound`), where a further fault
changes the outcome, while two independent faults elsewhere lead to the same
handlers one after the other.  `MaxRuns` and `MaxFaults` are the only bounds on
counters of these modules.

In `components` the operator modules get between some hundreds and some tens of
thousands of cases each: two rules on each side of a release (identifiers kept,
swapped, shared and lost), two results a run, two exceptions, two patterns, two
interfaces or neighbours, up to three banner lines, keys and permit tokens, two
devices with checklists.  Two is where precedence, duplicates and ambiguity
begin; the evaluators treat a third element as they treat the second.  The vault
has two processes, two legacy files, one report, three staging files in the tree
(`MaxTemporaries`: one for each file, and one for a staging file that is taken for
a file) and one process end or failing call (`MaxCrashes`), the backup two of them (`MaxRestoreFaults`: one in the
restore and one in its rollback), the license one interrupted import
(`MaxLicenseCrashes`) and a clock of three values (`Horizon`), the library four buttons (`MaxPresses`: import two releases, review,
compare) and one raising step or process end (`MaxFaults`), the table two
addresses and one profile, the session two scans of two devices and two evidence
reads (`MaxScans`, `MaxReads`).

Fairness.  The main thread and the pool threads are scheduled by the
interpreter (weak fairness on the main loop's steps and on each worker's); a
worker returns because every blocking SSH call is given a timeout
(`timeout`, `banner_timeout`, `auth_timeout`, `read_timeout`) and evaluation is
a finite computation.  Tk runs due timers.  In `RunStore` the
worker's chain of writes (`Main`), each device worker and the window's finish
callback are weakly fair, for the same reasons; that a call fails, that the
process ends, and what the operator does, is never obliged.  Nobody is obliged to cancel, close,
start or install a license.  `ReturnsPossibleOutcomes` and
`CancelBoundsSubmission` hold in the same instances and are proved, so they have
no run of their own.  Deadlock is checked in every run but `components`
and the two violation runs over its module: there a judged case, a license after
its last tick and every component whose bounds are used up do stop.  These runs
state no liveness.

## 4. Findings

1. *Withdrawn targets are not announced* (`announce`).  The docstring of `run`
   promises an outcome and an event for each remaining target; the branch that
   withdraws a queued future (`scan_orchestrator.py:237-243`) puts no event.
   `ReaderIsTold` states what holds instead.
2. *A completion event has no run* (`card_current`).  `poll` applies whatever
   completion it finds (`basic_app.py:809-818`).  Between the end of a worker
   and the next poll the operator can start the next run, and the old result
   then replaces RUNNING.
3. *Stale summary after a failure* (`summary_current`).  The event of a run
   that raised has no summary fields (`basic_app.py:784-788`), so the summary
   applied late from the earlier run stays, headed CURRENT RUN.

4. *A run stays RUNNING* (`falsely_running`).  `abort_run` exists "so history
   never remains falsely RUNNING" (`run_service.py:537`), but the worker that
   calls it is a daemon thread and no start looks for open runs.  `EveryRunCloses`
   states what holds while the process lives.
5. *The active run can be removed* (`active_removed`).  The guard compares with
   `current_run_id` (`gui/main_window.py:942-960`), which opening another run
   from the history changes and an import sets only at its end.
6. *Starters are written over* (`starters`).  "Without overwriting"
   (`check_generator.py:67-71`), "non-overwriting" (`stig_tab.py:602`); Build
   Starter Checks writes the same generated library with what is missing from
   the checks loaded at that moment, and a second press replaces what the first
   wrote (`gui/main_window.py:1694-1710`).
7. *An interrupted conversion is not resumable* (`conversion_resumes`).  "Safely
   resumable after interruption" (`at_rest.py:135`); but `rglob` (line 141) lists
   the staging file an ended process has left.  Once the magic bytes are in it, it
   is taken for encrypted data and does not decrypt (line 149), and every later
   conversion is refused.  `VaultDataIsRecoverable` states what holds: no data of
   the tree is lost by it.

### Observations

What the models show and no run of its own checks.  A property named in brackets
after the head of an item is broken, with the constants given, when it replaces
the property of a violation run over the same module:

- *Two conversions of one tree lose a file*, with no failure at all
  (`FilesStayThemselves`; `Parts = {"vault"}`, `MaxCrashes = 0`; fourteen states).
  `encrypt_tree` takes no lock: one process takes the unfinished staging file of
  another for a legacy file (`at_rest.py:147`) and seals what it has read of it
  over it, and the other renames that over the file it converts (line 125),
  against "publish ciphertext atomically" (line 114).  No code of this repository
  calls `encrypt_tree`.
- *The window is busy without a scan* (`BusyMeansScanning`; `Parts = {"session"}`;
  two states).  A completion may raise while it refreshes the tabs, before its last
  call frees the window (`gui/main_window.py:2406-2445`, `2988-3018`, `1063-1077`),
  and the dispatcher swallows that (470-473); the thread of an import is started
  outside of any try (1088-1093).  "A scan is already running. Cancel it or wait
  for it to finish." (1855) is then the answer to every later start.
- *Evidence where there is none* (`EvidenceIsOfTheSelection`; `Parts =
  {"session"}`; six states).  Showing a result without artifacts
  (`gui/evidence_tab.py:119-124`) does not move the load generation, so a reader
  under way still replaces "No linked evidence is available for this selection."
  by the text of the artifact looked for before.  `ReadersDoNotCross` states what
  holds: it is never the text of any other artifact.
- *Two targets, one directory* (`TargetIdentifiesDirectory`; `DirOf <- SharedDir`
  in `MCRunStore`; ten states).  "The stable target IP identifies the device
  directory" (`audit_service.py:156`); `_find_device_dir` goes by the safe name
  alone (`evidence_store.py:450`), so two targets whose names differ in replaced
  characters only (2001:db8::1 and 2001:db8:1::) share one.
- After a target is removed, `targets_tab.py:1185` reads the rows back from
  widgets that still stand in their old places, so the row behind the removed
  one takes over its tick and its profile.  `RemovalKeepsTheOthers` states the
  contrary; with it as a property and `Parts = {"table"}`, TLC has a behaviour of
  five states.
- A PROGRESS event fetched after the finish callback sets the controls of the
  audit tab to running again (`gui/main_window.py:1941`); Cancel then answers
  that no scan is running.
- Two IPv6 addresses may have one safe file name (1::2:3 and 1:2::3): with
  equal host names the second checklist replaces the first
  (`stig/ckl_writer.py:168`).  `ResultsAreDelivered` excepts such pairs.
- The Basic window drops the list of results its template has no entry for
  (`basic_app.py:748`); the Professional window counts them.
- Three reports divide by three numbers: the text report counts Error among the
  scored results, the Excel report Not_Applicable, the Basic summary neither.
  The first is rounded to a whole per cent, so that one open finding in 200
  reads as 100%.

One limit of `CompletedIsNotRelabelled` is deliberate: it speaks of runs whose
AUDIT_COMPLETED activity is on record.  When that last write fails, or when the
checklist worker aborts a second time with another status, the record and the
manifest of a run may name different statuses.

## 5. Proofs

### 5.1 ScanOrchestrator

`ScanOrchestratorProofs` proves, for every number of targets and every
concurrency the constructor accepts (`NTargetsAssumption`,
`ConcurrencyAssumption`, `StatusAssumption`), the type invariant, the safety
invariants of run `orchestrator`, two more (`ReturnsPossibleOutcomes`: a run that
returns has an outcome of the possible kind for every target;
`CancelBoundsSubmission`: at most one submission follows a cancellation), the
action property `DecidedIsQuiet`, and that every
behaviour of `Spec` is one of `DeviceRun!RunSpec`.

None of the properties is inductive.  The invariant `IInv` adds:

- `MainInv`: what the main thread knows where it stands: a body of a submit
  loop runs only while there is room, `batch` is part of `pending`, the futures
  it collects are done, it withdraws only after a cancellation, and - the fact
  that lets it write off the rest - it leaves `while pending` with targets
  unsubmitted only if it was cancelled;
- `FutureInv`: a target is unsubmitted, pending or decided, and a thread works
  only on a pending one.  This is why an outcome is final: the future a worker
  reports for has not been collected, and a withdrawn one was never picked up;
- `OutcomeInv`: outcomes against events, and CANCELLED against the event;
- `CancelInv`: what a cancellation can be overtaken by, with the submission
  already admitted as the one exception.

One lemma per conjunct shows that each step preserves it; each has one step per
action.  `StatusMeaning` derives what the counting of `_run_status` means from
cardinalities.  `StepSimulation` maps collecting, withdrawing and writing off to
`Decide`, `Return` to `Conclude`, `RequestCancel` to `Cancel`, all else to
stuttering.

### 5.2 RunStore

`RunStoreProofs` proves the type invariant, the six other invariants and the two
action properties of run `run_store`, for every number of devices and outputs
(at least one of each), every naming of the directories (two devices may share
one), every set of failures and every number of failing calls
(`SizeAssumption`, `DirAssumption`, `FailuresAssumption`).  `MaxFaults` is thus
no bound in the proofs, only in the run.  The run of the process may end in any
state and the operator may purge or delete the run wherever the window offers it.

Its `IInv` has one conjunct per concern, each proved inductive by a lemma with
one step per action:

- `ControlInv`, `StartInv`: what the worker has at each of its writes; nothing
  is stored before the audit.
- `SinkInv`: the sink stores the outputs of a device one after the other, so the
  artifacts known to it are the first *k* commands.  Needed to show that an
  evaluated device has all of them.
- `EvidenceInv`: between two writes of the sink the first of them has happened.
  It also covers a bundle whose raw files were purged: the lists stay.
- `ManifestInv`: a bundle with a manifest is past its last write, so the list in
  the manifest stays equal to those of the device files.  This is what makes
  `HistoryIsVerifiable` and `BundleIsFrozen` hold after an abort.
- `OutcomeInv`, `RecordInv`: how far the loops of `begin_run` and
  `persist_result` have come; the device records come and go with the run's.
- `ClosingInv`: a run that is not finished yet has no final status; before the
  counts every device is terminal, on both paths.  `TerminalCount` then derives
  that the three counts add up.
- `StoredInv`, `LinkInv`: what is known of an output is on record while there is
  a record, and the results before the current device are linked.
- `AgreementInv`: status of the record and of the manifest from the one write to
  the other.
- `BeginInv`: which of record and bundle exist at each write of `begin_run`, and
  that undoing starts only after a fault.

Each conjunct was checked with TLC on the instance of `run_store` before it was
proved.  `DeviceMoves`, `RowsMove`, `LinksMove` and `RunMoves` state what one
step may do to a record, and are used by several of the proofs.

### 5.3 AuditService

`AuditServiceProofs` extends the theorems of 5.1.  `WorkersKeepContract` proves
that every run with the real workers is a behaviour of `ScanOrchestrator!Spec`
(the safety half of `ImplementsOrchestrator`), so what 5.1 says of generic workers
holds of these.  The three invariants of run `audit` follow for every number of
targets, threads and commands (at least one, `AuditAssumption`).  The invariant
adds to `IInv` where a worker stands against the state of its future (`StageInv`),
what it has collected and stored there (`EvidenceInv`: it stores only after the
last command), what it has announced and returned (`VerdictInv`: a return of
CANCELLED or of a connection failure comes from before the storing, which is why
such a device leaves no evidence), and the command that was on its way when the
event was set (`LateInv`).

### 5.4 BasicApp

`BasicAppProofs` proves the type invariant, both invariants and both action
properties of run `basic_app`, and `NoCompletionIsLost`, the safety half of
`EveryRunIsReported`: a concluded run was shown or its event is queued, and while
one can be queued a poll is due or running.  They hold for every finite set of
devices, every number of reports and runs (`BasicAppAssumption`).  `CardIsHonest` is not
inductive: the card is set from an event that was made much earlier, maybe in
another run.  What carries it is `ReportInv`, that every event on its way is
*about a concluded run* and says what the disk holds, and that the files of a
concluded run do not change; `RunInv` ties the current run's counters to the
disk, `LicenseInv` the permission to the stage, `GuiInv` what a closed window
leaves.  The worker's actions are first reduced to two kinds of steps, going on
and reporting (`Proceeds`, `Reports`).

### 5.5 AtRestVault (`VaultAndBackupProofs`)

For any processes, passphrases, files, reports and staging files, any number of
failing calls and process ends, and any number of conversions at the same time,
`VaultDataSurvives` (the property of run `components`) and `MetadataIsFinal`: no
step replaces metadata that holds a key.  `VaultAssumption` only says that values
and names are told apart.  `KeyInv`: a process that fills the metadata created
them, so there is one, and a window that works has the key the metadata verify.
`JobInv`: only a conversion has a staging file in the tree, no two have the same,
and none is drawn twice.  With it what is published as a report is under the key
of the metadata (`DataInv`), and a conversion has each file in clear either still
on its list or in its own hands (`ConversionInv`), however many of them work.
What is said of the files of the tree needs more: `AloneInv` states that as long
as no two conversions have overlapped the staging file of the one that runs is
what it made of it.  Its hypothesis cannot be dropped (Observations).

### 5.6 BackupRestore (`VaultAndBackupProofs`)

`RestoreLosesNothing` for any finite set of configured directories, any schema
version from 1 on and any number of failing calls and process ends
(`BackupAssumption`).  Nothing may be lost although a rollback may fail halfway,
so the invariant says for each place of each step where a destination's content
is: `SafetyInv`, the safety backup is complete before the first destination
moves and covers all the archive replaces; `PublishInv`, the work list and the
list of replaced destinations partition those of the archive, a replaced one has
its old content set aside, the head of the list is the only one that may be
missing; `OutcomeInv` and `SchemaInv` for what is left behind and for the
migration at the next start, which rests on a database that claims the current
schema having its columns.  That the order of publishing names *every*
destination of the archive is a pigeonhole argument (`EveryDestinationIsListed`,
from the library's facts on injections).

### 5.7 LicenseManager (`DecisionProofs`)

`PoliciesHonourTheLicense` for any set of documents, any questions and any
tolerance (`LicenseAssumption`: the fields are of their types).  The property
compares the answer with `Entitled`, the license text read as a sentence; the
lemmas `LoadedLicense`, `DevicesOfQuestion`, `ProIsEntitled` and `BasicIsEntitled`
show that loading and both policies decide exactly that.  `FileInv` says that the
installed file is complete or missing at every point of an import, since it is
replaced by renaming a complete copy.

### 5.8 ProSession (`ProWindowProofs`)

`WindowFollowsTheScan` and `ReadersDoNotCross`, for any number of devices, scans
and reads and any artifacts (`SessionAssumption`).  `ScanInv` is the heart: while
the window is busy its scan is in one place, its thread or *one* completion in the
queue of callbacks, or it was stranded by a completion or a start that raised, and
then nothing is under way any more; any progress callback stands before a
completion.  So the window cannot be freed twice or by the completion of another
scan.  `ControlInv` relates flag, event and controls.  For the pane
(`EvidenceInv`) the generation is what counts: of all reads under way and answers
queued, those with the current number are for the artifact looked for last.  `Posted`, `Fetched` and `EndingIs` are the lemmas on the queues.

### 5.9 StigLibrary (`ProWindowProofs`)

`ImportsStayInstalled` and `CoverageIsOfReviewedText` for any finite packages,
any sequences of them a button imports, any libraries and any number of raising
steps and process ends.  `LibraryAssumption` says that a rule is known in its
release by its vulnerability identifier (in the database it is a row, and
rows are told apart by their number), that its text has a fingerprint, and that
a button imports at least one package.

- For imports, `ImportInv` states that a release is stored before it is compared
  and never twice.  The property needs the predecessor of a release to be *final*
  although releases keep being added; `PredecessorStays` proves that (the last
  of the earlier positions exists by `LastOne`, a well-founded minimum).
- For reviews, `ReviewInv` states that whenever a mapping records a reviewed
  text, either the operator decided so for that rule of that release, or a
  check that matches the rule says so in the file of an operator; `FilesInv`
  that a starter never says it.  `CountedAreReviewed` then derives from
  cardinalities that the number shown, a difference of two counts, is never
  above the number of rules somebody vouched for.

### 5.10 TargetTable (`ProWindowProofs`)

`AuditGetsWhatIsShown` for any addresses, profiles and groups and any naming of the
groups' files (`TableAssumption`: no row is not a number).  What makes it
inductive is `Distinct`: *every* list of targets there is - in the table, and in the
groups, which come back through `set_targets` unchecked - has each address once; and
there is always a row of widgets for each target, so reading back by row number
finds one.  `SyncedRows`, `RelabeledRows`, `DrawnRows`, `RemovedRow` and `AddedRows`
say what each way to change a list preserves; `OrderIsOfAll` that the order in
which new or chosen targets are taken goes through all of them.

### 5.11 Judgement: the engine and two runs (`DecisionProofs`)

`JudgeSpec` begins with *any* case: of a check it is only known that its exception
rules are a list and that its device has the facts the parsers give (`FactsOf`),
of a comparison that both runs are lists of results (`IsCase`).
`JudgeInv` says that a verdict on a check is what `Evaluate` returns for its case,
and that on a run of the window what `ChecklistsOf` fills for it.

- `ExceptionsStayInScope`: the argument does not look into the evaluators.
  `PlainResult` shows that the rules change neither the objects of a result nor
  the status it has before them, `ForcedByARule` that a different status is that
  of the first rule which applies (there is a first one by `FirstOne`).
- `VerdictsMeanCompliance`: for each of the seven evaluators with a reference
  definition one lemma says that its outcome *decides* the reference
  (`PatternDecides`, `InterfaceDecides`, `VtyDecides`, `RootGuardDecides`,
  `ManagementDecides`, `NtpDecides`, `BannerDecides`): it passes when the device
  complies, and when it does not it fails with a status a mapping that `Tells`
  cannot confuse with compliance (`VerdictOfOutcome`).  Most follow by comparing sets;
  the sessions of VTY lines count a finite union of ranges (`LinesAreFinite`), and
  the key in force and the key a server is asked with are those `AlgorithmInForce`
  and `AskedWithFirstKey` name.  `Banners` is a recursive function of the line: that
  the banners it returns are those from a header to the `FirstEnd` after it
  (`FoundAreBanners`, `BannersAreFound`) is shown by looking at the last line at
  which it would be wrong (`ScanIsDefined`, `Scanning`), since a well-founded
  minimum is at hand where an induction theorem is not.  The assumption is that a
  banner text has finitely many clauses (`JudgementAssumption`).
- `TrendsStayHonest`: `ClassMeans` reads off the classification what each class
  says of the two statuses, `ClassReversed` what becomes of it when the runs change
  places, and `RunsCompareHonestly` counts: what was open is the
  disjoint union of the resolved, the persistent and the incomparable items
  (`ThreeParts`, on finite sets by `KeysAreFinite`).  That a repeated result never
  hides behind an earlier one is `StatusIsOfAResult`.

### 5.12 Judgement: what is reviewed and acted on (`ReviewProofs`)

- `ReleasesAreReviewed`, for any two releases and any library of checks.  A round
  of the matching keeps a set of pairs in which each rule occurs once
  (`RoundIsMatching`), so every rule has one change and the counts of a summary
  add up on either side (`RulesHaveOneChange`, `CountsOfASide`, which counts three
  disjoint parts).  That the comparison in the other direction says the same
  mirrored is `RoundIsMirrored`, carried through the three rounds to
  `ChangesAreMirrored`.  A new procedure, a lost rule and a changed text are then
  followed from the change to the impact (`NewProcedures`, `LostRules`) and to the
  guidance of the source comparison (`NewTexts`).
- `PlansStayApproved`, for any registry in which the entries are written with
  single spaces, without control characters or chaining, and no two differ in
  case only (`PolicyAssumption`, which is what `command_policy.py` lists; the way
  case is folded is a parameter).  `Approval` shows that what is approved is an
  entry of the registry and is approved again as itself, so loading a library is
  idempotent (`LoadedLibrary`).  The plan is built by two nested loops; that each
  stays a list of approved commands without a repetition, with the pagination
  command first, and holds all it was given (`AddEachMeans`, `PlanMeans`) is shown
  by the first turn at which it would fail.
- `ReadinessStaysHonest`, on the same assumption: `KeysDiffer` turns the pairwise
  comparison of targets into a count of their keys, and `PlanAllowed` says that a
  plan is in the registry exactly when each command of the library is allowed.
- `ChecklistsStayTrue`, for any templates, targets and results.  `JobsAreSound`
  goes through the choice of templates: each job has a template that holds its
  families, no two have a family or a label in common, and together they serve
  the selection.  `LastOfName` and `PopulatedEntry` say what an entry takes, and
  `XmlEntryTaken` and `JsonEntry` what it says in either format, from which the
  marks, the notes and the agreement of the formats follow.  For the delivery of
  a result (`ResultDelivered`): of the files with one name a last one is left
  (`LastPair`, `FileLeft`), without a namesake it is of the same device and job,
  and without a later result for the rule it says what this result says.
  `IdsAssumption` says that a missing identifier is none.

The steps `\A k : ...` over the turns of a loop are proved by a least element
(`FirstOne`) and "the last of several" by a greatest (`FinalOne`), since the
induction theorems take an operator as a parameter.

The assumptions of 5.5 to 5.12 are hypotheses of the theorems; `MCComponents`
assumes them, so TLC evaluates them on the instance it checks.

### 5.13 Only model-checked

Liveness (`EveryRunCloses`, `EveryRunIsReported`, the fair halves of
`ImplementsDeviceRun` and `ImplementsOrchestrator`), outside what the prover
handles: their safety halves are proved (5.1, 5.3, 5.4).  Every invariant and
every action property a passing run checks is stated by a theorem.

## 6. Plan

1. (done) `ScanTypes`, `DeviceRun`, `ScanOrchestrator`, `AuditService`,
   `BasicApp`, the theorems about `ScanOrchestrator`.
2. (done) `RunStore`: run service over evidence store and database, with a crash
   and a failure possible at every write; its theorems.
3. (done) `AtRestVault`, `BackupRestore`, `LicenseManager`, `StigLibrary`,
   `TargetTable`, `ProSession`.
4. (done) The judgements: check engine, comparisons, preflight, checklists.
5. (done) Proofs about `AuditService`, `BasicApp`, `AtRestVault`,
   `BackupRestore`, `LicenseManager`, `ProSession`, `StigLibrary`,
   `TargetTable` and all of the judgements.
6. Abstract specifications left to state: of `RunStore` (a run is begun, filled
   and closed) and of `AtRestVault` (a store of files under one passphrase).

## 7. Not modelled

- Layout, wording, dialogs, forms and file formats; SSH, SQL, XML, YAML and
  cryptography, which are libraries.
- The parsers from text to facts (`parsers/*.py`): what they do is the wording
  of Cisco's output, and a model that abstracts the text has nothing left to
  check.  Their join of two outputs into one interface is in `InterfaceChecks`.
- Actual-value texts and confidence scores of the engine, finding details, the
  tables and charts of reports: they feed no decision.
- Audit packages and `restore` into another directory: formats and size limits.
  The run of an imported package is stored by several calls of the repositories
  after its files are in place (`run_service.py:652`), as a run of the window is.
- `verify_evidence`, which only reads, and manual decisions, one row each.
- Discovery of download links and XCCDF parsing; scan presets, which are stored
  like device groups; profiles and the YAML editor.
- `restore_in_place` during a scan: the window does not ask whether one is under
  way.  It would take a run store whose files are exchanged under its worker, at
  the granularity of single files.
