------------------------------- MODULE Preflight -------------------------------
(* The command policy (command_policy.py), what a check library must satisfy   *)
(* to load (models.py), the planning of commands (command_planner.py) and the  *)
(* readiness check of an audit (preflight_service.py).                         *)
(*                                                                             *)
(* The text of a command is a sequence of tokens: words, "_" for one space,    *)
(* and the other characters the policy looks at.                               *)
EXTENDS Integers, FiniteSets, SequencesExt

CONSTANTS
    None, Invalid,   \* no profile, and one that is not valid
    Controls,    \* control characters, the line ends among them
    Chains,      \* tokens that chain or redirect
    Fold(_),     \* a word without its case
    Registry,    \* the approved commands, words separated by one space
    Pagination   \* the command every session starts with

\* The policy raises
Rejected == <<>>

--------------------------------------------------------------------------------
(* normalize_whitespace, on a text without control characters: words separated *)
(* by single spaces.                                                           *)
Words(text)   == SelectSeq(text, LAMBDA t : t # "_")
Spaced(words) == IF words = <<>> THEN <<>>
                 ELSE FoldLeft(LAMBDA acc, w : acc \o <<"_", w>>, <<words[1]>>, Tail(words))

Chained(text) == ToSet(text) \cap Chains # {}
Folded(text)  == [k \in DOMAIN text |-> Fold(text[k])]

Validate(text) ==
  LET normal == Spaced(Words(text))
      known  == {c \in Registry : Folded(c) = Folded(normal)}
  IN  IF ToSet(text) \cap Controls # {} \/ normal = <<>> \/ Chained(normal) \/ known = {}
      THEN Rejected
      ELSE CHOOSE c \in known : TRUE

IsAllowed(text) == Validate(text) # Rejected

--------------------------------------------------------------------------------
(* A library loads when its Vuln IDs are unique, an automated check that is    *)
(* not a manual review asks for something, and every command is approved, the  *)
(* ones nested in scope and conditions included; all become canonical.         *)
Automated(check) == check.automated /\ ~ check.manual

CheckLoads(check) ==
  /\ \A k \in DOMAIN check.commands : IsAllowed(check.commands[k])
  /\ \A c \in check.nested : IsAllowed(c)
  /\ Automated(check) => check.commands # <<>>

LibraryLoads(checks) ==
  /\ \A i, j \in DOMAIN checks : i # j => checks[i].vuln # checks[j].vuln
  /\ \A i \in DOMAIN checks : CheckLoads(checks[i])

Loaded(check) ==
  [check EXCEPT !.commands = [k \in DOMAIN @ |-> Validate(@[k])], !.nested = {Validate(c) : c \in @}]

(* plan_commands: each command once, in the order it is first asked for. *)
Asked(checks) == [i \in DOMAIN checks |-> [k \in DOMAIN checks[i].commands |-> Validate(checks[i].commands[k])]]

AddEach(plan, commands) ==
  LET after[k \in 0 .. Len(commands)] ==
        IF k = 0 THEN plan
        ELSE IF Contains(after[k - 1], commands[k]) THEN after[k - 1]
        ELSE Append(after[k - 1], commands[k])
  IN  after[Len(commands)]

PlanOf(asked) ==
  LET after[i \in 0 .. Len(asked)] ==
        IF i = 0 THEN <<Validate(Pagination)>> ELSE AddEach(after[i - 1], asked[i])
  IN  after[Len(asked)]

(* Mutant: the commands are sent as the checks spell them. *)
PlanAsSpelled(checks) == PlanOf([i \in DOMAIN checks |-> checks[i].commands])

PlanCommands(checks) == PlanOf(Asked(checks))

--------------------------------------------------------------------------------
(* The readiness check: a set of issues, each blocking or a warning. *)

(* A profile is None, Invalid, or its values by the parts of their name; an    *)
(* empty value is None.  A name of one part may also be one of the variables.  *)
Undefined(profile, name) ==
  LET at == IF Len(name) = 1 /\ name \notin DOMAIN profile THEN <<"variables", name[1]>> ELSE name
  IN  at \notin DOMAIN profile \/ profile[at] = None

MissingProfileValues(checks, profile) ==
  {n \in UNION {checks[i].names : i \in DOMAIN checks} : Undefined(profile, n)}

DeviceIssues(targets) ==
  (IF targets = <<>> THEN {"NO_DEVICES"} ELSE {})
    \cup (IF \E i \in DOMAIN targets : ~ targets[i].valid THEN {"INVALID_DEVICE"} ELSE {})
    \cup (IF \E i, j \in DOMAIN targets : i < j /\ targets[i].key = targets[j].key
          THEN {"DUPLICATE_DEVICES"} ELSE {})

CheckIssues(families, checks) ==
  (IF families = {} THEN {"NO_STIG"} ELSE {})
    \cup (IF checks = <<>> THEN {"NO_CHECKS"} ELSE {})
    \cup (IF \E i \in DOMAIN checks : \E k \in DOMAIN checks[i].commands : ~ IsAllowed(checks[i].commands[k])
          THEN {"UNSAFE_COMMAND"} ELSE {})

ProfileIssues(checks, profile) ==
  CASE profile = None      -> {"NO_PROFILE"}
    [] profile = Invalid   -> {"INVALID_PROFILE"}
    [] OTHER -> IF MissingProfileValues(checks, profile) # {} THEN {"PROFILE_VALUES_MISSING"} ELSE {}

(* A folder is tried by creating a file of a fixed name in it, which must not  *)
(* exist, and removing it.                                                     *)
Refuses(folder) == folder # None /\ (~ folder.writable \/ folder.probe)

StoreWithoutReports(store) ==
  (IF store.database = "down" THEN {"DATABASE_UNAVAILABLE"} ELSE {})
    \cup (IF Refuses(store.evidence) THEN {"EVIDENCE_UNWRITABLE"} ELSE {})

StoreIssues(store) ==
  (IF store.database = "down" THEN {"DATABASE_UNAVAILABLE"} ELSE {})
    \cup (IF Refuses(store.evidence) THEN {"EVIDENCE_UNWRITABLE"} ELSE {})
    \cup (IF Refuses(store.reports) THEN {"REPORT_UNWRITABLE"} ELSE {})

Stale(check) ==
  (IF check.review # None THEN check.review ELSE check.status) \in {"REVIEW_REQUIRED", "STALE"}

Warnings(checks, store) ==
  (IF store.evidence # None /\ ~ Refuses(store.evidence) /\ store.evidence.low THEN {"LOW_DISK_SPACE"} ELSE {})
    \cup (IF \E i \in DOMAIN checks : ~ Automated(checks[i]) THEN {"MANUAL_CHECKS"} ELSE {})
    \cup (IF \E i \in DOMAIN checks : Stale(checks[i]) THEN {"AUTOMATION_REVIEW_REQUIRED"}
          ELSE IF checks # <<>> /\ \A i \in DOMAIN checks : checks[i].automated => ~ checks[i].reviewed
          THEN {"AUTOMATION_STATUS_UNKNOWN"} ELSE {})

Blocking(a) == DeviceIssues(a.targets) \cup CheckIssues(a.families, a.checks)
                 \cup ProfileIssues(a.checks, a.profile) \cup StoreIssues(a.store)

Ready(a) == Blocking(a) = {}

--------------------------------------------------------------------------------
(* Whatever spelling a library uses, a session starts with the pagination      *)
(* command, sends approved commands only, each once, and all that the checks   *)
(* ask for; what has been approved once is approved unchanged again.           *)
PlanIsApproved(checks) ==
  LibraryLoads(checks) =>
    LET plan == PlanCommands([i \in DOMAIN checks |-> Loaded(checks[i])])
    IN  /\ ToSet(plan) \subseteq Registry /\ IsInjective(plan) /\ plan[1] = Pagination
        /\ \A i \in DOMAIN checks : \A k \in DOMAIN checks[i].commands :
             \E c \in ToSet(plan) : Folded(c) = Folded(Spaced(Words(checks[i].commands[k])))
        /\ plan = PlanCommands(checks)
        /\ \A i \in DOMAIN checks : CheckLoads(Loaded(checks[i])) /\ Loaded(Loaded(checks[i])) = Loaded(checks[i])

(* An audit that is ready has devices that can be told apart, something to     *)
(* check, an approved plan, a value for each name a check renders, and stores  *)
(* that take its output.  One that has all that and is not ready lacks a value *)
(* or meets a probe that an earlier check has left in one of its folders.      *)
ReadyMeansRunnable(a) ==
  LET runnable == /\ a.targets # <<>> /\ \A i \in DOMAIN a.targets : a.targets[i].valid
                  /\ Cardinality({a.targets[i].key : i \in DOMAIN a.targets}) = Len(a.targets)
                  /\ a.families # {} /\ a.checks # <<>> /\ a.profile \notin {None, Invalid}
                  /\ ToSet(PlanCommands(a.checks)) \subseteq Registry
                  /\ a.store.database # "down"
                  /\ \A folder \in {a.store.evidence, a.store.reports} : folder = None \/ folder.writable
  IN  /\ Ready(a) => runnable /\ MissingProfileValues(a.checks, a.profile) = {}
      /\ runnable /\ ~ Ready(a) => \/ MissingProfileValues(a.checks, a.profile) # {}
                                   \/ \E folder \in {a.store.evidence, a.store.reports} :
                                        folder # None /\ folder.probe
================================================================================
