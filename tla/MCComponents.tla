------------------------------- MODULE MCComponents -------------------------------
(* Small instances of the components around the scan, one of them at work in   *)
(* each behaviour: the decisions of MCJudgement, the vault, the backup, the    *)
(* license, the STIG library, the target table and the Professional window.    *)
EXTENDS MCJudgement, AtRestVault, BackupRestore, LicenseManager, StigLibrary, TargetTable, ProSession

CONSTANT Parts     \* the components that may be the one at work
VARIABLE which     \* the one that is

ASSUME JudgementAssumption
ASSUME PolicyAssumption
ASSUME IdsAssumption
ASSUME VaultAssumption
ASSUME BackupAssumption
ASSUME LicenseAssumption
ASSUME LibraryAssumption
ASSUME TableAssumption
ASSUME SessionAssumption

--------------------------------------------------------------------------------
(* The license documents and what is asked of the policies.                    *)
Every == {"l2", "ckl_export", "advanced_reporting", "multi_device_scan"}
License(signed, issued, expires, devices, features) ==
  [signed |-> signed, issued |-> issued, expires |-> expires, devices |-> devices, features |-> features]
Licenses ==
  {License(TRUE, 0, 1, 2, Every), License(FALSE, 0, 2, 2, Every), License(TRUE, 2, 2, 1, Every),
   License(TRUE, 0, 2, 2, {"l2", "ckl_export"}), License(TRUE, 1, 0, 2, Every), License(TRUE, 0, 2, 2, {"unheard_of"})}
Question(edition, names, families, txt, ckl) ==
  [edition |-> edition, targets |-> names, families |-> families, txt |-> txt, ckl |-> ckl]
LicenseQuestions ==
  {Question(e, t, {}, FALSE, FALSE) :
     e \in {"basic", "pro"},
     t \in {<<>>, <<"r1">>, <<"?", "r1">>, <<"r1", "R1.">>, <<"10.0.0.1", " 10.0.0.2">>}}
  \cup {Question(e, <<"10.0.0.1">>, f, x, c) :
          e \in {"basic", "pro"}, f \in SUBSET {"l2"}, x \in BOOLEAN, c \in BOOLEAN}
Normal(text) ==
  CASE text \in {"r1", "R1."} -> "r1"
    [] text = "10.0.0.1"      -> text
    [] text = " 10.0.0.2"     -> "10.0.0.2"
    [] OTHER                  -> None

(* Two releases of a family, one of another; the libraries of an operator.     *)
StigRule(vuln, rule, print) == [vuln |-> vuln, rule |-> rule, print |-> print]
L1 == [family |-> "l2", rules |-> {StigRule("v1", "r1", "a"), StigRule("v2", "r2", "b")}]
L2 == [family |-> "l2", rules |-> {StigRule("v1", "r1", "c"), StigRule("v2", "r2", "b")}]
N1 == [family |-> "ndm", rules |-> {StigRule("v3", "r3", "d")}]
Own(vuln, rule, automated, seen) == [vuln |-> vuln, rule |-> rule, automated |-> automated, seen |-> seen]
StigPackages == {L1, L2, N1}
StigRequests == {<<L1>>, <<L2>>, <<L1, N1>>, <<N1>>}
OwnLibraries ==
  {{}, {Own("v1", None, TRUE, None)}, {Own("v1", None, TRUE, "a"), Own("v2", None, TRUE, "b")},
   {Own("v9", "r2", TRUE, None)}}

\* Every device group has the same safe file name.
SharedFile(name) == "group"

--------------------------------------------------------------------------------
(* The components that are not at work stay in one of their initial states.    *)
Rests(part) == which # part
Init ==
  /\ which \in Parts
  /\ VaultInit /\ TableInit /\ SessionInit
  /\ BackupInit
  /\ Rests("backup") => /\ place = [d \in DOMAIN place |-> Data("mine")]
                        /\ \A d \in DOMAIN archive : archive[d] = Old(3)
  /\ LicenseInit
  /\ Rests("license") => file = None /\ source = License(TRUE, 0, 1, 2, Every)
  /\ LibraryInit
  /\ Rests("library") => files["main"] = {}
  /\ IF Rests("judgement") THEN case = None /\ verdict = None ELSE CaseInit

Next ==
  \/ which = "judgement" /\ JudgeNext
     /\ UNCHANGED <<which, vaultVars, restoreVars, licenseVars,
                    libraryVars, tableVars, sessionVars>>
  \/ which = "vault" /\ VaultNext
     /\ UNCHANGED <<which, caseVars, restoreVars, licenseVars,
                    libraryVars, tableVars, sessionVars>>
  \/ which = "backup" /\ BackupNext
     /\ UNCHANGED <<which, caseVars, vaultVars, licenseVars,
                    libraryVars, tableVars, sessionVars>>
  \/ which = "license" /\ LicenseNext
     /\ UNCHANGED <<which, caseVars, vaultVars, restoreVars,
                    libraryVars, tableVars, sessionVars>>
  \/ which = "library" /\ LibraryNext
     /\ UNCHANGED <<which, caseVars, vaultVars, restoreVars, licenseVars,
                    tableVars, sessionVars>>
  \/ which = "table" /\ TableNext
     /\ UNCHANGED <<which, caseVars, vaultVars, restoreVars, licenseVars,
                    libraryVars, sessionVars>>
  \/ which = "session" /\ SessionNext
     /\ UNCHANGED <<which, caseVars, vaultVars, restoreVars, licenseVars,
                    libraryVars, tableVars>>

Spec == Init /\ [][Next]_<<which, caseVars, vaultVars, restoreVars, licenseVars,
                         libraryVars, tableVars, sessionVars>>

================================================================================
