----------------------------- MODULE LicenseManager -----------------------------
(* The offline license (licensing/manager.py) and what both editions allow     *)
(* with it: the policy of the Basic program (basic_policy.py) and the checks   *)
(* of the Professional one.  Signatures and JSON are the libraries'.           *)
EXTENDS Absence, Integers, Sequences, FiniteSets, SequencesExt

CONSTANTS
    Documents,      \* the license files an operator may have
    Canonical(_),   \* the normal form of a target, None when it is none at all
    IpAddresses,    \* the targets that are IP addresses
    Assessments,    \* the families of checks
    Questions,      \* what is asked of a policy
    Tolerance,      \* how far in the future a license may be issued
    Horizon, MaxLicenseCrashes

VARIABLES
    file, temporary, source,  \* the installed license, its staging copy, the one to import
    importing,                \* None, or an import has "checked" its source or "copied" it
    clock,
    license,                  \* what the manager holds: status, limit and features
    answer,                   \* the last question asked of a policy and its answer
    licenseCrashes
licenseVars == <<file, temporary, source, importing, clock, license, answer, licenseCrashes>>

FamilyFeature(family) == family
Supported == Assessments \cup {"ckl_export", "advanced_reporting", "multi_device_scan"}
Unlicensed(status) == [status |-> status, limit |-> 1, features |-> {}]

--------------------------------------------------------------------------------
(* load: everything is reset, then trusted only when the document is complete, *)
(* signed and consistent.  An expired license stays readable.                  *)
Consistent(doc, now) ==
  /\ doc.issued <= now + Tolerance /\ doc.issued <= doc.expires
  /\ doc.devices > 0 /\ doc.features \subseteq Supported

Trusted(doc, now) == doc # Torn /\ doc.signed /\ Consistent(doc, now)

LoadedFrom(doc, now) ==
  IF doc = None THEN Unlicensed("MISSING")
  ELSE IF ~ Trusted(doc, now) THEN Unlicensed("INVALID")
  ELSE [status   |-> IF now > doc.expires THEN "EXPIRED" ELSE "VALID",
        limit    |-> doc.devices, features |-> doc.features]

IsValid(held)          == held.status = "VALID"
FeatureEnabled(held, f) == IsValid(held) /\ f \in held.features
MaxDevices(held)       == IF IsValid(held) THEN held.limit ELSE 1

--------------------------------------------------------------------------------
(* The targets of a question, each spelling in its normal form, once.          *)
Normalized(targets) == {Canonical(t) : t \in ToSet(targets)}

\* BasicLicensePolicy.validate, after its reload; free Basic has every feature
\* but more than one device.
DeviceLimit(held) == IF FeatureEnabled(held, "multi_device_scan") THEN MaxDevices(held) ELSE 1

Needed(asked) ==
  {FamilyFeature(f) : f \in asked.families}
    \cup (IF asked.txt THEN {"advanced_reporting"} ELSE {})
    \cup (IF asked.ckl THEN {"ckl_export"} ELSE {})

BasicAllows(held, asked) ==
  /\ Normalized(asked.targets) \notin {{}} /\ None \notin Normalized(asked.targets)
  /\ Cardinality(Normalized(asked.targets)) <= DeviceLimit(held)
  /\ asked.families # {} /\ asked.families \subseteq Assessments
  /\ asked.txt \/ asked.ckl
  /\ IsValid(held) => \A f \in Needed(asked) : FeatureEnabled(held, f)

\* require_feature and require_scan_targets, without a reload of their own
ProAllows(held, asked) ==
  /\ \A f \in Needed(asked) : FeatureEnabled(held, f)
  /\ ToSet(asked.targets) \subseteq IpAddresses
  /\ LET requested == Cardinality(Normalized(asked.targets))
     IN  /\ requested > 1 => FeatureEnabled(held, "multi_device_scan")
         /\ requested <= MaxDevices(held)

--------------------------------------------------------------------------------
\* A document's fields have their types; the targets of a question are a list,
\* its assessments are supported ones; no file is told apart from one.
LicenseAssumption ==
  /\ \A doc \in Documents : /\ doc.signed \in BOOLEAN
                            /\ doc.issued \in Int /\ doc.expires \in Int /\ doc.devices \in Int
  /\ \A asked \in Questions : /\ asked.targets \in Seq(ToSet(asked.targets))
                              /\ asked.families \subseteq Assessments
                              /\ asked.edition \in {"basic", "pro"}
  /\ {None, Torn} \cap Documents = {} /\ None # Torn /\ None \notin {"checked", "copied"}
  /\ Tolerance \in Int

LicenseInit ==
  /\ file \in Documents \cup {None} /\ temporary = None /\ source \in Documents
  /\ importing = None /\ clock = 0 /\ licenseCrashes = 0 /\ answer = None
  /\ license = Unlicensed("FREE")

Tick ==
  /\ clock < Horizon /\ clock' = clock + 1 /\ answer' = None
  /\ UNCHANGED <<file, temporary, source, importing, license, licenseCrashes>>

\* Start-up, the timer and every refresh of the window
Reload ==
  /\ importing = None /\ license' = LoadedFrom(file, clock)
  /\ UNCHANGED <<file, temporary, source, importing, clock, answer, licenseCrashes>>

\* Outside of the program the license file is removed or the other file changes.
Outside ==
  /\ \/ file' = None /\ UNCHANGED source
     \/ source' \in Documents \ {source} /\ UNCHANGED file
  /\ answer' = None
  /\ UNCHANGED <<temporary, importing, clock, license, licenseCrashes>>

(* import_license: a manager of its own validates the source, the source is    *)
(* copied beside the license and renamed over it.                              *)
CheckSource ==
  /\ importing = None /\ IsValid(LoadedFrom(source, clock))
  /\ importing' = "checked"
  /\ UNCHANGED <<file, temporary, source, clock, license, answer, licenseCrashes>>

\* The copy is written into the license file itself
CopyInPlace ==
  /\ importing = "checked" /\ importing' = "copied" /\ temporary' = source /\ file' = Torn
  /\ UNCHANGED <<source, clock, license, answer, licenseCrashes>>

CopySource ==
  /\ importing = "checked" /\ importing' = "copied" /\ temporary' = source
  /\ UNCHANGED <<file, source, clock, license, answer, licenseCrashes>>

Install ==
  /\ importing = "copied" /\ importing' = None
  /\ file' = temporary /\ temporary' = None
  /\ license' = LoadedFrom(file', clock) /\ answer' = None
  /\ UNCHANGED <<source, clock, licenseCrashes>>

(* The copy fails, or the process ends, in the middle; the next start loads.   *)
ImportStops ==
  /\ importing # None /\ importing' = None /\ licenseCrashes < MaxLicenseCrashes /\ licenseCrashes' = licenseCrashes + 1
  /\ temporary' \in {temporary, Torn}
  /\ license' = LoadedFrom(file, clock)
  /\ UNCHANGED <<file, source, clock, answer>>

\* Start, before the export, and every license check of the other window: the
\* file is loaded again, under the lock an import would hold.
AskPolicy(asked) ==
  /\ importing = None
  /\ license' = LoadedFrom(file, clock)
  /\ answer' = [asked |-> asked,
                allowed |-> IF asked.edition = "basic" THEN BasicAllows(license', asked) ELSE ProAllows(license', asked)]
  /\ UNCHANGED <<file, temporary, source, importing, clock, licenseCrashes>>

LicenseNext ==
  \/ Tick \/ Reload \/ Outside
  \/ CheckSource \/ CopySource \/ Install \/ ImportStops
  \/ \E asked \in Questions : AskPolicy(asked)

LicenseSpec == LicenseInit /\ [][LicenseNext]_licenseVars

--------------------------------------------------------------------------------
(* What the installed document itself entitles to, said without the manager.   *)
InForce == /\ file # None /\ file # Torn /\ file.signed
           /\ file.issued - Tolerance <= clock /\ file.issued <= file.expires /\ clock <= file.expires
           /\ file.devices >= 1 /\ file.features \subseteq Supported
Devices(asked) == {Canonical(t) : t \in {asked.targets[k] : k \in DOMAIN asked.targets}}
Covers(asked) ==
  /\ Needed(asked) \subseteq file.features
  /\ Cardinality(Devices(asked)) <= IF "multi_device_scan" \in file.features THEN file.devices ELSE 1
Entitled(asked) ==
  IF asked.edition = "pro"
  THEN /\ \A k \in DOMAIN asked.targets : asked.targets[k] \in IpAddresses
       /\ Needed(asked) # {} \/ Cardinality(Devices(asked)) > 1 => InForce
       /\ InForce => Covers(asked)
  ELSE /\ asked.targets # <<>> /\ None \notin Devices(asked) /\ asked.families # {} /\ (asked.txt \/ asked.ckl)
       /\ IF InForce THEN Covers(asked) ELSE Cardinality(Devices(asked)) = 1

(* Every answer is the one the license in force gives, whatever was installed, *)
(* removed, interrupted or has expired since the last load; an interrupted     *)
(* import leaves the license that was there.  manager.py:126-341,              *)
(* basic_policy.py:86-115.                                                     *)
LicenseIsHonoured ==
  /\ answer # None => (answer.allowed <=> Entitled(answer.asked))
  /\ file # Torn
================================================================================
