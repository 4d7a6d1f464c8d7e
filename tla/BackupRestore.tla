----------------------------- MODULE BackupRestore -----------------------------
(* Backup, restore in place and the next start of the program                  *)
(* (backup_service.py, main_window.restore_application_data, database.py and   *)
(* migrations.py).  Any call on the file system may fail and the process may   *)
(* end between any two of them.                                                *)
EXTENDS Absence, Integers, Sequences, FiniteSets

CONSTANTS
    Sources,      \* the configured directories beside the database
    Evidence,     \* the evidence root, replaced only when the archive says so
    Current,      \* CURRENT_SCHEMA_VERSION
    MaxRestoreFaults  \* bound on failing calls and process ends

VARIABLES
    before, place,  \* what every destination held and holds
    archive,      \* what the selected archive holds
    safety,       \* the safety backup, None before it is published
    aside,        \* the rollback directory
    staged,       \* the staging directory
    publishing,   \* destinations still to be published, in order
    replaced,     \* destinations published so far, the latest first
    step, told, restoreFaults
restoreVars == <<before, place, archive, safety, aside, staged, publishing, replaced, step, told, restoreFaults>>

Database     == "database"
Destinations == {Database, Evidence} \cup Sources
\* Content: whose data it is, for a database its version and whether the result
\* table has a title column.
Data(whose)     == [data |-> whose, version |-> Current, title |-> TRUE]
Empty           == [d \in Destinations |-> None]
Fresh           == [Data("fresh") EXCEPT !.version = 0]    \* no version row yet
Old(v)          == [data |-> "old", version |-> v, title |-> v >= Current]

Contents        == [data : {"mine", "fresh", "old"}, version : Nat, title : BOOLEAN]

\* The destinations are distinct and finitely many; nothing is told apart from
\* something.
BackupAssumption ==
  /\ Current \in Nat \ {0}
  /\ IsFiniteSet(Sources) /\ Database # Evidence /\ Sources \cap {Database, Evidence} = {}
  /\ None \notin Contents /\ None \notin [Destinations -> Contents \cup {None}]
  /\ None \notin {"failed", "restored"}

BackupInit ==
  /\ place \in [Destinations -> {None, Data("mine")}] /\ place[Database] # None
  /\ before = place
  /\ archive \in {a \in [Destinations -> {None} \cup {Old(v) : v \in 1 .. Current + 1}] :
                    a[Database] # None /\ \A d \in Destinations \ {Database} : a[d] \in {None, Old(Current)}}
  /\ safety = None /\ aside = Empty /\ staged = Empty
  /\ publishing = <<>> /\ replaced = <<>> /\ step = "idle" /\ told = None /\ restoreFaults = 0

Fault      == restoreFaults < MaxRestoreFaults /\ restoreFaults' = restoreFaults + 1
Concludes(what) ==
  /\ step' = "ended" /\ told' = what
  /\ aside' = Empty /\ staged' = Empty    \* TemporaryDirectory is removed

--------------------------------------------------------------------------------
(* create, of what is there, for the safety backup: published by one rename.   *)
Saved == [d \in Destinations |-> IF d # Evidence \/ archive[Evidence] # None THEN place[d] ELSE None]

BackUp ==
  /\ step = "idle"
  /\ safety' = Saved /\ step' = "stage"
  /\ UNCHANGED <<before, place, archive, aside, staged, publishing, replaced, told, restoreFaults>>

(* Entries are extracted, the database is validated and the publications are   *)
(* listed: the database, the sources in order, the evidence.                   *)
Valid(database) == database.version <= Current
PublishOrder ==
  {q \in [1 .. Cardinality({d \in Destinations : archive[d] # None}) -> {d \in Destinations : archive[d] # None}] :
     /\ \A i, j \in DOMAIN q : i # j => q[i] # q[j]
     /\ q[1] = Database /\ \A i \in DOMAIN q : q[i] = Evidence => i = Len(q)}

StageArchive ==
  /\ step = "stage"
  /\ IF Valid(archive[Database])
     THEN /\ staged' = archive /\ publishing' \in PublishOrder /\ step' = "aside"
          /\ UNCHANGED <<aside, told>>
     ELSE Concludes("failed") /\ UNCHANGED publishing
  /\ UNCHANGED <<before, place, archive, safety, replaced, restoreFaults>>

--------------------------------------------------------------------------------
(* Publication of one destination: its content is moved aside, the staged one  *)
(* takes its place.                                                            *)
MoveAside ==
  /\ step = "aside" /\ publishing # <<>>
  /\ aside' = [aside EXCEPT ![publishing[1]] = place[publishing[1]]]
  /\ place' = [place EXCEPT ![publishing[1]] = None]
  /\ step' = "put"
  /\ UNCHANGED <<before, archive, safety, staged, publishing, replaced, told, restoreFaults>>

PutInPlace ==
  /\ step = "put"
  /\ place' = [place EXCEPT ![publishing[1]] = staged[publishing[1]]]
  /\ staged' = [staged EXCEPT ![publishing[1]] = None]
  /\ publishing' = Tail(publishing) /\ replaced' = <<publishing[1]>> \o replaced /\ step' = "aside"
  /\ UNCHANGED <<before, archive, safety, aside, told, restoreFaults>>

\* The directory with the copies set aside goes; the restore is then recorded in
\* the restored database, whose first version has no table for it.
Published ==
  /\ step = "aside" /\ publishing = <<>>
  /\ Concludes(IF place[Database].version > 1 THEN "restored" ELSE "failed")
  /\ UNCHANGED <<before, place, archive, safety, publishing, replaced, restoreFaults>>

(* The exception handlers: the current destination gets its content back, then *)
(* the replaced ones, in reverse.                                              *)
PutBack(d) ==
  /\ place' = [place EXCEPT ![d] = aside[d]]
  /\ aside' = [aside EXCEPT ![d] = None]

PutBackCurrent ==
  /\ step = "undo"
  /\ IF aside[publishing[1]] # None THEN PutBack(publishing[1]) ELSE UNCHANGED <<place, aside>>
  /\ step' = "rollback"
  /\ UNCHANGED <<before, archive, safety, staged, publishing, replaced, told, restoreFaults>>

RollBackLeavesNew ==
  /\ step = "rollback" /\ replaced # <<>>
  /\ IF aside[replaced[1]] # None THEN PutBack(replaced[1]) ELSE UNCHANGED <<place, aside>>
  /\ replaced' = Tail(replaced)
  /\ UNCHANGED <<before, archive, safety, staged, publishing, step, told, restoreFaults>>

RollBack ==
  /\ step = "rollback" /\ replaced # <<>>
  /\ PutBack(replaced[1]) /\ replaced' = Tail(replaced)
  /\ UNCHANGED <<before, archive, safety, staged, publishing, step, told, restoreFaults>>

RolledBack ==
  /\ step = "rollback" /\ replaced = <<>> /\ Concludes("failed")
  /\ UNCHANGED <<before, place, archive, safety, publishing, replaced, restoreFaults>>

RestoreFails ==
  /\ Fault
  /\ \/ step \in {"idle", "stage"} /\ Concludes("failed")
     \/ step = "aside" /\ publishing # <<>> /\ step' = "rollback" /\ UNCHANGED <<aside, staged, told>>
     \/ step = "aside" /\ publishing = <<>> /\ Concludes("failed")
     \/ step = "put" /\ step' = "undo" /\ UNCHANGED <<aside, staged, told>>
     \/ step = "undo" /\ step' = "rollback" /\ UNCHANGED <<aside, staged, told>>
     \/ step = "rollback" /\ replaced # <<>> /\ Concludes("failed")
  /\ \/ UNCHANGED place
     \/ step = "rollback" /\ place' = [place EXCEPT ![replaced[1]] = None]    \* removed, not put back
  /\ UNCHANGED <<before, archive, safety, publishing, replaced>>

--------------------------------------------------------------------------------
(* The window closes after a restore, whatever came of it, or the process ends *)
(* in the middle and leaves its temporary directory behind.                    *)
RestoreIsCut ==
  /\ Fault /\ step \in {"stage", "aside", "put", "undo", "rollback", "columns", "version"}
  /\ step' = "ended"
  /\ UNCHANGED <<before, place, archive, safety, aside, staged, publishing, replaced, told>>

(* The next start: bundled defaults fill what is missing, a database is        *)
(* created or, with its copy beside it, brought to the current version.        *)
Restart ==
  /\ step = "ended" /\ told' = None
  /\ place' = [d \in Destinations |-> IF place[d] = None THEN Fresh ELSE place[d]]
  /\ step' = CASE place'[Database].version = Current -> "running"
               [] place'[Database].version = 0       -> "version"
               [] OTHER                              -> "columns"
  /\ UNCHANGED <<before, archive, safety, aside, staged, publishing, replaced, restoreFaults>>

AddColumns ==
  /\ step = "columns" /\ step' = "version"
  /\ place' = [place EXCEPT ![Database].title = TRUE]
  /\ UNCHANGED <<before, archive, safety, aside, staged, publishing, replaced, told, restoreFaults>>

RecordVersion ==
  /\ step = "version" /\ step' = "running"
  /\ place' = [place EXCEPT ![Database].version = Current]
  /\ UNCHANGED <<before, archive, safety, aside, staged, publishing, replaced, told, restoreFaults>>

BackupNext ==
  \/ BackUp \/ StageArchive \/ MoveAside \/ PutInPlace \/ Published
  \/ PutBackCurrent \/ RollBack \/ RolledBack
  \/ RestoreFails \/ RestoreIsCut
  \/ Restart \/ AddColumns \/ RecordVersion

BackupSpec == BackupInit /\ [][BackupNext]_restoreVars

--------------------------------------------------------------------------------
(* A restore replaces everything the archive holds or, with one failing call,  *)
(* nothing; whatever fails and wherever the process ends, what was there is    *)
(* still in place, set aside or in the safety backup, and the next start has   *)
(* a database of the current schema.  backup_service.py:116-186,               *)
(* migrations.py:34-80.                                                        *)
ApplicationDataSurvives ==
  /\ \A d \in Destinations :
       before[d] # None => \/ before[d] \in {place[d], aside[d]}
                           \/ safety # None /\ safety[d] = before[d]
  /\ step = "ended" /\ told # None /\ (restoreFaults <= 1 \/ told = "restored") =>
       \/ place = before /\ told = "failed"
       \/ place = [d \in Destinations |-> IF archive[d] # None THEN archive[d] ELSE before[d]]
  /\ step = "running" => place[Database].title /\ place[Database].version = Current
================================================================================
