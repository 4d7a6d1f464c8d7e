------------------------------ MODULE AtRestVault ------------------------------
(* The passphrase vault of the Basic program (at_rest.py), the protected       *)
(* reports kept with it (basic_artifacts.py) and the conversion of a tree of   *)
(* legacy files.  Two windows of the program may run on the same data; a       *)
(* process may end between any two operations on files.                        *)
EXTENDS Absence, Integers, FiniteSets

CONSTANTS
    Processes, Phrases,
    Files,          \* the legacy files of the tree
    Reports,        \* names of protected reports, kept outside of the tree
    MaxTemporaries, \* bound on the staging files that conversions create
    MaxCrashes      \* bound on process ends and failing writes

VARIABLES
    meta,          \* the metadata file: None, Torn, or the key it verifies
    disk,          \* the content of every file, protected report and staging file
    clear,         \* the readable copy of every report
    drawn,         \* how many staging files were created in the tree so far
    pc, key,       \* per process: its step, the vault it has open
    writing, ownFile, \* per process: the place being written, its staging file
    todo,          \* per process: the paths its conversion has listed and not yet seen
    conversion,    \* per process: None, "running", "done", "refused" or "failed"
    overlapped,    \* history: a conversion was begun while another one ran
    crashes
vaultVars == <<meta, disk, clear, drawn, pc, key, writing, ownFile, todo, conversion, overlapped, crashes>>
convertVars == <<drawn, ownFile, todo, conversion, overlapped>>

\* A key is what a passphrase and the salt drawn by one process derive.
Keys           == Processes \X Phrases
Plain          == [kind |-> "plain"]
Cipher(k, as)  == [kind |-> "cipher", key |-> k, as |-> as]
\* A staging file before, and after, the magic bytes of a ciphertext are in it.
Blank          == [kind |-> "empty"]
Cut            == [kind |-> "cut"]

\* A staging file has a name of its own: a random part, never drawn twice.
Temporaries    == 1 .. MaxTemporaries
Tree           == Files \cup Temporaries

VaultInit ==
  /\ meta = None /\ drawn = 0 /\ overlapped = FALSE /\ crashes = 0
  /\ disk = [x \in Tree \cup Reports |-> IF x \in Files THEN Plain ELSE None]
  /\ clear = [r \in Reports |-> None]
  /\ pc = [p \in Processes |-> "closed"] /\ key = [p \in Processes |-> None]
  /\ writing = [p \in Processes |-> None] /\ ownFile = [p \in Processes |-> None]
  /\ todo = [p \in Processes |-> {}] /\ conversion = [p \in Processes |-> None]

(* What the values stand for is told apart; no file of the tree and no report  *)
(* has the name of a staging file.                                             *)
VaultAssumption ==
  /\ None \notin {Torn, "running", "done"} /\ None \notin Keys /\ Torn \notin Keys
  /\ MaxTemporaries \in Nat /\ (Files \cup Reports) \cap Nat = {} /\ Files \cap Reports = {}
  /\ None \notin Nat \cup Files \cup Reports
  /\ None \notin {Plain, Blank, Cut} /\ \A k \in Keys, x \in Tree \cup Reports : Cipher(k, x) # None

Goto(p, step) == pc' = [pc EXCEPT ![p] = step]

--------------------------------------------------------------------------------
(* open: read what is there, or create it exclusively. *)
Ask(p) ==
  /\ pc[p] = "closed"
  /\ \E phrase \in Phrases : key' = [key EXCEPT ![p] = <<p, phrase>>]
  /\ Goto(p, IF meta = None THEN "create" ELSE "read")
  /\ UNCHANGED <<meta, disk, clear, writing, convertVars, crashes>>

ReadMetadata(p) ==
  /\ pc[p] = "read"
  /\ IF meta \in Keys /\ meta[2] = key[p][2]
     THEN Goto(p, "open") /\ key' = [key EXCEPT ![p] = meta]
     ELSE Goto(p, "closed") /\ key' = [key EXCEPT ![p] = None]
  /\ UNCHANGED <<meta, disk, clear, writing, convertVars, crashes>>

CreateOverwriting(p) ==
  /\ pc[p] = "create"
  /\ meta' = Torn /\ Goto(p, "fill")
  /\ UNCHANGED <<disk, clear, key, writing, convertVars, crashes>>

CreateMetadata(p) ==
  /\ pc[p] = "create"
  /\ IF meta = None THEN meta' = Torn /\ Goto(p, "fill") ELSE Goto(p, "read") /\ UNCHANGED meta
  /\ UNCHANGED <<disk, clear, key, writing, convertVars, crashes>>

FillMetadata(p) ==
  /\ pc[p] = "fill" /\ meta' = key[p] /\ Goto(p, "open")
  /\ UNCHANGED <<disk, clear, key, writing, convertVars, crashes>>

--------------------------------------------------------------------------------
(* write_file: a staging file is filled.  A conversion renames it over the     *)
(* file; a new report is linked to its name, unless something has that name.   *)
(* The staging file of a conversion lies in the tree, where other conversions  *)
(* list and replace it: the writer fills the file it has opened, and renames   *)
(* whatever has its name by then.                                              *)
Converts(p) == pc[p] = "open" /\ conversion[p] = "running"
Free(p)     == pc[p] = "open" /\ conversion[p] # "running"

WriteSome(p) ==
  /\ pc[p] = "staging" /\ ownFile[p] # None /\ disk[ownFile[p]] = Blank
  /\ disk' = [disk EXCEPT ![ownFile[p]] = Cut]
  /\ UNCHANGED <<meta, clear, pc, key, writing, convertVars, crashes>>

Stage(p) ==
  /\ pc[p] = "staging" /\ Goto(p, "staged")
  /\ disk' = IF ownFile[p] # None /\ disk[ownFile[p]] \in {Blank, Cut}
             THEN [disk EXCEPT ![ownFile[p]] = Cipher(key[p], writing[p])] ELSE disk
  /\ UNCHANGED <<meta, clear, key, writing, convertVars, crashes>>

Publish(p) ==
  /\ pc[p] = "staged" /\ Goto(p, "open")
  /\ disk' = IF ownFile[p] # None
             THEN [disk EXCEPT ![writing[p]] = disk[ownFile[p]], ![ownFile[p]] = None]
             ELSE [disk EXCEPT ![writing[p]] = IF @ = None THEN Cipher(key[p], writing[p]) ELSE @]
  /\ writing' = [writing EXCEPT ![p] = None] /\ ownFile' = [ownFile EXCEPT ![p] = None]
  /\ UNCHANGED <<meta, clear, drawn, key, todo, conversion, overlapped, crashes>>

SaveReport(p, r) ==
  /\ Free(p) /\ disk[r] = None /\ clear[r] = None
  /\ writing' = [writing EXCEPT ![p] = r] /\ Goto(p, "staging")
  /\ UNCHANGED <<meta, disk, clear, key, convertVars, crashes>>

(* export: the readable copy is created exclusively, then written. *)
BeginExport(p, r) ==
  /\ Free(p) /\ disk[r] = Cipher(key[p], r) /\ clear[r] = None
  /\ clear' = [clear EXCEPT ![r] = Torn]
  /\ writing' = [writing EXCEPT ![p] = r] /\ Goto(p, "export")
  /\ UNCHANGED <<meta, disk, key, convertVars, crashes>>

EndExport(p) ==
  /\ pc[p] = "export" /\ clear' = [clear EXCEPT ![writing[p]] = Plain]
  /\ writing' = [writing EXCEPT ![p] = None] /\ Goto(p, "open")
  /\ UNCHANGED <<meta, disk, key, convertVars, crashes>>

--------------------------------------------------------------------------------
(* encrypt_tree: what is under the root at the beginning is listed, staging    *)
(* files included, whoever they belong to; each path is converted or must      *)
(* prove to be converted.  Nothing keeps a second process from doing the same. *)
BeginConversion(p) ==
  /\ Free(p)
  /\ conversion' = [conversion EXCEPT ![p] = "running"]
  /\ todo' = [todo EXCEPT ![p] = {x \in Tree : disk[x] # None}]
  /\ overlapped' = (overlapped \/ \E q \in Processes : conversion[q] = "running")
  /\ UNCHANGED <<meta, disk, clear, drawn, pc, key, writing, ownFile, crashes>>

\* Without the magic bytes it is a legacy file: so is an unfilled staging file.
ConvertFile(p, x) ==
  /\ Converts(p) /\ x \in todo[p] /\ disk[x] \in {Plain, Blank}
  /\ drawn < MaxTemporaries /\ drawn' = drawn + 1
  /\ ownFile' = [ownFile EXCEPT ![p] = drawn'] /\ disk' = [disk EXCEPT ![drawn'] = Blank]
  /\ todo' = [todo EXCEPT ![p] = @ \ {x}]
  /\ writing' = [writing EXCEPT ![p] = x] /\ Goto(p, "staging")
  /\ UNCHANGED <<meta, clear, key, conversion, overlapped, crashes>>

Leave(p, x, outcome) ==
  /\ conversion' = [conversion EXCEPT ![p] = outcome]
  /\ todo' = [todo EXCEPT ![p] = IF outcome = "running" THEN @ \ {x} ELSE {}]
  /\ UNCHANGED <<meta, disk, clear, drawn, pc, key, writing, ownFile, overlapped, crashes>>

\* A path that has gone is passed over, or goes between the question and the read.
CheckFile(p, x) ==
  /\ Converts(p) /\ x \in todo[p]
  /\ \/ disk[x] = Cipher(key[p], x) /\ Leave(p, x, "running")
     \/ disk[x] = None /\ \E outcome \in {"running", "failed"} : Leave(p, x, outcome)
     \/ disk[x] \notin {None, Plain, Blank, Cipher(key[p], x)} /\ Leave(p, x, "refused")

EndConversion(p) ==
  /\ Converts(p) /\ todo[p] = {} /\ conversion' = [conversion EXCEPT ![p] = "done"]
  /\ UNCHANGED <<meta, disk, clear, drawn, pc, key, writing, ownFile, todo, overlapped, crashes>>

--------------------------------------------------------------------------------
(* A call fails: what it staged or exported is removed again, short of a half  *)
(* written metadata file.  Or the process ends, and nothing is removed.        *)
MayCrash == crashes < MaxCrashes /\ crashes' = crashes + 1

Drop(p, outcome) ==
  /\ conversion' = [conversion EXCEPT ![p] = IF @ = "running" THEN outcome ELSE @]
  /\ todo' = [todo EXCEPT ![p] = {}]
  /\ writing' = [writing EXCEPT ![p] = None] /\ ownFile' = [ownFile EXCEPT ![p] = None]
  /\ UNCHANGED <<meta, drawn, overlapped>>

CallFails(p) ==
  /\ MayCrash /\ pc[p] \in {"fill", "staging", "staged", "export"}
  /\ Goto(p, IF pc[p] = "fill" THEN "closed" ELSE "open")
  /\ clear' = IF pc[p] = "export" THEN [clear EXCEPT ![writing[p]] = None] ELSE clear
  /\ disk' = IF ownFile[p] # None THEN [disk EXCEPT ![ownFile[p]] = None] ELSE disk
  /\ Drop(p, "failed") /\ UNCHANGED key

ProcessEnds(p) ==
  /\ MayCrash /\ pc[p] # "closed" /\ Goto(p, "closed")
  /\ key' = [key EXCEPT ![p] = None]
  /\ Drop(p, None) /\ UNCHANGED <<disk, clear>>

VaultNext ==
  \E p \in Processes :
    \/ Ask(p) \/ ReadMetadata(p) \/ CreateMetadata(p) \/ FillMetadata(p)
    \/ WriteSome(p) \/ Stage(p) \/ Publish(p)
    \/ \E r \in Reports : SaveReport(p, r) \/ BeginExport(p, r)
    \/ EndExport(p)
    \/ BeginConversion(p) \/ EndConversion(p)
    \/ \E x \in Tree : ConvertFile(p, x) \/ CheckFile(p, x)
    \/ CallFails(p) \/ ProcessEnds(p)

VaultSpec == VaultInit /\ [][VaultNext]_vaultVars

--------------------------------------------------------------------------------
(* Whatever is interrupted and whoever else runs, every report is published    *)
(* whole under the one key that the metadata verifies, no window works with a  *)
(* key of its own, and a conversion that ends leaves no file in clear; as long *)
(* as no two conversions have run at once, every file of the tree holds its    *)
(* data in full, in clear or under that key.  at_rest.py:40-153.               *)
VaultDataIsRecoverable ==
  /\ \A r \in Reports : disk[r] # None => meta \in Keys /\ disk[r] = Cipher(meta, r)
  /\ \A p \in Processes : pc[p] \in {"open", "staging", "staged", "export"} => key[p] = meta
  /\ \A p \in Processes : conversion[p] = "done" => \A f \in Files : disk[f] # Plain
  /\ ~ overlapped => \A f \in Files : disk[f] = Plain \/ (meta \in Keys /\ disk[f] = Cipher(meta, f))

(* A conversion is "safely resumable after interruption" (at_rest.py:135):     *)
(* run alone, it is not refused because of what an interrupted one has left.   *)
ConversionIsResumable == ~ overlapped => \A p \in Processes : conversion[p] # "refused"

(* write_file is to "publish ciphertext atomically" (at_rest.py:114): what has *)
(* the name of a file is that file, in clear or encrypted, however many        *)
(* processes convert the tree.                                                 *)
FilesStayThemselves ==
  \A f \in Files : disk[f] = Plain \/ (meta \in Keys /\ disk[f] = Cipher(meta, f))
================================================================================
