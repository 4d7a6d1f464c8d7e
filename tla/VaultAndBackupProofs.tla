-------------------------- MODULE VaultAndBackupProofs --------------------------
(* Theorems about the two components that keep the data of the application:    *)
(* AtRestVault, for any set of processes on the same data, any tree, any set   *)
(* of reports and any number of crashes and failing calls; and BackupRestore,  *)
(* for any finite set of configured directories, any archive, any schema       *)
(* version and any number of failing calls and ends of the process.            *)
EXTENDS AtRestVault, BackupRestore, FiniteSetTheorems, SequenceTheorems, TLAPS

--------------------------------------------------------------------------------
(* THE VAULT.  The inductive invariant.                                        *)

Working   == {"open", "staging", "staged", "export"}
Staging   == {"staging", "staged"}
Modes     == {"closed", "create", "read", "fill"} \cup Working
Stores    == Tree \cup Reports
Ciphers   == {Cipher(k, x) : k \in Keys, x \in Stores}
Contained == {None, Plain, Blank, Cut} \cup Ciphers

(* Types of the vault, its files and the processes.                            *)
VaultTypeOK ==
  /\ meta \in Keys \cup {None, Torn}
  /\ disk \in [Stores -> Contained]
  /\ clear \in [Reports -> {None, Torn, Plain}]
  /\ drawn \in 0 .. MaxTemporaries
  /\ pc \in [Processes -> Modes]
  /\ key \in [Processes -> Keys \cup {None}]
  /\ writing \in [Processes -> Stores \cup {None}]
  /\ ownFile \in [Processes -> Temporaries \cup {None}]
  /\ todo \in [Processes -> SUBSET Tree]
  /\ conversion \in [Processes -> {None, "running", "done", "refused", "failed"}]
  /\ overlapped \in BOOLEAN
  /\ crashes \in Nat

(* The metadata file is filled by the one process that created it; a window    *)
(* works only with the key it verifies.                                        *)
KeyInv ==
  /\ \A p \in Processes :
       /\ pc[p] \in {"create", "read", "fill"} => key[p] \in Keys
       /\ pc[p] = "fill" => meta = Torn
       /\ pc[p] \in Working => meta \in Keys /\ key[p] = meta
  /\ \A p, q \in Processes : pc[p] = "fill" /\ pc[q] = "fill" => p = q

(* A place is being written by a process that knows which; only a conversion   *)
(* has a staging file in the tree, and it is its own.                          *)
JobInv ==
  /\ \A p \in Processes :
       /\ pc[p] \in Staging => writing[p] \in Stores
       /\ pc[p] \in Staging /\ ownFile[p] = None => writing[p] \in Reports
       /\ pc[p] = "export" => writing[p] \in Reports
       /\ ownFile[p] # None => /\ pc[p] \in Staging /\ conversion[p] = "running"
                               /\ ownFile[p] <= drawn /\ writing[p] \in Tree \ {ownFile[p]}
       /\ writing[p] \in Temporaries => writing[p] <= drawn
       /\ \A t \in todo[p] \cap Temporaries : t <= drawn
  /\ \A p, q \in Processes : ownFile[p] # None /\ ownFile[p] = ownFile[q] => p = q

(* A report is whole, under that key; no staging file is ever in clear, and    *)
(* there is none that was not drawn.                                           *)
DataInv ==
  /\ \A r \in Reports : disk[r] # None => meta \in Keys /\ disk[r] = Cipher(meta, r)
  /\ \A t \in Temporaries : disk[t] # Plain /\ (t > drawn => disk[t] = None)

(* A conversion forgets no file: one in clear is still listed, or is the one   *)
(* being written.                                                              *)
ConversionInv ==
  \A p \in Processes :
    /\ conversion[p] = "running" =>
         \A f \in Files : disk[f] = Plain =>
           \/ f \in todo[p]
           \/ pc[p] \in Staging /\ writing[p] = f
    /\ conversion[p] = "done" => \A f \in Files : disk[f] # Plain

(* Run alone, a conversion finds its staging file as it left it.               *)
AloneInv ==
  ~ overlapped =>
    /\ \A p, q \in Processes : conversion[p] = "running" /\ conversion[q] = "running" => p = q
    /\ \A p \in Processes : ownFile[p] # None =>
         /\ pc[p] = "staging" => disk[ownFile[p]] \in {Blank, Cut}
         /\ pc[p] = "staged" => disk[ownFile[p]] = Cipher(key[p], writing[p])
    /\ \A f \in Files : disk[f] = Plain \/ (meta \in Keys /\ disk[f] = Cipher(meta, f))

VaultInv == VaultTypeOK /\ KeyInv /\ JobInv /\ DataInv /\ ConversionInv /\ AloneInv

--------------------------------------------------------------------------------
(* The names of the places, and what a place holds, are told apart.            *)
LEMMA PlacesDiffer ==
  ASSUME VaultAssumption
  PROVE  /\ None \notin Stores /\ Temporaries \subseteq Nat /\ MaxTemporaries \in Nat
         /\ Files \cap Temporaries = {} /\ Reports \cap Temporaries = {} /\ Files \cap Reports = {}
         /\ None \notin {Plain, Blank, Cut} /\ Plain \notin {Blank, Cut} /\ Blank # Cut
         /\ \A k \in Keys, x \in Stores :
              Cipher(k, x) \in Ciphers /\ Cipher(k, x) \notin {None, Plain, Blank, Cut}
<1>1. \A k, x : Cipher(k, x) \notin {Plain, Blank, Cut}
  BY DEF Cipher, Plain, Blank, Cut
<1>2. \A k \in Keys, x \in Stores : Cipher(k, x) \in Ciphers /\ Cipher(k, x) # None
  BY DEF VaultAssumption, Stores, Ciphers
<1>3. MaxTemporaries \in Nat /\ None \notin Nat /\ None \notin Files \cup Reports
  BY DEF VaultAssumption
<1>4. None \notin Stores /\ Temporaries \subseteq Nat /\ None \notin Temporaries
  BY <1>3 DEF Stores, Tree, Temporaries
<1>5. Files \cap Temporaries = {} /\ Reports \cap Temporaries = {} /\ Files \cap Reports = {}
  <2>1. (Files \cup Reports) \cap Nat = {} /\ Files \cap Reports = {}
    BY DEF VaultAssumption
  <2>2. QED
    BY <1>4, <2>1
<1>6. None \notin {Plain, Blank, Cut}
  BY DEF VaultAssumption
<1>7. Plain \notin {Blank, Cut} /\ Blank # Cut
  BY DEF Plain, Blank, Cut
<1>8. QED
  BY <1>1, <1>2, <1>3, <1>4, <1>5, <1>6, <1>7

(* The invariant holds initially and is preserved by every step                *)

LEMMA InitVaultInv ==
  ASSUME VaultAssumption, VaultInit
  PROVE  VaultInv
<1> USE PlacesDiffer DEF VaultInit
<1>1. disk \in [Stores -> Contained]
  BY DEF Stores, Contained
<1>2. pc \in [Processes -> Modes] /\ \A p \in Processes : pc[p] = "closed"
  BY DEF Modes
<1>3. VaultTypeOK
  <2>1. meta \in Keys \cup {None, Torn} /\ drawn \in 0 .. MaxTemporaries /\ crashes \in Nat
    OBVIOUS
  <2>0. overlapped \in BOOLEAN
    BY Zenon
  <2>2. clear \in [Reports -> {None, Torn, Plain}] /\ key \in [Processes -> Keys \cup {None}]
    OBVIOUS
  <2>3. writing \in [Processes -> Stores \cup {None}] /\ ownFile \in [Processes -> Temporaries \cup {None}]
    OBVIOUS
  <2>4. /\ todo \in [Processes -> SUBSET Tree]
        /\ conversion \in [Processes -> {None, "running", "done", "refused", "failed"}]
    OBVIOUS
  <2>5. QED
    BY <1>1, <1>2, <2>0, <2>1, <2>2, <2>3, <2>4 DEF VaultTypeOK
<1>4. KeyInv
  BY <1>2 DEF KeyInv, Working
<1>5. JobInv
  <2>1. \A p \in Processes : ownFile[p] = None /\ writing[p] = None /\ todo[p] = {}
    OBVIOUS
  <2>2. None \notin Temporaries
    BY DEF Stores, Tree
  <2>3. QED
    BY <1>2, <2>1, <2>2 DEF JobInv, Staging
<1>6. DataInv
  BY DEF DataInv, Tree
<1>7. ConversionInv /\ AloneInv
  BY DEF ConversionInv, AloneInv, VaultAssumption, Tree
<1>8. QED
  BY <1>3, <1>4, <1>5, <1>6, <1>7 DEF VaultInv

(* Opening the vault touches neither the data nor the conversions, and a       *)
(* report is written by a process that converts nothing.                       *)
Opens(p)   == Ask(p) \/ ReadMetadata(p) \/ CreateMetadata(p) \/ FillMetadata(p)
Exports(p) == EndExport(p) \/ \E r \in Reports : SaveReport(p, r) \/ BeginExport(p, r)
Begins(p)  == BeginConversion(p) \/ EndConversion(p)
Fills(p)   == WriteSome(p) \/ Stage(p)
Takes(p)   == \E x \in Tree : ConvertFile(p, x)
Checks(p)  == \E x \in Tree : CheckFile(p, x)
Stops(p)   == CallFails(p) \/ ProcessEnds(p)

LEMMA VaultSteps ==
  ASSUME VaultNext
  PROVE  \E p \in Processes :
           Opens(p) \/ Exports(p) \/ Begins(p) \/ Fills(p) \/ Takes(p) \/ Checks(p) \/ Publish(p) \/ Stops(p)
BY DEF VaultNext, Opens, Exports, Begins, Fills, Takes, Checks, Stops

LEMMA VaultTypeStep ==
  ASSUME VaultAssumption, VaultInv, [VaultNext]_vaultVars
  PROVE  VaultTypeOK'
<1> USE DEF VaultInv, VaultTypeOK, Goto, Modes, Working, convertVars
<1>1. CASE UNCHANGED vaultVars
  BY <1>1 DEF vaultVars
<1>2. ASSUME NEW p \in Processes, Opens(p)
      PROVE  VaultTypeOK'
  BY <1>2 DEF Opens, Ask, ReadMetadata, CreateMetadata, FillMetadata, KeyInv, Keys
<1>3. ASSUME NEW p \in Processes, Exports(p)
      PROVE  VaultTypeOK'
  BY <1>3 DEF Exports, EndExport, SaveReport, BeginExport, Stores
<1>4. ASSUME NEW p \in Processes, Begins(p)
      PROVE  VaultTypeOK'
  BY <1>4 DEF Begins, BeginConversion, EndConversion, Stores
<1>5. ASSUME NEW p \in Processes, Fills(p)
      PROVE  VaultTypeOK'
  <2>1. CASE WriteSome(p)
    <3>1. disk' \in [Stores -> Contained]
      BY <2>1 DEF WriteSome, Contained
    <3>2. QED
      BY <2>1, <3>1 DEF WriteSome
  <2>2. CASE Stage(p)
    <3>1. writing[p] \in Stores /\ key[p] \in Keys
      BY <2>2 DEF Stage, JobInv, KeyInv, Staging
    <3>2. Cipher(key[p], writing[p]) \in Contained
      BY <3>1 DEF Contained, Ciphers
    <3>3. disk' \in [Stores -> Contained]
      BY <2>2, <3>2 DEF Stage
    <3>4. QED
      BY <2>2, <3>3 DEF Stage
  <2>3. QED
    BY <1>5, <2>1, <2>2 DEF Fills
<1>6. ASSUME NEW p \in Processes, Takes(p)
      PROVE  VaultTypeOK'
  <2>1. PICK x \in Tree : ConvertFile(p, x)
    BY <1>6 DEF Takes
  <2>2. drawn' \in 0 .. MaxTemporaries /\ drawn' \in Temporaries
    BY <2>1, PlacesDiffer DEF ConvertFile, Temporaries
  <2>3. disk' \in [Stores -> Contained]
    BY <2>1 DEF ConvertFile, Contained
  <2>4. ownFile' \in [Processes -> Temporaries \cup {None}] /\ todo' \in [Processes -> SUBSET Tree]
    BY <2>1, <2>2 DEF ConvertFile
  <2>5. writing' \in [Processes -> Stores \cup {None}]
    BY <2>1 DEF ConvertFile, Stores
  <2>6. QED
    BY <2>1, <2>2, <2>3, <2>4, <2>5 DEF ConvertFile
<1>7. ASSUME NEW p \in Processes, Checks(p)
      PROVE  VaultTypeOK'
  BY <1>7 DEF Checks, CheckFile, Leave
<1>8. ASSUME NEW p \in Processes, Publish(p)
      PROVE  VaultTypeOK'
  <2>1. writing[p] \in Stores /\ key[p] \in Keys
    BY <1>8 DEF Publish, JobInv, KeyInv, Staging
  <2>2. Cipher(key[p], writing[p]) \in Contained /\ None \in Contained
    BY <2>1 DEF Contained, Ciphers
  <2>3. ownFile[p] # None => disk[ownFile[p]] \in Contained
    BY DEF Stores, Tree
  <2>4. disk' \in [Stores -> Contained]
    BY <1>8, <2>2, <2>3 DEF Publish
  <2>5. QED
    BY <1>8, <2>4 DEF Publish
<1>9. ASSUME NEW p \in Processes, Stops(p)
      PROVE  VaultTypeOK'
  <2>1. clear' \in [Reports -> {None, Torn, Plain}]
    BY <1>9 DEF Stops, CallFails, ProcessEnds
  <2>2. disk' \in [Stores -> Contained]
    BY <1>9 DEF Stops, CallFails, ProcessEnds, Contained
  <2>3. QED
    BY <1>9, <2>1, <2>2 DEF Stops, CallFails, ProcessEnds, MayCrash, Drop
<1>10. QED
  BY <1>1, <1>2, <1>3, <1>4, <1>5, <1>6, <1>7, <1>8, <1>9, VaultSteps

(* Creation is exclusive, so the file that is filled is the process's own, and *)
(* nobody works while it is not filled.                                        *)
LEMMA KeyStep ==
  ASSUME VaultAssumption, VaultInv, [VaultNext]_vaultVars
  PROVE  KeyInv'
<1> USE DEF VaultInv, VaultTypeOK, KeyInv, Goto, Working
<1>1. CASE UNCHANGED vaultVars
  BY <1>1 DEF vaultVars
<1>2. ASSUME NEW p \in Processes, Ask(p)
      PROVE  KeyInv'
  BY <1>2 DEF Ask, Keys
<1>3. ASSUME NEW p \in Processes, ReadMetadata(p)
      PROVE  KeyInv'
  BY <1>3 DEF ReadMetadata
<1>4. ASSUME NEW p \in Processes, CreateMetadata(p)
      PROVE  KeyInv'
  BY <1>4 DEF CreateMetadata, VaultAssumption
<1>5. ASSUME NEW p \in Processes, FillMetadata(p)
      PROVE  KeyInv'
  BY <1>5 DEF FillMetadata, VaultAssumption
<1>6. ASSUME NEW p \in Processes, Publish(p) \/ Fills(p) \/ Exports(p)
      PROVE  KeyInv'
  <2>1. CASE Publish(p)
    BY <2>1 DEF Publish
  <2>2. CASE Fills(p)
    BY <2>2 DEF Fills, WriteSome, Stage
  <2>3. CASE Exports(p)
    BY <2>3 DEF Exports, EndExport, SaveReport, BeginExport, Free
  <2>4. QED
    BY <1>6, <2>1, <2>2, <2>3
<1>7. ASSUME NEW p \in Processes, Begins(p) \/ Takes(p) \/ Checks(p)
      PROVE  KeyInv'
  BY <1>7 DEF Begins, BeginConversion, EndConversion, Takes, ConvertFile, Converts, Checks, CheckFile, Leave
<1>8. ASSUME NEW p \in Processes, CallFails(p)
      PROVE  KeyInv'
  BY <1>8 DEF CallFails, Drop
<1>9. ASSUME NEW p \in Processes, ProcessEnds(p)
      PROVE  KeyInv'
  BY <1>9 DEF ProcessEnds, Drop
<1>10. QED
  BY <1>1, <1>2, <1>3, <1>4, <1>5, <1>6, <1>7, <1>8, <1>9, VaultSteps DEF Opens, Stops

(* A key, once it is verified by the metadata, is never replaced.              *)
LEMMA MetadataStays ==
  ASSUME VaultAssumption, VaultInv, [VaultNext]_vaultVars
  PROVE  meta \in Keys => meta' = meta
<1> USE DEF VaultInv, KeyInv
<1>1. ASSUME NEW p \in Processes, CreateMetadata(p)
      PROVE  meta \in Keys => meta' = meta
  BY <1>1 DEF CreateMetadata, VaultAssumption
<1>2. ASSUME NEW p \in Processes, FillMetadata(p)
      PROVE  meta \in Keys => meta' = meta
  BY <1>2 DEF FillMetadata, VaultAssumption
<1>3. CASE UNCHANGED meta
  BY <1>3
<1>4. QED
  BY <1>1, <1>2, <1>3
     DEF VaultNext, vaultVars, Ask, ReadMetadata, Publish, WriteSome, Stage, SaveReport, BeginExport,
         EndExport, BeginConversion, EndConversion, ConvertFile, CheckFile, Leave, CallFails, ProcessEnds, Drop

(* A staging file is drawn with a name that no path in sight has.              *)
LEMMA JobStep ==
  ASSUME VaultAssumption, VaultInv, [VaultNext]_vaultVars
  PROVE  JobInv'
<1> USE PlacesDiffer DEF VaultInv, VaultTypeOK, JobInv, Goto, Staging, convertVars
<1>1. CASE UNCHANGED vaultVars
  BY <1>1 DEF vaultVars
<1>2. ASSUME NEW p \in Processes, Opens(p)
      PROVE  JobInv'
  BY <1>2 DEF Opens, Ask, ReadMetadata, CreateMetadata, FillMetadata
<1>3. ASSUME NEW p \in Processes, Exports(p)
      PROVE  JobInv'
  <2>1. /\ UNCHANGED convertVars /\ pc[p] \notin Staging
        /\ \A q \in Processes : q # p => pc'[q] = pc[q] /\ writing'[q] = writing[q]
    BY <1>3 DEF Exports, EndExport, SaveReport, BeginExport, Free
  <2>2. writing'[p] \in Reports \/ (writing'[p] = None /\ pc'[p] = "open")
    BY <1>3 DEF Exports, EndExport, SaveReport, BeginExport
  <2>3. ownFile[p] = None /\ None \notin Temporaries /\ Reports \subseteq Stores
    BY <2>1 DEF Stores, Tree
  <2>4. QED
    BY <2>1, <2>2, <2>3
<1>4. ASSUME NEW p \in Processes, Begins(p)
      PROVE  JobInv'
  <2>1. \A t \in Temporaries : disk[t] # None => t <= drawn
    BY DEF DataInv, Temporaries
  <2>2. QED
    BY <1>4, <2>1 DEF Begins, BeginConversion, EndConversion, Free, Converts
<1>5. ASSUME NEW p \in Processes, Fills(p)
      PROVE  JobInv'
  BY <1>5 DEF Fills, WriteSome, Stage
<1>6. ASSUME NEW p \in Processes, Takes(p)
      PROVE  JobInv'
  <2>1. PICK x \in Tree : ConvertFile(p, x)
    BY <1>6 DEF Takes
  <2>2. /\ drawn' = drawn + 1 /\ drawn \in Nat /\ x # drawn' /\ drawn' # None
        /\ x \in Temporaries => x <= drawn
    BY <2>1 DEF ConvertFile, Temporaries, Tree, VaultAssumption
  <2>3. \A q \in Processes : ownFile[q] # None => ownFile[q] \in Nat /\ ownFile[q] <= drawn /\ ownFile[q] # drawn'
    BY <2>2
  <2>4. ASSUME NEW q \in Processes
        PROVE  /\ pc'[q] \in Staging => writing'[q] \in Stores
               /\ pc'[q] \in Staging /\ ownFile'[q] = None => writing'[q] \in Reports
               /\ pc'[q] = "export" => writing'[q] \in Reports
               /\ ownFile'[q] # None => /\ pc'[q] \in Staging /\ conversion'[q] = "running"
                                        /\ ownFile'[q] <= drawn' /\ writing'[q] \in Tree \ {ownFile'[q]}
               /\ writing'[q] \in Temporaries => writing'[q] <= drawn'
               /\ \A t \in todo'[q] \cap Temporaries : t <= drawn'
    <3>1. CASE q = p
      BY <2>1, <2>2, <3>1 DEF ConvertFile, Converts, Stores
    <3>2. CASE q # p
      BY <2>1, <2>2, <2>3, <3>2 DEF ConvertFile
    <3>3. QED
      BY <3>1, <3>2
  <2>5. \A q, s \in Processes : ownFile'[q] # None /\ ownFile'[q] = ownFile'[s] => q = s
    BY <2>1, <2>2, <2>3 DEF ConvertFile
  <2>6. QED
    BY <2>4, <2>5
<1>7. ASSUME NEW p \in Processes, Checks(p)
      PROVE  JobInv'
  BY <1>7 DEF Checks, CheckFile, Leave, Converts
<1>8. ASSUME NEW p \in Processes, Publish(p)
      PROVE  JobInv'
  <2>1. /\ writing'[p] = None /\ ownFile'[p] = None /\ pc'[p] = "open"
        /\ drawn' = drawn /\ todo'[p] = todo[p]
    BY <1>8 DEF Publish
  <2>2. None \notin Temporaries
    BY DEF Stores, Tree
  <2>3. \A q \in Processes : q # p => /\ pc'[q] = pc[q] /\ writing'[q] = writing[q] /\ ownFile'[q] = ownFile[q]
                                      /\ todo'[q] = todo[q] /\ conversion'[q] = conversion[q]
    BY <1>8 DEF Publish
  <2>4. QED
    BY <2>1, <2>2, <2>3
<1>9. ASSUME NEW p \in Processes, Stops(p)
      PROVE  JobInv'
  <2>1. /\ writing'[p] = None /\ ownFile'[p] = None /\ pc'[p] \in {"open", "closed"}
        /\ drawn' = drawn /\ todo'[p] = {}
    BY <1>9 DEF Stops, CallFails, ProcessEnds, Drop
  <2>2. None \notin Temporaries
    BY DEF Stores, Tree
  <2>3. \A q \in Processes : q # p => /\ pc'[q] = pc[q] /\ writing'[q] = writing[q] /\ ownFile'[q] = ownFile[q]
                                      /\ todo'[q] = todo[q] /\ conversion'[q] = conversion[q]
    BY <1>9 DEF Stops, CallFails, ProcessEnds, Drop
  <2>4. QED
    BY <2>1, <2>2, <2>3
<1>10. QED
  BY <1>1, <1>2, <1>3, <1>4, <1>5, <1>6, <1>7, <1>8, <1>9, VaultSteps

(* What a step does to a place: a writer seals or drops its staging file, and  *)
(* publishes it, or a report of its own, under the name it writes.             *)
LEMMA DiskMoves ==
  ASSUME VaultAssumption, VaultInv, [VaultNext]_vaultVars, NEW x \in Stores
  PROVE  \/ disk'[x] = disk[x]
         \/ x \in Temporaries /\ x <= drawn' /\ disk'[x] # Plain
         \/ x \in Files /\ disk'[x] # Plain
         \/ x \in Reports /\ disk[x] = None /\ meta \in Keys /\ disk'[x] = Cipher(meta, x)
<1> USE PlacesDiffer DEF VaultInv, VaultTypeOK, Goto, convertVars
<1>1. CASE disk' = disk
  BY <1>1
<1>2. ASSUME NEW p \in Processes, Fills(p), disk' # disk
      PROVE  (x = ownFile[p] /\ disk'[x] # Plain /\ drawn' = drawn) \/ disk'[x] = disk[x]
  <2>1. pc[p] = "staging" /\ writing[p] \in Stores /\ key[p] \in Keys
    BY <1>2 DEF Fills, WriteSome, Stage, JobInv, KeyInv, Staging, Working
  <2>2. QED
    BY <1>2, <2>1 DEF Fills, WriteSome, Stage
<1>3. ASSUME NEW p \in Processes, Takes(p)
      PROVE  (x = drawn' /\ x \in Temporaries /\ disk'[x] # Plain) \/ disk'[x] = disk[x]
  BY <1>3 DEF Takes, ConvertFile, Temporaries
<1>4. ASSUME NEW p \in Processes, Publish(p)
      PROVE  \/ disk'[x] = disk[x]
             \/ x \in Temporaries /\ x <= drawn' /\ disk'[x] # Plain
             \/ x \in Files /\ disk'[x] # Plain
             \/ x \in Reports /\ disk[x] = None /\ meta \in Keys /\ disk'[x] = Cipher(meta, x)
  <2>1. CASE ownFile[p] # None
    <3>1. /\ ownFile[p] \in Temporaries /\ ownFile[p] <= drawn /\ writing[p] \in Tree
          /\ disk[ownFile[p]] # Plain /\ drawn' = drawn
      BY <1>4, <2>1 DEF JobInv, DataInv, Publish
    <3>2. writing[p] \in Temporaries => writing[p] <= drawn
      BY DEF JobInv
    <3>3. disk' = [disk EXCEPT ![writing[p]] = disk[ownFile[p]], ![ownFile[p]] = None]
      BY <1>4, <2>1 DEF Publish
    <3>4. QED
      BY <3>1, <3>2, <3>3 DEF Tree
  <2>2. CASE ownFile[p] = None
    <3>1. writing[p] \in Reports /\ meta \in Keys /\ key[p] = meta
      BY <1>4, <2>2 DEF Publish, JobInv, KeyInv, Staging, Working
    <3>2. QED
      BY <1>4, <2>2, <3>1 DEF Publish
  <2>3. QED
    BY <2>1, <2>2
<1>5. ASSUME NEW p \in Processes, Stops(p)
      PROVE  (x = ownFile[p] /\ disk'[x] = None /\ drawn' = drawn) \/ disk'[x] = disk[x]
  BY <1>5 DEF Stops, CallFails, ProcessEnds, Drop
<1>6. \A p \in Processes : x = ownFile[p] => x \in Temporaries /\ x <= drawn
  BY DEF JobInv
<1>7. ASSUME NEW p \in Processes, Opens(p) \/ Exports(p) \/ Begins(p) \/ Checks(p)
      PROVE  disk' = disk
  BY <1>7 DEF Opens, Ask, ReadMetadata, CreateMetadata, FillMetadata, Exports, EndExport, SaveReport,
         BeginExport, Begins, BeginConversion, EndConversion, Checks, CheckFile, Leave
<1>8. ASSUME NEW p \in Processes, Takes(p)
      PROVE  drawn' \in Nat
  BY <1>8 DEF Takes, ConvertFile
<1>9. CASE UNCHANGED vaultVars
  BY <1>9 DEF vaultVars
<1>10. ASSUME VaultNext
       PROVE  \/ disk'[x] = disk[x]
              \/ x \in Temporaries /\ x <= drawn' /\ disk'[x] # Plain
              \/ x \in Files /\ disk'[x] # Plain
              \/ x \in Reports /\ disk[x] = None /\ meta \in Keys /\ disk'[x] = Cipher(meta, x)
  <2>1. PICK p \in Processes :
           Opens(p) \/ Exports(p) \/ Begins(p) \/ Fills(p) \/ Takes(p) \/ Checks(p) \/ Publish(p) \/ Stops(p)
    BY <1>10, VaultSteps
  <2>2. CASE Fills(p)
    BY <1>1, <1>2, <1>6, <2>2
  <2>3. CASE Takes(p)
    BY <1>3, <1>8, <2>3
  <2>4. CASE Stops(p)
    BY <1>5, <1>6, <2>4
  <2>5. QED
    BY <1>1, <1>4, <1>7, <2>1, <2>2, <2>3, <2>4
<1>11. QED
  BY <1>9, <1>10

LEMMA DrawnGrows ==
  ASSUME VaultAssumption, VaultInv, [VaultNext]_vaultVars
  PROVE  drawn \in Nat /\ drawn' \in Nat /\ drawn <= drawn'
BY PlacesDiffer
   DEF VaultInv, VaultTypeOK, VaultNext, vaultVars, convertVars, Ask, ReadMetadata, CreateMetadata, FillMetadata,
       Publish, WriteSome, Stage, SaveReport, BeginExport, EndExport, BeginConversion, EndConversion,
       ConvertFile, CheckFile, Leave, CallFails, ProcessEnds, Drop

LEMMA DataStep ==
  ASSUME VaultAssumption, VaultInv, [VaultNext]_vaultVars
  PROVE  DataInv'
<1>1. meta \in Keys => meta' = meta
  BY MetadataStays
<1>2. ASSUME NEW r \in Reports, disk'[r] # None
      PROVE  meta' \in Keys /\ disk'[r] = Cipher(meta', r)
  <2>1. \/ disk'[r] = disk[r]
        \/ meta \in Keys /\ disk'[r] = Cipher(meta, r)
    BY DiskMoves, PlacesDiffer DEF Stores
  <2>2. QED
    BY <1>1, <1>2, <2>1 DEF VaultInv, DataInv
<1>3. ASSUME NEW t \in Temporaries
      PROVE  disk'[t] # Plain /\ (t > drawn' => disk'[t] = None)
  <2>1. \/ disk'[t] = disk[t]
        \/ t <= drawn' /\ disk'[t] # Plain
    BY DiskMoves, PlacesDiffer DEF Stores, Tree
  <2>2. disk[t] # Plain /\ (t > drawn => disk[t] = None)
    BY DEF VaultInv, DataInv
  <2>3. t \in Nat
    BY PlacesDiffer
  <2>4. QED
    BY <2>1, <2>2, <2>3, DrawnGrows
<1>4. QED
  BY <1>2, <1>3 DEF DataInv

(* A file that is not in clear never is again.                                 *)
LEMMA NeverClearAgain ==
  ASSUME VaultAssumption, VaultInv, [VaultNext]_vaultVars, NEW f \in Files
  PROVE  disk'[f] = Plain => disk[f] = Plain
BY DiskMoves, PlacesDiffer DEF Stores, Tree

(* A file leaves the list of a conversion only when it is found encrypted, or  *)
(* to be written; an interrupted conversion does not claim to be done.         *)
LEMMA ConversionStep ==
  ASSUME VaultAssumption, VaultInv, [VaultNext]_vaultVars
  PROVE  ConversionInv'
<1> USE PlacesDiffer DEF VaultInv, VaultTypeOK, ConversionInv, Goto, convertVars
<1>0. \A f \in Files : disk'[f] = Plain => disk[f] = Plain
  BY NeverClearAgain
<1>1. CASE UNCHANGED vaultVars
  BY <1>1 DEF vaultVars
<1>2. ASSUME NEW p \in Processes, Opens(p)
      PROVE  ConversionInv'
  BY <1>2 DEF Opens, Ask, ReadMetadata, CreateMetadata, FillMetadata, Staging
<1>3. ASSUME NEW p \in Processes, Exports(p)
      PROVE  ConversionInv'
  BY <1>3 DEF Exports, EndExport, SaveReport, BeginExport, Free, Staging
<1>4. ASSUME NEW p \in Processes, Begins(p)
      PROVE  ConversionInv'
  <2>1. CASE BeginConversion(p)
    BY <2>1 DEF BeginConversion, Tree
  <2>2. CASE EndConversion(p)
    BY <2>2 DEF EndConversion, Converts, Staging
  <2>3. QED
    BY <1>4, <2>1, <2>2 DEF Begins
<1>5. ASSUME NEW p \in Processes, Fills(p)
      PROVE  ConversionInv'
  BY <1>0, <1>5 DEF Fills, WriteSome, Stage, Staging
<1>6. ASSUME NEW p \in Processes, NEW x \in Tree, ConvertFile(p, x)
      PROVE  ConversionInv'
  <2> HIDE PlacesDiffer
  <2>1. \A q \in Processes : q # p => /\ pc'[q] = pc[q] /\ writing'[q] = writing[q]
                                      /\ todo'[q] = todo[q] /\ conversion'[q] = conversion[q]
    BY <1>6 DEF ConvertFile
  <2>2. /\ conversion'[p] = "running" /\ conversion[p] = "running" /\ pc[p] = "open"
        /\ pc'[p] = "staging" /\ writing'[p] = x /\ todo'[p] = todo[p] \ {x}
    BY <1>6 DEF ConvertFile, Converts
  <2>3. QED
    BY <1>0, <2>1, <2>2 DEF Staging
<1>7. ASSUME NEW p \in Processes, NEW x \in Tree, CheckFile(p, x)
      PROVE  ConversionInv'
  <2>1. /\ conversion[p] = "running" /\ pc[p] = "open" /\ UNCHANGED <<disk, pc, writing>>
        /\ conversion'[p] \in {"running", "refused", "failed"}
        /\ conversion'[p] = "running" => todo'[p] = todo[p] \ {x} /\ disk[x] # Plain
    <3>1. disk[x] = Cipher(key[p], x) => disk[x] # Plain
      BY DEF Cipher, Plain
    <3>2. QED
      BY <1>7, <3>1 DEF CheckFile, Converts, Leave
  <2>2. \A q \in Processes : q # p => todo'[q] = todo[q] /\ conversion'[q] = conversion[q]
    BY <1>7 DEF CheckFile, Leave
  <2>3. QED
    BY <2>1, <2>2 DEF Staging
<1>8. ASSUME NEW p \in Processes, Publish(p)
      PROVE  ConversionInv'
  <2>1. pc[p] = "staged" /\ pc' = [pc EXCEPT ![p] = "open"] /\ writing' = [writing EXCEPT ![p] = None]
        /\ UNCHANGED <<todo, conversion>>
    BY <1>8 DEF Publish
  <2>2. ASSUME NEW f \in Files, disk'[f] = Plain
        PROVE  writing[p] # f
    <3>1. writing[p] = f => ownFile[p] # None
      BY <2>1 DEF JobInv, Staging
    <3>2. ownFile[p] # None => disk[ownFile[p]] # Plain
      BY DEF DataInv
    <3>3. ownFile[p] # None /\ writing[p] = f => disk'[f] \in {None, disk[ownFile[p]]}
      BY <1>8 DEF Publish, Stores, Tree
    <3>4. QED
      BY <2>2, <3>1, <3>2, <3>3
  <2>3. QED
    BY <1>0, <2>1, <2>2 DEF Staging
<1>9. ASSUME NEW p \in Processes, Stops(p)
      PROVE  ConversionInv'
  <2>1. conversion'[p] # "running" /\ (conversion'[p] = "done" => conversion[p] = "done")
    BY <1>9, VaultAssumption DEF Stops, CallFails, ProcessEnds, Drop, VaultAssumption
  <2>2. \A q \in Processes : q # p => /\ pc'[q] = pc[q] /\ writing'[q] = writing[q]
                                      /\ todo'[q] = todo[q] /\ conversion'[q] = conversion[q]
    BY <1>9 DEF Stops, CallFails, ProcessEnds, Drop
  <2>3. QED
    BY <1>0, <2>1, <2>2 DEF Staging
<1>10. QED
  BY <1>1, <1>2, <1>3, <1>4, <1>5, <1>6, <1>7, <1>8, <1>9, VaultSteps DEF Takes, Checks

(* Nobody else converts, so nobody else lists or replaces a staging file.      *)
LEMMA AloneStep ==
  ASSUME VaultAssumption, VaultInv, [VaultNext]_vaultVars
  PROVE  AloneInv'
<1> USE PlacesDiffer DEF VaultInv, VaultTypeOK, AloneInv, Goto, convertVars
<1>0. /\ meta \in Keys => meta' = meta
      /\ overlapped => overlapped'
  <2>1. overlapped => overlapped'
    BY DEF VaultNext, vaultVars, Ask, ReadMetadata, CreateMetadata, FillMetadata,
       Publish, WriteSome, Stage, SaveReport, BeginExport, EndExport, BeginConversion, EndConversion,
       ConvertFile, CheckFile, Leave, CallFails, ProcessEnds, Drop
  <2>2. QED
    BY <2>1, MetadataStays
<1> SUFFICES ASSUME ~ overlapped'
             PROVE  AloneInv'
  OBVIOUS
<1>a. /\ \A p, q \in Processes : conversion[p] = "running" /\ conversion[q] = "running" => p = q
      /\ \A p \in Processes : ownFile[p] # None =>
           /\ pc[p] = "staging" => disk[ownFile[p]] \in {Blank, Cut}
           /\ pc[p] = "staged" => disk[ownFile[p]] = Cipher(key[p], writing[p])
      /\ \A f \in Files : disk[f] = Plain \/ (meta \in Keys /\ disk[f] = Cipher(meta, f))
  BY <1>0
<1>b. \A p \in Processes : ownFile[p] # None => pc[p] \in Staging /\ conversion[p] = "running"
  BY DEF JobInv
<1>c. \A p, q \in Processes : ownFile[p] # None /\ ownFile[q] # None => p = q
  BY <1>a, <1>b
<1>1. CASE UNCHANGED vaultVars
  BY <1>1 DEF vaultVars
<1>2. ASSUME NEW p \in Processes, Opens(p)
      PROVE  AloneInv'
  <2>1. /\ UNCHANGED <<disk, writing, convertVars>> /\ pc[p] \notin Staging
        /\ \A q \in Processes : q # p => pc'[q] = pc[q] /\ key'[q] = key[q]
    BY <1>2 DEF Opens, Ask, ReadMetadata, CreateMetadata, FillMetadata, Staging
  <2>2. QED
    BY <1>0, <1>a, <1>b, <2>1
<1>3. ASSUME NEW p \in Processes, Exports(p)
      PROVE  AloneInv'
  <2>1. /\ UNCHANGED <<meta, disk, key, convertVars>> /\ pc[p] \notin Staging
        /\ \A q \in Processes : q # p => pc'[q] = pc[q] /\ writing'[q] = writing[q]
    BY <1>3 DEF Exports, EndExport, SaveReport, BeginExport, Free, Staging
  <2>2. QED
    BY <1>a, <1>b, <2>1
<1>4. ASSUME NEW p \in Processes, Begins(p)
      PROVE  AloneInv'
  <2>1. UNCHANGED <<meta, disk, key, pc, writing, ownFile>>
    BY <1>4 DEF Begins, BeginConversion, EndConversion
  <2>2. \A q, s \in Processes : conversion'[q] = "running" /\ conversion'[s] = "running" => q = s
    <3>1. CASE BeginConversion(p)
      <4>1. \A q \in Processes : conversion[q] # "running"
        BY <3>1 DEF BeginConversion
      <4>2. QED
        BY <3>1, <4>1 DEF BeginConversion
    <3>2. CASE EndConversion(p)
      BY <3>2, <1>a DEF EndConversion
    <3>3. QED
      BY <1>4, <3>1, <3>2 DEF Begins
  <2>3. QED
    BY <1>a, <2>1, <2>2
<1>5. ASSUME NEW p \in Processes, Fills(p)
      PROVE  AloneInv'
  <2>1. /\ UNCHANGED <<meta, key, writing, convertVars>>
        /\ \A q \in Processes : q # p => pc'[q] = pc[q]
    BY <1>5 DEF Fills, WriteSome, Stage
  <2>2. \A f \in Files : disk'[f] = disk[f]
    BY <1>5 DEF Fills, WriteSome, Stage, Stores, Tree
  <2>3. ownFile[p] # None =>
           /\ pc'[p] = "staging" => disk'[ownFile[p]] \in {Blank, Cut}
           /\ pc'[p] = "staged" => disk'[ownFile[p]] = Cipher(key[p], writing[p])
    BY <1>5, <1>a DEF Fills, WriteSome, Stage, Stores, Tree
  <2>4. ASSUME NEW q \in Processes, q # p, ownFile[q] # None
        PROVE  disk' = disk
    BY <1>5, <1>c, <2>4 DEF Fills, WriteSome, Stage
  <2>5. \A q \in Processes : ownFile'[q] # None =>
           /\ pc'[q] = "staging" => disk'[ownFile'[q]] \in {Blank, Cut}
           /\ pc'[q] = "staged" => disk'[ownFile'[q]] = Cipher(key'[q], writing'[q])
    BY <1>a, <2>1, <2>3, <2>4
  <2>6. QED
    BY <1>a, <2>1, <2>2, <2>5
<1>6. ASSUME NEW p \in Processes, NEW x \in Tree, ConvertFile(p, x)
      PROVE  AloneInv'
  <2>1. /\ UNCHANGED <<meta, key, conversion>> /\ conversion[p] = "running" /\ drawn' \in Temporaries
        /\ pc'[p] = "staging" /\ ownFile'[p] = drawn' /\ disk' = [disk EXCEPT ![drawn'] = Blank]
        /\ \A q \in Processes : q # p => pc'[q] = pc[q] /\ ownFile'[q] = ownFile[q]
    BY <1>6 DEF ConvertFile, Converts, Temporaries
  <2>2. disk'[drawn'] = Blank /\ \A f \in Files : disk'[f] = disk[f]
    BY <2>1 DEF Stores, Tree
  <2>3. \A q \in Processes : ownFile'[q] # None => q = p
    BY <1>a, <1>b, <2>1
  <2>4. QED
    BY <1>a, <2>1, <2>2, <2>3
<1>7. ASSUME NEW p \in Processes, NEW x \in Tree, CheckFile(p, x)
      PROVE  AloneInv'
  <2>1. /\ UNCHANGED <<meta, disk, key, pc, writing, ownFile>>
        /\ conversion[p] = "running" /\ \A q \in Processes : q # p => conversion'[q] = conversion[q]
    BY <1>7 DEF CheckFile, Leave, Converts
  <2>2. QED
    BY <1>a, <2>1
<1>8. ASSUME NEW p \in Processes, Publish(p)
      PROVE  AloneInv'
  <2>1. /\ UNCHANGED <<meta, key, conversion>> /\ pc[p] = "staged" /\ pc'[p] = "open" /\ ownFile'[p] = None
        /\ \A q \in Processes : q # p => /\ pc'[q] = pc[q] /\ ownFile'[q] = ownFile[q]
                                         /\ writing'[q] = writing[q]
    BY <1>8 DEF Publish
  <2>2. meta \in Keys /\ key[p] = meta /\ writing[p] \in Stores
    BY <2>1 DEF KeyInv, Working, JobInv, Staging
  <2>3. CASE ownFile[p] # None
    <3>1. disk' = [disk EXCEPT ![writing[p]] = Cipher(meta, writing[p]), ![ownFile[p]] = None]
      BY <1>8, <1>a, <2>1, <2>2, <2>3 DEF Publish
    <3>2. \A f \in Files : disk'[f] = disk[f] \/ disk'[f] = Cipher(meta, f)
      BY <2>3, <3>1 DEF Stores, Tree
    <3>3. \A q \in Processes : ownFile'[q] = None
      BY <1>c, <2>1, <2>3
    <3>4. QED
      BY <1>a, <2>1, <2>2, <3>2, <3>3
  <2>4. CASE ownFile[p] = None
    <3>1. writing[p] \in Reports
      BY <2>1, <2>4 DEF JobInv, Staging
    <3>2. \A y \in Tree : disk'[y] = disk[y]
      BY <1>8, <2>4, <3>1 DEF Publish, Stores, Tree
    <3>3. \A q \in Processes : ownFile[q] # None => ownFile[q] \in Tree
      BY DEF Tree
    <3>4. (\A f \in Files : disk'[f] = disk[f]) /\ \A q \in Processes : ownFile[q] # None => disk'[ownFile[q]] = disk[ownFile[q]]
      BY <3>2, <3>3 DEF Tree
    <3>5. QED
      BY <1>a, <2>1, <2>4, <3>4
  <2>5. QED
    BY <2>3, <2>4
<1>9. ASSUME NEW p \in Processes, Stops(p)
      PROVE  AloneInv'
  <2>1. /\ UNCHANGED meta /\ ownFile'[p] = None /\ conversion'[p] # "running"
        /\ \A q \in Processes : q # p => /\ pc'[q] = pc[q] /\ ownFile'[q] = ownFile[q] /\ key'[q] = key[q]
                                         /\ writing'[q] = writing[q] /\ conversion'[q] = conversion[q]
    BY <1>9 DEF Stops, CallFails, ProcessEnds, Drop, VaultAssumption
  <2>2. \A f \in Files : disk'[f] = disk[f]
    BY <1>9 DEF Stops, CallFails, ProcessEnds, Stores, Tree
  <2>3. \A q \in Processes : q # p /\ ownFile[q] # None => disk'[ownFile[q]] = disk[ownFile[q]]
    BY <1>9, <1>c DEF Stops, CallFails, ProcessEnds
  <2>4. QED
    BY <1>a, <2>1, <2>2, <2>3
<1>10. QED
  BY <1>1, <1>2, <1>3, <1>4, <1>5, <1>6, <1>7, <1>8, <1>9, VaultSteps DEF Takes, Checks

--------------------------------------------------------------------------------
(* The invariant holds of every behaviour: an action of the vault keeps its    *)
(* six parts, any number of conversions running at once.                       *)
THEOREM VaultInvariance ==
  ASSUME VaultAssumption
  PROVE  VaultSpec => []VaultInv
<1>1. VaultInit => VaultInv
  BY InitVaultInv
<1>2. VaultInv /\ [VaultNext]_vaultVars => VaultInv'
  BY VaultTypeStep, KeyStep, JobStep, DataStep, ConversionStep, AloneStep DEF VaultInv
<1>3. QED
  BY <1>1, <1>2, PTL DEF VaultSpec

(* Types of the vault's variables.                                             *)
THEOREM VaultTypeCorrect ==
  ASSUME VaultAssumption
  PROVE  VaultSpec => []VaultTypeOK
<1>1. VaultInv => VaultTypeOK
  BY DEF VaultInv
<1>2. QED
  BY VaultInvariance, <1>1, PTL

(* Wherever processes end or calls fail, in however many windows, reports are  *)
(* whole under the key of the metadata, a finished conversion has left nothing *)
(* in clear, and unless two conversions have overlapped every file holds its   *)
(* data in clear or under that key.                                            *)
THEOREM VaultDataSurvives ==
  ASSUME VaultAssumption
  PROVE  VaultSpec => []VaultDataIsRecoverable
<1>1. VaultInv => VaultDataIsRecoverable
  BY DEF VaultInv, KeyInv, DataInv, ConversionInv, AloneInv, VaultDataIsRecoverable, Working
<1>2. QED
  BY VaultInvariance, <1>1, PTL

(* at_rest.py:56-80: the metadata is created exclusively; what one passphrase  *)
(* once opened stays under that passphrase.                                    *)
THEOREM MetadataIsFinal ==
  ASSUME VaultAssumption
  PROVE  VaultSpec => [][(meta \in Keys) => meta' = meta]_vaultVars
<1>1. VaultInv /\ [VaultNext]_vaultVars => [(meta \in Keys) => meta' = meta]_vaultVars
  BY MetadataStays
<1>2. QED
  BY VaultInvariance, <1>1, PTL DEF VaultSpec

--------------------------------------------------------------------------------
(* THE RESTORE.  The inductive invariant.                                      *)

Names(s) == {s[k] : k \in DOMAIN s}
Once(s)  == \A i, j \in DOMAIN s : i # j => s[i] # s[j]
Archived == {d \in Destinations : archive[d] # None}
Restored == [d \in Destinations |-> IF archive[d] # None THEN archive[d] ELSE before[d]]
Steps    == {"idle", "stage", "aside", "put", "undo", "rollback", "ended", "columns", "version", "running"}
Publishing == {"aside", "put", "undo"}
Places     == [Destinations -> Contents \cup {None}]

(* Types of what the places hold and of the work list.                         *)
BackupTypeOK ==
  /\ place \in Places /\ before \in Places /\ archive \in Places
  /\ aside \in Places /\ staged \in Places
  /\ safety \in Places \cup {None}
  /\ publishing \in Seq(Destinations) /\ replaced \in Seq(Destinations)
  /\ step \in Steps /\ told \in {None, "failed", "restored"} /\ restoreFaults \in Nat
  /\ archive[Database] # None

(* The safety backup precedes every replacement, and covers what the archive   *)
(* replaces; nothing else is touched.                                          *)
SafetyInv ==
  /\ safety = None => step \in {"idle", "ended", "running"}
  /\ safety # None => \A d \in Archived : safety[d] = before[d]
  /\ \A d \in Destinations \ Archived : before[d] # None => place[d] = before[d]
  /\ safety = None => \A d \in Archived : before[d] # None => place[d] = before[d]
  /\ Names(publishing) \cup Names(replaced) \subseteq Archived

(* Where each destination's content is while the archive is published or the   *)
(* publication is undone.                                                      *)
Untouched(d) == place[d] = before[d]
MovedAside(d) == place[d] = None /\ aside[d] = before[d]
PublishInv ==
  /\ step \in {"idle", "stage"} => place = before /\ publishing = <<>> /\ replaced = <<>>
  /\ step # "ended" => told = None
  /\ step \in Publishing \cup {"rollback"} =>
       /\ Once(publishing) /\ Once(replaced) /\ Names(publishing) \cap Names(replaced) = {}
       /\ \A d \in Names(replaced) : aside[d] = before[d]
  /\ step \in Publishing =>
       /\ Names(publishing) \cup Names(replaced) = Archived
       /\ \A d \in Names(publishing) : staged[d] = archive[d]
       /\ \A d \in Names(replaced) : place[d] = archive[d]
  /\ step = "aside" => \A d \in Destinations \ Names(replaced) : Untouched(d)
  /\ step \in {"put", "undo"} =>
       /\ publishing # <<>> /\ MovedAside(publishing[1])
       /\ \A d \in Destinations \ Names(replaced) : d # publishing[1] => Untouched(d)
  /\ step = "rollback" /\ restoreFaults <= 1 => \A d \in Destinations \ Names(replaced) : Untouched(d)
  /\ step \in {"undo", "rollback"} => restoreFaults >= 1

(* What a restore that has ended left behind.                                  *)
OutcomeInv ==
  step = "ended" /\ told # None /\ (restoreFaults <= 1 \/ told = "restored") =>
    \/ place = before /\ told = "failed"
    \/ place = Restored

(* A database that says it is current, or has no version row, has the columns. *)
Sound(content) == content # None /\ content.version \in {0, Current} => content.title
SchemaInv ==
  /\ \A content \in {place[Database], aside[Database], staged[Database], archive[Database], before[Database]} :
       Sound(content)
  /\ before[Database] = Data("mine")
  /\ step \in {"columns", "version", "running"} => place[Database] # None
  /\ step \in {"version", "running"} => place[Database].title
  /\ step = "running" => place[Database].version = Current

BackupInv == BackupTypeOK /\ SafetyInv /\ PublishInv /\ OutcomeInv /\ SchemaInv

--------------------------------------------------------------------------------
(* The work list: what its head and its rest are, and that it names every      *)
(* destination of the archive once.                                            *)

LEMMA Rest ==
  ASSUME NEW S, NEW s \in Seq(S), s # <<>>, Once(s)
  PROVE  /\ s[1] \in Names(s) /\ s[1] \in S
         /\ Tail(s) \in Seq(S) /\ Once(Tail(s)) /\ Names(Tail(s)) = Names(s) \ {s[1]}
<1>1. /\ Len(s) \in Nat /\ Len(s) >= 1 /\ DOMAIN s = 1 .. Len(s)
      /\ Tail(s) \in Seq(S) /\ DOMAIN Tail(s) = 1 .. Len(s) - 1
      /\ \A k \in 1 .. Len(s) - 1 : Tail(s)[k] = s[k + 1]
  OBVIOUS
<1>2. s[1] \in Names(s) /\ s[1] \in S
  BY <1>1 DEF Names
<1>3. Once(Tail(s))
  BY <1>1 DEF Once
<1>4. Names(Tail(s)) \subseteq Names(s) \ {s[1]}
  BY <1>1 DEF Names, Once
<1>5. Names(s) \ {s[1]} \subseteq Names(Tail(s))
  <2>1. SUFFICES ASSUME NEW k \in DOMAIN s, k # 1
                 PROVE  s[k] \in Names(Tail(s))
    BY <1>1 DEF Names
  <2>2. k - 1 \in DOMAIN Tail(s) /\ Tail(s)[k - 1] = s[k]
    BY <1>1, <2>1
  <2>3. QED
    BY <2>2 DEF Names
<1>6. QED
  BY <1>1, <1>2, <1>3, <1>4, <1>5

LEMMA Pushed ==
  ASSUME NEW S, NEW s \in Seq(S), NEW x \in S, x \notin Names(s), Once(s)
  PROVE  <<x>> \o s \in Seq(S) /\ Once(<<x>> \o s) /\ Names(<<x>> \o s) = {x} \cup Names(s)
<1> DEFINE t == <<x>> \o s
<1>0. <<x>> \in Seq(S) /\ Len(<<x>>) = 1 /\ <<x>>[1] = x
  OBVIOUS
<1>1. /\ t \in Seq(S) /\ Len(s) \in Nat /\ DOMAIN s = 1 .. Len(s) /\ DOMAIN t = 1 .. Len(s) + 1
      /\ \A k \in 1 .. Len(s) + 1 : t[k] = IF k = 1 THEN x ELSE s[k - 1]
  BY <1>0, ConcatProperties
<1> HIDE DEF t
<1>2. \A k \in DOMAIN t : k # 1 => k - 1 \in DOMAIN s /\ t[k] = s[k - 1]
  BY <1>1
<1>3. \A k \in DOMAIN s : k + 1 \in DOMAIN t /\ t[k + 1] = s[k]
  BY <1>1
<1>4. 1 \in DOMAIN t /\ t[1] = x
  BY <1>1
<1>5. Once(t)
  <2>1. SUFFICES ASSUME NEW i \in DOMAIN t, NEW j \in DOMAIN t, i # j
                 PROVE  t[i] # t[j]
    BY DEF Once
  <2>2. CASE i = 1 \/ j = 1
    BY <1>2, <1>4, <2>1, <2>2 DEF Names
  <2>3. CASE i # 1 /\ j # 1
    BY <1>1, <1>2, <2>1, <2>3 DEF Once
  <2>4. QED
    BY <2>2, <2>3
<1>6. Names(t) = {x} \cup Names(s)
  <2>1. Names(t) \subseteq {x} \cup Names(s)
    BY <1>2, <1>4 DEF Names
  <2>2. {x} \cup Names(s) \subseteq Names(t)
    BY <1>3, <1>4 DEF Names
  <2>3. QED
    BY <2>1, <2>2
<1>7. QED
  BY <1>1, <1>5, <1>6 DEF t

LEMMA EveryDestinationIsListed ==
  ASSUME BackupAssumption, NEW q \in PublishOrder
  PROVE  q \in Seq(Destinations) /\ Once(q) /\ Names(q) = Archived
<1> DEFINE n == Cardinality(Archived)
<1>1. IsFiniteSet(Destinations)
  <2>1. IsFiniteSet({Database, Evidence})
    <3>1. {Database, Evidence} = {Database} \cup {Evidence}
      OBVIOUS
    <3>2. IsFiniteSet({Database}) /\ IsFiniteSet({Evidence})
      BY FS_Singleton
    <3>3. QED
      BY <3>1, <3>2, FS_Union
  <2>2. QED
    BY <2>1, FS_Union DEF Destinations, BackupAssumption
<1>2. IsFiniteSet(Archived) /\ n \in Nat
  BY <1>1, FS_Subset, FS_CardinalityType DEF Archived
<1>3. q \in [1 .. n -> Archived] /\ Once(q)
  BY DEF PublishOrder, Archived, Once
<1>4. IsFiniteSet(1 .. n) /\ Cardinality(1 .. n) = n
  <2>1. 1 \in Int /\ n \in Int
    BY <1>2
  <2>2. /\ IsFiniteSet(1 .. n)
        /\ Cardinality(1 .. n) = IF 1 > n THEN 0 ELSE n - 1 + 1
    BY <2>1, FS_Interval
  <2> HIDE DEF n
  <2>3. QED
    BY <1>2, <2>2
<1> HIDE DEF n
<1>5. q \in Injection(1 .. n, Archived)
  BY <1>3 DEF Injection, Once, IsInjective
<1>6. q \in Surjection(1 .. n, Archived)
  BY <1>2, <1>4, <1>5, FS_Injection DEF n
<1>7. Names(q) = Archived
  BY <1>3, <1>6 DEF Surjection, Names
<1>8. q \in Seq(Destinations)
  BY <1>2, <1>3 DEF Archived
<1>9. QED
  BY <1>3, <1>7, <1>8

--------------------------------------------------------------------------------
(* The invariant holds initially and is preserved by every step                *)

LEMMA ContentsAre ==
  ASSUME BackupAssumption
  PROVE  /\ Data("mine") \in Contents /\ Data("fresh") \in Contents /\ Fresh \in Contents
         /\ Fresh.version = 0 /\ Fresh.title /\ Data("mine").title
         /\ Data("mine").version = Current /\ \A content \in Contents : content # None
         /\ \A v \in Nat : /\ Old(v) \in Contents /\ Old(v).version = v
                           /\ Old(v).title <=> v >= Current
<1> USE DEF BackupAssumption
<1>1. /\ Data("mine") \in Contents /\ Data("fresh") \in Contents
      /\ Data("mine").title /\ Data("fresh").title /\ Data("mine").version = Current
  BY DEF Data, Contents
<1>2. Fresh \in Contents /\ Fresh.version = 0 /\ Fresh.title
  BY <1>1 DEF Fresh, Contents
<1>3. ASSUME NEW v \in Nat
      PROVE  Old(v) \in Contents /\ Old(v).version = v /\ (Old(v).title <=> v >= Current)
  <2>1. (v >= Current) \in BOOLEAN
    OBVIOUS
  <2>2. QED
    BY <2>1 DEF Old, Contents
<1>4. \A content \in Contents : content # None
  OBVIOUS
<1>5. QED
  BY <1>1, <1>2, <1>3, <1>4

LEMMA InitBackupInv ==
  ASSUME BackupAssumption, BackupInit
  PROVE  BackupInv
<1> USE DEF BackupInit
<1>1. Empty \in Places
  BY DEF Empty, Places
<1>2. Database \in Destinations
  BY DEF Destinations
<1>3. place \in Places
  BY ContentsAre DEF Places
<1>4. /\ archive \in Places /\ archive[Database] # None
      /\ \A d \in Destinations : archive[d] \in {None} \cup {Old(v) : v \in 1 .. Current + 1}
  <2>1. \A v \in 1 .. Current + 1 : v \in Nat
    BY DEF BackupAssumption
  <2>2. QED
    BY <2>1, ContentsAre DEF Places
<1>5. BackupTypeOK
  BY <1>1, <1>3, <1>4, EmptySeq DEF BackupTypeOK, Steps
<1>6. SafetyInv
  BY DEF SafetyInv, Names
<1>7. PublishInv /\ OutcomeInv
  BY DEF PublishInv, OutcomeInv, Publishing
<1>8. SchemaInv
  <2>1. place[Database] = Data("mine") /\ before[Database] = Data("mine")
    BY <1>2
  <2>2. PICK v \in 1 .. Current + 1 : archive[Database] = Old(v)
    BY <1>2, <1>4
  <2>3. Sound(archive[Database])
    <3>1. v \in Nat /\ v >= 1
      BY DEF BackupAssumption
    <3>2. Old(v).version = v /\ (Old(v).title <=> v >= Current)
      BY <3>1, ContentsAre
    <3>3. v \in {0, Current} => v >= Current
      BY <3>1 DEF BackupAssumption
    <3>4. QED
      BY <2>2, <3>2, <3>3 DEF Sound
  <2>4. Sound(Data("mine")) /\ Sound(None)
    BY ContentsAre DEF Sound
  <2>5. aside[Database] = None /\ staged[Database] = None
    BY <1>2 DEF Empty
  <2>6. QED
    BY <2>1, <2>3, <2>4, <2>5 DEF SchemaInv
<1>9. QED
  BY <1>5, <1>6, <1>7, <1>8 DEF BackupInv

\* The heads of the two lists, where a step takes one.
LEMMA Heads ==
  ASSUME BackupInv
  PROVE  /\ step \in Publishing \cup {"rollback"} =>
              /\ publishing # <<>> => publishing[1] \in Destinations /\ publishing[1] \in Names(publishing) /\ publishing[1] \in Archived
              /\ replaced # <<>> =>
                   replaced[1] \in Destinations /\ replaced[1] \in Names(replaced) /\ replaced[1] \in Archived
         /\ step = "put" \/ step = "undo" => publishing # <<>>
<1>1. /\ publishing \in Seq(Destinations) /\ replaced \in Seq(Destinations)
      /\ Names(publishing) \cup Names(replaced) \subseteq Archived
      /\ step \in Publishing \cup {"rollback"} => Once(publishing) /\ Once(replaced)
      /\ step \in {"put", "undo"} => publishing # <<>>
  BY DEF BackupInv, BackupTypeOK, SafetyInv, PublishInv
<1>2. QED
  BY <1>1, Rest

LEMMA BackupTypeStep ==
  ASSUME BackupAssumption, BackupInv, [BackupNext]_restoreVars
  PROVE  BackupTypeOK'
<1> USE DEF BackupTypeOK, Steps, Places
<1>0. BackupTypeOK /\ PublishInv /\ SchemaInv /\ Database \in Destinations
  BY DEF BackupInv, Destinations
<1>1. Empty \in Places
  BY DEF Empty
<1>2. CASE BackUp
  <2>1. Saved \in Places
    BY <1>0 DEF Saved
  <2>2. QED
    BY <1>0, <1>2, <2>1 DEF BackUp
<1>3. CASE StageArchive
  <2>1. publishing' \in Seq(Destinations)
    BY <1>0, <1>3, EveryDestinationIsListed DEF StageArchive, Concludes
  <2>2. QED
    BY <1>0, <1>1, <1>3, <2>1 DEF StageArchive, Concludes
<1>4. CASE MoveAside
  <2>1. publishing[1] \in Destinations
    BY <1>4, Heads DEF MoveAside, Publishing
  <2>2. QED
    BY <1>0, <1>4, <2>1 DEF MoveAside
<1>5. CASE PutInPlace
  <2>1. publishing[1] \in Destinations /\ publishing # <<>>
    BY <1>5, Heads DEF PutInPlace, Publishing
  <2>2. publishing' \in Seq(Destinations) /\ replaced' \in Seq(Destinations)
    <3>1. <<publishing[1]>> \in Seq(Destinations)
      BY <2>1
    <3>2. QED
      BY <1>0, <1>5, <2>1, <3>1, ConcatProperties DEF PutInPlace
  <2>3. place' \in Places /\ staged' \in Places
    BY <1>0, <1>5, <2>1 DEF PutInPlace
  <2>4. QED
    BY <1>0, <1>5, <2>2, <2>3 DEF PutInPlace
<1>6. CASE Published \/ RolledBack
  BY <1>0, <1>1, <1>6 DEF Published, RolledBack, Concludes
<1>7. CASE PutBackCurrent
  BY <1>0, <1>7 DEF PutBackCurrent, PutBack
<1>8. CASE RollBack
  <2>1. replaced' \in Seq(Destinations)
    BY <1>0, <1>8 DEF RollBack
  <2>2. place' \in Places /\ aside' \in Places
    BY <1>0, <1>8 DEF RollBack, PutBack
  <2>3. QED
    BY <1>0, <1>8, <2>1, <2>2 DEF RollBack
<1>9. CASE RestoreFails
  <2>1. place' \in Places /\ restoreFaults' \in Nat
    BY <1>0, <1>9 DEF RestoreFails, Fault
  <2>2. step' \in Steps /\ told' \in {None, "failed", "restored"} /\ aside' \in Places /\ staged' \in Places
    BY <1>0, <1>1, <1>9 DEF RestoreFails, Concludes
  <2>3. QED
    BY <1>0, <1>9, <2>1, <2>2 DEF RestoreFails
<1>10. CASE RestoreIsCut
  BY <1>0, <1>10 DEF RestoreIsCut, Fault
<1>11. CASE Restart
  <2>1. place' \in Places
    BY <1>0, <1>11, ContentsAre DEF Restart
  <2>2. step' \in Steps
    BY <1>11 DEF Restart
  <2>3. QED
    BY <1>0, <1>11, <2>1, <2>2 DEF Restart
<1>12. CASE AddColumns
  <2>1. place[Database] \in Contents
    BY <1>0, <1>12 DEF AddColumns, SchemaInv
  <2>2. [place[Database] EXCEPT !.title = TRUE] \in Contents
    BY <2>1 DEF Contents
  <2>3. place' \in Places
    BY <1>0, <1>12, <2>2 DEF AddColumns
  <2>4. QED
    BY <1>0, <1>12, <2>3 DEF AddColumns
<1>13. CASE RecordVersion
  <2>1. place[Database] \in Contents
    BY <1>0, <1>13 DEF RecordVersion, SchemaInv
  <2>2. [place[Database] EXCEPT !.version = Current] \in Contents
    BY <2>1 DEF Contents, BackupAssumption
  <2>3. place' \in Places
    BY <1>0, <1>13, <2>2 DEF RecordVersion
  <2>4. QED
    BY <1>0, <1>13, <2>3 DEF RecordVersion
<1>14. CASE UNCHANGED restoreVars
  BY <1>0, <1>14 DEF restoreVars
<1>15. QED
  BY <1>2, <1>3, <1>4, <1>5, <1>6, <1>7, <1>8, <1>9, <1>10, <1>11, <1>12, <1>13, <1>14 DEF BackupNext

LEMMA SafetyStep ==
  ASSUME BackupAssumption, BackupInv, [BackupNext]_restoreVars
  PROVE  SafetyInv'
<1>0. /\ BackupTypeOK /\ SafetyInv /\ PublishInv /\ SchemaInv
      /\ Database \in Archived /\ Database \in Destinations
  BY DEF BackupInv, BackupTypeOK, Archived, Destinations
<1>1. archive' = archive /\ before' = before /\ Archived' = Archived
  BY DEF BackupNext, BackUp, StageArchive, MoveAside, PutInPlace, Published, PutBackCurrent, RollBack,
         RolledBack, RestoreFails, RestoreIsCut, Restart, AddColumns, RecordVersion, restoreVars, Archived
\* Most steps come after the safety backup and write where it covers.
<1>2. ASSUME safety' = safety, Names(publishing') \cup Names(replaced') \subseteq Archived,
             place' = place \/ safety # None,
             \A d \in Destinations \ Archived : place'[d] = place[d],
             safety = None => step' \in {"idle", "ended", "running"}
      PROVE  SafetyInv'
  BY <1>0, <1>1, <1>2 DEF SafetyInv
<1>3. step \notin {"idle", "ended", "running"} => safety # None
  BY <1>0 DEF SafetyInv
<1>4. Names(publishing) \cup Names(replaced) \subseteq Archived
  BY <1>0 DEF SafetyInv
<1>5. CASE BackUp
  <2>1. place = before /\ safety' = Saved /\ UNCHANGED <<place, publishing, replaced>>
    BY <1>0, <1>5 DEF BackUp, PublishInv
  <2>2. \A d \in Archived : Saved[d] = before[d]
    BY <2>1 DEF Saved, Archived
  <2>3. safety' # None
    <3>1. Saved \in Places
      BY <1>0 DEF Saved, BackupTypeOK, Places
    <3>2. QED
      BY <2>1, <3>1 DEF BackupAssumption, Places
  <2>4. QED
    BY <1>1, <1>4, <2>1, <2>2, <2>3 DEF SafetyInv
<1>6. CASE StageArchive
  <2>1. Names(publishing') \subseteq Archived
    BY <1>4, <1>6, EveryDestinationIsListed DEF StageArchive
  <2>2. UNCHANGED <<safety, place, replaced>> /\ safety # None
    BY <1>3, <1>6 DEF StageArchive
  <2>3. QED
    BY <1>2, <1>4, <2>1, <2>2
<1>7. CASE MoveAside
  BY <1>0, <1>2, <1>3, <1>4, <1>7, Heads DEF MoveAside, Publishing, BackupTypeOK, Places
<1>8. CASE PutInPlace
  <2>1. publishing # <<>> /\ publishing[1] \in Archived /\ publishing[1] \in Destinations
    BY <1>8, Heads DEF PutInPlace, Publishing
  <2>2. /\ publishing \in Seq(Destinations) /\ replaced \in Seq(Destinations)
        /\ Once(publishing) /\ Once(replaced) /\ publishing[1] \notin Names(replaced)
    <3>1. Once(publishing) /\ Once(replaced) /\ Names(publishing) \cap Names(replaced) = {} /\ publishing[1] \in Names(publishing)
      BY <1>0, <1>8, Heads DEF PutInPlace, Publishing, PublishInv
    <3>2. QED
      BY <1>0, <3>1 DEF BackupTypeOK
  <2>3. Names(publishing') \cup Names(replaced') \subseteq Archived
    BY <1>4, <1>8, <2>1, <2>2, Rest, Pushed DEF PutInPlace
  <2>4. QED
    BY <1>0, <1>2, <1>3, <1>8, <2>1, <2>3 DEF PutInPlace, BackupTypeOK, Places
<1>9. CASE PutBackCurrent
  BY <1>0, <1>2, <1>3, <1>4, <1>9, Heads DEF PutBackCurrent, PutBack, Publishing, BackupTypeOK, Places
<1>10. CASE RollBack
  <2>1. replaced # <<>> /\ replaced[1] \in Archived /\ replaced[1] \in Destinations /\ Once(replaced)
    BY <1>0, <1>10, Heads DEF RollBack, PublishInv
  <2>2. Names(replaced') \subseteq Names(replaced)
    BY <1>0, <1>10, <2>1, Rest DEF RollBack, BackupTypeOK
  <2>3. QED
    BY <1>0, <1>2, <1>3, <1>4, <1>10, <2>1, <2>2 DEF RollBack, PutBack, BackupTypeOK, Places
<1>11. CASE RestoreFails
  <2>1. /\ place' = place \/ (step = "rollback" /\ place' = [place EXCEPT ![replaced[1]] = None])
        /\ step = "rollback" => replaced # <<>>
        /\ step \in {"idle"} => step' = "ended"
        /\ UNCHANGED <<safety, publishing, replaced>> /\ step \notin {"ended", "running"}
    BY <1>11 DEF RestoreFails, Concludes
  <2>2. \A d \in Destinations \ Archived : place'[d] = place[d]
    BY <1>0, <2>1, Heads DEF BackupTypeOK, Places
  <2>3. QED
    BY <1>2, <1>3, <1>4, <2>1, <2>2
<1>12. CASE Published \/ RolledBack \/ RestoreIsCut
  BY <1>2, <1>4, <1>12 DEF Published, RolledBack, RestoreIsCut, Concludes
<1>13. CASE Restart
  <2>1. /\ \A d \in Destinations : place[d] # None => place'[d] = place[d]
        /\ UNCHANGED <<safety, publishing, replaced>>
    BY <1>13 DEF Restart
  <2>2. before[Database] # None /\ before[Database].version = Current
    BY <1>0, ContentsAre DEF SchemaInv
  <2>3. safety = None => place'[Database].version = Current
    <3>1. safety = None => place[Database] = before[Database]
      BY <1>0, <2>2 DEF SafetyInv
    <3>2. QED
      BY <1>0, <2>1, <2>2, <3>1
  <2>4. safety = None => step' = "running"
    BY <1>13, <2>3 DEF Restart, BackupAssumption
  <2>5. \A d \in Archived : d \in Destinations
    BY DEF Archived
  <2>6. QED
    BY <1>0, <1>1, <2>1, <2>4, <2>5 DEF SafetyInv
<1>14. CASE AddColumns \/ RecordVersion
  BY <1>0, <1>2, <1>3, <1>4, <1>14 DEF AddColumns, RecordVersion, BackupTypeOK, Places
<1>15. CASE UNCHANGED restoreVars
  BY <1>0, <1>1, <1>15 DEF restoreVars, SafetyInv
<1>16. QED
  BY <1>5, <1>6, <1>7, <1>8, <1>9, <1>10, <1>11, <1>12, <1>13, <1>14, <1>15 DEF BackupNext

LEMMA PublishStep ==
  ASSUME BackupAssumption, BackupInv, [BackupNext]_restoreVars
  PROVE  PublishInv'
<1> USE DEF Publishing, Untouched, MovedAside
<1>0. /\ BackupTypeOK /\ SafetyInv /\ PublishInv /\ restoreFaults \in Nat
      /\ place \in Places /\ aside \in Places /\ staged \in Places
  BY DEF BackupInv, BackupTypeOK
<1>1. archive' = archive /\ before' = before /\ Archived' = Archived
  BY DEF BackupNext, BackUp, StageArchive, MoveAside, PutInPlace, Published, PutBackCurrent, RollBack,
         RolledBack, RestoreFails, RestoreIsCut, Restart, AddColumns, RecordVersion, restoreVars, Archived
<1>2. CASE BackUp
  BY <1>0, <1>1, <1>2 DEF BackUp, PublishInv
<1>3. CASE StageArchive
  <2>1. CASE step' = "ended"
    BY <2>1 DEF PublishInv
  <2>2. CASE step' # "ended"
    <3>1. /\ step' = "aside" /\ publishing' \in PublishOrder /\ staged' = archive
          /\ UNCHANGED <<place, replaced, told, restoreFaults>> /\ step = "stage"
      BY <1>3, <2>2 DEF StageArchive, Concludes
    <3>2. Once(publishing') /\ Names(publishing') = Archived
      BY <3>1, EveryDestinationIsListed
    <3>3. place = before /\ replaced = <<>> /\ told = None
      BY <1>0, <3>1 DEF PublishInv
    <3>4. Once(replaced') /\ Names(replaced') = {}
      BY <3>1, <3>3 DEF Once, Names
    <3>5. QED
      BY <1>1, <3>1, <3>2, <3>3, <3>4 DEF PublishInv
  <2>3. QED
    BY <2>1, <2>2
<1>4. CASE MoveAside
  <2>1. /\ step = "aside" /\ publishing # <<>> /\ step' = "put"
        /\ aside' = [aside EXCEPT ![publishing[1]] = place[publishing[1]]]
        /\ place' = [place EXCEPT ![publishing[1]] = None]
        /\ UNCHANGED <<staged, publishing, replaced, told, restoreFaults>>
    BY <1>4 DEF MoveAside
  <2>2. publishing[1] \in Destinations /\ publishing[1] \in Names(publishing)
    BY <2>1, Heads
  <2>3. publishing[1] \notin Names(replaced) /\ \A d \in Names(replaced) : d \in Destinations
    BY <1>0, <2>1, <2>2 DEF PublishInv, SafetyInv, Archived
  <2>4. /\ place'[publishing[1]] = None /\ aside'[publishing[1]] = place[publishing[1]]
        /\ \A d \in Destinations : d # publishing[1] => place'[d] = place[d] /\ aside'[d] = aside[d]
    BY <1>0, <2>1, <2>2 DEF Places
  <2>5. place[publishing[1]] = before[publishing[1]]
    BY <1>0, <2>1, <2>2, <2>3 DEF PublishInv
  <2>6. QED
    BY <1>0, <1>1, <2>1, <2>3, <2>4, <2>5 DEF PublishInv
<1>5. CASE PutInPlace
  <2>1. /\ step = "put" /\ step' = "aside" /\ publishing' = Tail(publishing) /\ replaced' = <<publishing[1]>> \o replaced
        /\ place' = [place EXCEPT ![publishing[1]] = staged[publishing[1]]]
        /\ staged' = [staged EXCEPT ![publishing[1]] = None]
        /\ UNCHANGED <<aside, told, restoreFaults>>
    BY <1>5 DEF PutInPlace
  <2>2. publishing # <<>> /\ publishing[1] \in Destinations /\ publishing[1] \in Names(publishing)
    BY <2>1, Heads
  <2>3. /\ Once(publishing) /\ Once(replaced) /\ Names(publishing) \cap Names(replaced) = {}
        /\ Names(publishing) \cup Names(replaced) = Archived
        /\ publishing \in Seq(Destinations) /\ replaced \in Seq(Destinations) /\ publishing[1] \notin Names(replaced)
    BY <1>0, <2>1, <2>2 DEF PublishInv, BackupTypeOK
  <2>4. /\ Once(publishing') /\ Names(publishing') = Names(publishing) \ {publishing[1]}
        /\ Once(replaced') /\ Names(replaced') = {publishing[1]} \cup Names(replaced)
    BY <2>1, <2>2, <2>3, Rest, Pushed
  <2>5. /\ place'[publishing[1]] = staged[publishing[1]]
        /\ \A d \in Destinations : d # publishing[1] => place'[d] = place[d] /\ staged'[d] = staged[d]
    BY <1>0, <2>1, <2>2 DEF Places
  <2>6. /\ \A d \in Names(publishing) : staged[d] = archive[d]
        /\ \A d \in Names(replaced) : place[d] = archive[d] /\ aside[d] = before[d]
        /\ aside[publishing[1]] = before[publishing[1]]
        /\ \A d \in Destinations \ Names(replaced) : d # publishing[1] => place[d] = before[d]
        /\ told = None
    BY <1>0, <2>1 DEF PublishInv
  <2>7. \A d \in Archived : d \in Destinations
    BY DEF Archived
  <2>8. /\ Once(publishing') /\ Once(replaced') /\ Names(publishing') \cap Names(replaced') = {}
        /\ \A d \in Names(replaced') : aside[d] = before[d]
        /\ Names(publishing') \cup Names(replaced') = Archived
    BY <2>2, <2>3, <2>4, <2>6
  <2>9. /\ \A d \in Names(publishing') : staged'[d] = archive[d]
        /\ \A d \in Names(replaced') : place'[d] = archive[d]
        /\ \A d \in Destinations \ Names(replaced') : place'[d] = before[d]
    BY <2>2, <2>3, <2>4, <2>5, <2>6, <2>7
  <2>10. QED
    BY <1>1, <2>1, <2>6, <2>8, <2>9 DEF PublishInv
<1>6. CASE PutBackCurrent
  <2>1. /\ step = "undo" /\ step' = "rollback"
        /\ IF aside[publishing[1]] # None
           THEN place' = [place EXCEPT ![publishing[1]] = aside[publishing[1]]] /\ aside' = [aside EXCEPT ![publishing[1]] = None]
           ELSE UNCHANGED <<place, aside>>
        /\ UNCHANGED <<publishing, replaced, told, restoreFaults>>
    BY <1>6 DEF PutBackCurrent, PutBack
  <2>2. publishing # <<>> /\ publishing[1] \in Destinations /\ publishing[1] \in Names(publishing)
    BY <2>1, Heads
  <2>3. /\ place[publishing[1]] = None /\ aside[publishing[1]] = before[publishing[1]] /\ publishing[1] \notin Names(replaced)
        /\ \A d \in Destinations \ Names(replaced) : d # publishing[1] => place[d] = before[d]
        /\ \A d \in Names(replaced) : d \in Destinations /\ aside[d] = before[d]
        /\ Once(publishing) /\ Once(replaced) /\ Names(publishing) \cap Names(replaced) = {} /\ told = None /\ restoreFaults >= 1
    BY <1>0, <2>1, <2>2 DEF PublishInv, SafetyInv, Archived
  <2>4. /\ place'[publishing[1]] = before[publishing[1]]
        /\ \A d \in Destinations : d # publishing[1] => place'[d] = place[d] /\ aside'[d] = aside[d]
    BY <1>0, <2>1, <2>2, <2>3 DEF Places
  <2>5. QED
    BY <1>0, <1>1, <2>1, <2>3, <2>4 DEF PublishInv
<1>7. CASE RollBack
  <2>1. /\ step = "rollback" /\ step' = "rollback" /\ replaced # <<>> /\ replaced' = Tail(replaced)
        /\ place' = [place EXCEPT ![replaced[1]] = aside[replaced[1]]]
        /\ aside' = [aside EXCEPT ![replaced[1]] = None]
        /\ UNCHANGED <<publishing, told, restoreFaults>>
    BY <1>7 DEF RollBack, PutBack
  <2>2. replaced[1] \in Destinations /\ replaced[1] \in Names(replaced)
    BY <2>1, Heads
  <2>3. /\ \A d \in Names(replaced) : d \in Destinations /\ aside[d] = before[d]
        /\ Once(publishing) /\ Once(replaced) /\ Names(publishing) \cap Names(replaced) = {} /\ told = None /\ restoreFaults >= 1
        /\ restoreFaults <= 1 => \A d \in Destinations \ Names(replaced) : place[d] = before[d]
        /\ replaced \in Seq(Destinations)
    BY <1>0, <2>1 DEF PublishInv, SafetyInv, Archived, BackupTypeOK
  <2>4. Once(replaced') /\ Names(replaced') = Names(replaced) \ {replaced[1]}
    BY <2>1, <2>3, Rest
  <2>5. /\ place'[replaced[1]] = before[replaced[1]]
        /\ \A d \in Destinations : d # replaced[1] => place'[d] = place[d] /\ aside'[d] = aside[d]
    BY <1>0, <2>1, <2>2, <2>3 DEF Places
  <2>6. /\ \A d \in Names(replaced') : aside'[d] = before[d]
        /\ restoreFaults <= 1 => \A d \in Destinations \ Names(replaced') : place'[d] = before[d]
    BY <2>2, <2>3, <2>4, <2>5
  <2>7. QED
    BY <1>1, <2>1, <2>3, <2>4, <2>6 DEF PublishInv
<1>8. CASE RestoreFails
  <2>1. CASE step' = "ended"
    BY <2>1 DEF PublishInv
  <2>2. CASE step' # "ended"
    <3>1. /\ restoreFaults' = restoreFaults + 1 /\ UNCHANGED <<place, aside, staged, publishing, replaced, told>>
          /\ \/ step = "aside" /\ step' = "rollback"
             \/ step = "put" /\ step' = "undo"
             \/ step = "undo" /\ step' = "rollback"
      BY <1>8, <2>2 DEF RestoreFails, Fault, Concludes
    <3>2. CASE step = "aside"
      BY <1>0, <1>1, <3>1, <3>2 DEF PublishInv
    <3>3. CASE step = "put"
      BY <1>0, <1>1, <3>1, <3>3 DEF PublishInv
    <3>4. CASE step = "undo"
      BY <1>0, <1>1, <3>1, <3>4 DEF PublishInv
    <3>5. QED
      BY <3>1, <3>2, <3>3, <3>4
  <2>3. QED
    BY <2>1, <2>2
<1>9. CASE Published \/ RolledBack \/ RestoreIsCut
  BY <1>9 DEF Published, RolledBack, RestoreIsCut, Concludes, PublishInv
<1>10. CASE Restart
  BY <1>10 DEF Restart, PublishInv
<1>11. CASE AddColumns \/ RecordVersion
  BY <1>0, <1>11 DEF AddColumns, RecordVersion, PublishInv
<1>12. CASE UNCHANGED restoreVars
  BY <1>0, <1>1, <1>12 DEF restoreVars, PublishInv
<1>13. QED
  BY <1>2, <1>3, <1>4, <1>5, <1>6, <1>7, <1>8, <1>9, <1>10, <1>11, <1>12 DEF BackupNext

LEMMA OutcomeStep ==
  ASSUME BackupAssumption, BackupInv, [BackupNext]_restoreVars
  PROVE  OutcomeInv'
<1>0. /\ BackupTypeOK /\ SafetyInv /\ PublishInv /\ OutcomeInv /\ restoreFaults \in Nat
      /\ place \in Places /\ before \in Places
  BY DEF BackupInv, BackupTypeOK
<1>1. archive' = archive /\ before' = before
  BY DEF BackupNext, BackUp, StageArchive, MoveAside, PutInPlace, Published, PutBackCurrent, RollBack,
         RolledBack, RestoreFails, RestoreIsCut, Restart, AddColumns, RecordVersion, restoreVars
<1>2. CASE step' # "ended"
  BY <1>2 DEF OutcomeInv
<1>3. CASE place' = before /\ told' = "failed"
  BY <1>1, <1>3 DEF OutcomeInv
<1>4. CASE step = "aside" /\ publishing = <<>> /\ place' = place
  <2>1. /\ Names(publishing) \cup Names(replaced) = Archived /\ Names(publishing) = {}
        /\ \A d \in Names(replaced) : place[d] = archive[d]
        /\ \A d \in Destinations \ Names(replaced) : place[d] = before[d]
    BY <1>0, <1>4 DEF PublishInv, Publishing, Untouched, Names
  <2>2. \A d \in Destinations : place[d] = IF archive[d] # None THEN archive[d] ELSE before[d]
    BY <2>1 DEF Archived
  <2>3. place = Restored
    BY <1>0, <2>2 DEF Places, Restored
  <2>4. QED
    BY <1>1, <1>4, <2>3 DEF OutcomeInv, Restored
<1>5. CASE StageArchive
  <2>1. step' = "ended" => place' = before /\ told' = "failed"
    BY <1>0, <1>5 DEF StageArchive, Concludes, PublishInv
  <2>2. QED
    BY <1>2, <1>3, <2>1
<1>6. CASE Published
  BY <1>4, <1>6 DEF Published
<1>7. CASE RolledBack
  <2>1. /\ step = "rollback" /\ replaced = <<>> /\ told' = "failed" /\ UNCHANGED <<place, restoreFaults>>
    BY <1>7 DEF RolledBack, Concludes
  <2>2. restoreFaults <= 1 => \A d \in Destinations : place[d] = before[d]
    BY <1>0, <2>1 DEF PublishInv, Untouched, Names
  <2>3. restoreFaults <= 1 => place = before
    BY <1>0, <2>2 DEF Places
  <2>4. QED
    BY <1>1, <2>1, <2>3 DEF OutcomeInv, Restored
<1>8. CASE RestoreFails
  <2>1. CASE step \in {"idle", "stage"}
    BY <1>0, <1>3, <1>8, <2>1 DEF RestoreFails, Concludes, PublishInv
  <2>2. CASE step = "aside" /\ publishing = <<>>
    BY <1>4, <1>8, <2>2 DEF RestoreFails
  <2>3. CASE step = "rollback"
    <3>1. restoreFaults' >= 2 /\ restoreFaults' \in Nat /\ told' = "failed"
      BY <1>0, <1>8, <2>3 DEF RestoreFails, Fault, Concludes, PublishInv
    <3>2. QED
      BY <3>1 DEF OutcomeInv
  <2>4. QED
    BY <1>2, <1>8, <2>1, <2>2, <2>3 DEF RestoreFails
<1>9. CASE RestoreIsCut
  BY <1>0, <1>9 DEF RestoreIsCut, PublishInv, OutcomeInv
<1>10. CASE BackUp \/ MoveAside \/ PutInPlace \/ PutBackCurrent \/ RollBack
  BY <1>2, <1>10 DEF BackUp, MoveAside, PutInPlace, PutBackCurrent, RollBack
<1>11. CASE Restart \/ AddColumns \/ RecordVersion
  BY <1>2, <1>11 DEF Restart, AddColumns, RecordVersion
<1>12. CASE UNCHANGED restoreVars
  BY <1>0, <1>1, <1>12 DEF restoreVars, OutcomeInv, Restored
<1>13. QED
  BY <1>5, <1>6, <1>7, <1>8, <1>9, <1>10, <1>11, <1>12 DEF BackupNext

LEMMA SchemaStep ==
  ASSUME BackupAssumption, BackupInv, [BackupNext]_restoreVars
  PROVE  SchemaInv'
<1> DEFINE Known == {place[Database], aside[Database], staged[Database], archive[Database], None}
<1>0. /\ BackupTypeOK /\ PublishInv /\ SchemaInv /\ Database \in Destinations /\ Sound(None)
      /\ place \in Places /\ aside \in Places /\ staged \in Places /\ Current \in Nat /\ Current # 0
  BY DEF BackupInv, BackupTypeOK, Destinations, Sound, BackupAssumption
<1>1. archive' = archive /\ before' = before
  BY DEF BackupNext, BackUp, StageArchive, MoveAside, PutInPlace, Published, PutBackCurrent, RollBack,
         RolledBack, RestoreFails, RestoreIsCut, Restart, AddColumns, RecordVersion, restoreVars
\* Publication and its undoing only move contents about.
<1>2. ASSUME place'[Database] \in Known, aside'[Database] \in Known, staged'[Database] \in Known,
             step' \notin {"columns", "version", "running"}
      PROVE  SchemaInv'
  <2>1. \A content \in Known : Sound(content)
    BY <1>0 DEF SchemaInv
  <2> HIDE DEF Known
  <2>2. Sound(place'[Database]) /\ Sound(aside'[Database]) /\ Sound(staged'[Database])
    BY <1>2, <2>1
  <2>3. QED
    BY <1>0, <1>1, <1>2, <2>2 DEF SchemaInv, Sound
<1>3. CASE BackUp \/ Published \/ RolledBack \/ RestoreIsCut
  BY <1>0, <1>2, <1>3 DEF BackUp, Published, RolledBack, RestoreIsCut, Concludes, Empty
<1>4. CASE StageArchive
  BY <1>0, <1>2, <1>4 DEF StageArchive, Concludes, Empty
<1>5. CASE MoveAside
  BY <1>0, <1>2, <1>5, Heads DEF MoveAside, Publishing, Places
<1>6. CASE PutInPlace
  BY <1>0, <1>2, <1>6, Heads DEF PutInPlace, Publishing, Places
<1>7. CASE PutBackCurrent
  BY <1>0, <1>2, <1>7, Heads DEF PutBackCurrent, PutBack, Publishing, Places
<1>8. CASE RollBack
  BY <1>0, <1>2, <1>8, Heads DEF RollBack, PutBack, Places
<1>9. CASE RestoreFails
  <2>1. place'[Database] \in Known
    BY <1>0, <1>9 DEF RestoreFails, Places
  <2>2. aside'[Database] \in Known /\ staged'[Database] \in Known
    BY <1>0, <1>9 DEF RestoreFails, Concludes, Empty
  <2>3. step' \notin {"columns", "version", "running"}
    BY <1>9 DEF RestoreFails, Concludes
  <2>4. QED
    BY <1>2, <2>1, <2>2, <2>3
<1>10. CASE Restart
  <2>1. /\ place'[Database] = IF place[Database] = None THEN Fresh ELSE place[Database]
        /\ UNCHANGED <<aside, staged>>
    BY <1>0, <1>10 DEF Restart
  <2>2. place'[Database] # None /\ Sound(place'[Database])
    BY <1>0, <2>1, ContentsAre DEF SchemaInv, Sound
  <2>3. /\ step' \in {"version", "running"} => place'[Database].version \in {0, Current}
        /\ step' = "running" => place'[Database].version = Current
    BY <1>0, <1>10 DEF Restart
  <2>4. QED
    BY <1>0, <1>1, <2>1, <2>2, <2>3 DEF SchemaInv, Sound
<1>11. CASE AddColumns
  <2>1. place[Database] \in Contents
    BY <1>0, <1>11 DEF AddColumns, SchemaInv, Places
  <2>2. place'[Database] = [place[Database] EXCEPT !.title = TRUE]
    BY <1>0, <1>11 DEF AddColumns, Places
  <2>3. place'[Database] \in Contents /\ place'[Database].title
    BY <2>1, <2>2 DEF Contents
  <2>4. QED
    BY <1>0, <1>1, <1>11, <2>3, ContentsAre DEF AddColumns, SchemaInv, Sound
<1>12. CASE RecordVersion
  <2>1. place[Database] \in Contents /\ place[Database].title
    BY <1>0, <1>12 DEF RecordVersion, SchemaInv, Places
  <2>2. place'[Database] = [place[Database] EXCEPT !.version = Current]
    BY <1>0, <1>12 DEF RecordVersion, Places
  <2>3. place'[Database] \in Contents /\ place'[Database].title /\ place'[Database].version = Current
    BY <1>0, <2>1, <2>2 DEF Contents
  <2>4. QED
    BY <1>0, <1>1, <1>12, <2>3, ContentsAre DEF RecordVersion, SchemaInv, Sound
<1>13. CASE UNCHANGED restoreVars
  BY <1>0, <1>1, <1>13 DEF restoreVars, SchemaInv, Sound
<1>14. QED
  BY <1>3, <1>4, <1>5, <1>6, <1>7, <1>8, <1>9, <1>10, <1>11, <1>12, <1>13 DEF BackupNext

--------------------------------------------------------------------------------
(* The theorems                                                                *)

(* Every reachable state satisfies the inductive invariant: create, restore    *)
(* and its handlers, and the next start, keep it, backup_service.py:44-186,    *)
(* migrations.py:34-80.                                                        *)
THEOREM BackupInvariance ==
  ASSUME BackupAssumption
  PROVE  BackupSpec => []BackupInv
<1>1. BackupInit => BackupInv
  BY InitBackupInv
<1>2. BackupInv /\ [BackupNext]_restoreVars => BackupInv'
  BY BackupTypeStep, SafetyStep, PublishStep, OutcomeStep, SchemaStep DEF BackupInv
<1>3. QED
  BY <1>1, <1>2, PTL DEF BackupSpec

(* What the destinations, the archive and the directories of a restore hold    *)
(* keeps its type, backup_service.py:44-186.                                   *)
THEOREM BackupTypeCorrect ==
  ASSUME BackupAssumption
  PROVE  BackupSpec => []BackupTypeOK
<1>1. BackupInv => BackupTypeOK
  BY DEF BackupInv
<1>2. QED
  BY <1>1, BackupInvariance, PTL

LEMMA InvSurvives ==
  ASSUME BackupInv
  PROVE  ApplicationDataSurvives
<1>0. SafetyInv /\ OutcomeInv /\ SchemaInv
  BY DEF BackupInv
<1>1. \A d \in Destinations :
        before[d] # None => \/ before[d] \in {place[d], aside[d]}
                            \/ safety # None /\ safety[d] = before[d]
  BY <1>0 DEF SafetyInv, Archived
<1>2. step = "ended" /\ told # None /\ (restoreFaults <= 1 \/ told = "restored") =>
        \/ place = before /\ told = "failed"
        \/ place = [d \in Destinations |-> IF archive[d] # None THEN archive[d] ELSE before[d]]
  BY <1>0 DEF OutcomeInv, Restored
<1>3. step = "running" => place[Database].title /\ place[Database].version = Current
  BY <1>0 DEF SchemaInv
<1>4. QED
  BY <1>1, <1>2, <1>3 DEF ApplicationDataSurvives

(* No restore loses the operator's data, whatever fails and wherever the       *)
(* process ends; it is complete or, with one failure, undone; and the next     *)
(* start has a current schema: backup_service.py:116-186, migrations.py:34-80. *)
THEOREM RestoreLosesNothing ==
  ASSUME BackupAssumption
  PROVE  BackupSpec => []ApplicationDataSurvives
<1>1. BackupInv => ApplicationDataSurvives
  BY InvSurvives
<1>2. QED
  BY <1>1, BackupInvariance, PTL
================================================================================
