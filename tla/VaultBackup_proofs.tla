------------------------ MODULE VaultBackup_proofs ------------------------
(***************************************************************************)
(* What module VaultBackup promises, proved for any number of publications *)
(* and events, and of backups and restores at the same time.               *)
(***************************************************************************)
EXTENDS VaultBackup, FiniteSetTheorems, TLAPS

(* What a backup vouches for: editions that are whole, those that were     *)
(* committed when it was begun among them, and the revocations of those    *)
(* that were revoked when they were read.                                  *)
Covers(m) == known.editions \subseteq Whole(m)
Vouches(m) == Covers(m) /\ known.revoked \subseteq Revoked(m.events)
Within(e, m) == \A n \in Editions : e[n] \subseteq m.editions[n]

(* Of an edition that nobody else acted on while its publisher was at      *)
(* work: the publisher finds its files as it left them, nobody takes it in *)
(* hand that could still be published, and once published it keeps both.   *)
Undisturbed(e) ==
    /\ writer[e] # "gone" => e \notin published
    /\ intent[e] = "none" => writer[e] = "gone" /\ vault.editions[e] = {} /\ e \notin published
    /\ writer[e] = "json" => vault.editions[e] = {}
    /\ writer[e] = "md" => vault.editions[e] = {"json"}
    /\ writer[e] = "commit" => vault.editions[e] = {"json", "md"}
    /\ e \in published => vault.editions[e] = {"json", "md"}
    /\ \A o \in Openers : opener[o].edition = e => /\ writer[e] = "gone" /\ intent[e] # "none"
                                                 /\ e \notin published \cup Whole(vault)

VaultOK ==
    /\ \A e \in Editions \ disturbed : Undisturbed(e)
    /\ known.editions \subseteq published \ disturbed

(* One create at a time has the output directory.                          *)
CreatorOK(c) ==
    /\ creator[c] # "idle" => backup.there /\ ~reported /\ \A d \in Creators : creator[d] # "idle" => d = c
    /\ creator[c] \in {"events", "manifest"} =>
           Covers(backup.tree) /\ known.revoked \subseteq Revoked(vault.events)
    /\ creator[c] = "manifest" => Vouches(backup.tree)
    /\ creator[c] = "verify" => \A m \in backup.manifest : Vouches(m)

(* What was reported is there, but for lost files.                         *)
BackupOK ==
    reported =>
        /\ backup.there /\ backup.manifest # {}
        /\ \A m \in backup.manifest :
               /\ Vouches(m) /\ Listed(m) = Whole(m)
               /\ Within(backup.tree.editions, m) /\ backup.tree.events \subseteq m.events

RestorerOK(r) ==
    restorer[r].reported =>
        /\ reported /\ restorer[r].manifest = backup.manifest
        /\ \A m \in restorer[r].manifest :
               /\ restorer[r].step \in {"events", "install"} => Within(restorer[r].tree.editions, m)
               /\ restorer[r].step = "install" => restorer[r].tree.events \subseteq m.events

HomeOK ==
    \A h \in home :
        /\ h.vault.readable = h.vault.editions \ Revoked(h.vault.events)
        /\ h.reported =>
               /\ reported /\ h.manifest = backup.manifest
               /\ \A m \in h.manifest : h.vault.editions = Listed(m) /\ h.vault.events = m.events

BackupInv ==
    /\ TypeOK /\ VaultOK
    /\ \A c \in Creators : CreatorOK(c)
    /\ BackupOK
    /\ \A r \in Restorers : RestorerOK(r)
    /\ HomeOK

-----------------------------------------------------------------------------
LEMMA Voids == Empty \in Trees /\ {} \in Manifests
BY DEF Empty, Trees, Manifests, Editions

LEMMA BackupInit == Init => BackupInv
<1> SUFFICES ASSUME Init PROVE BackupInv
    OBVIOUS
<1>1. /\ NoBackup \in [there : BOOLEAN, tree : Trees, manifest : Manifests]
      /\ Idle \in [step : {"idle", "editions", "events", "install"},
                  manifest : Manifests, reported : BOOLEAN, tree : Trees]
      /\ 0 \in 0..MaxLosses
    BY Voids, BoundsAssumption DEF NoBackup, Idle
<1>2. /\ vault \in Trees
      /\ \A e \in Editions : vault.editions[e] = IF e \in Existing THEN {"json", "md"} ELSE {}
    BY DEF Init, Empty, Trees, Editions, Extensions
<1>3. /\ intent \in [Editions -> {"none", "prepared", "recoverable", "committed"}]
      /\ writer \in [Editions -> Extensions \cup {"commit", "moving", "gone"}]
      /\ opener \in [Openers -> [edition : Editions \cup {0}, list : SUBSET Extensions]]
      /\ published \subseteq Editions /\ disturbed \subseteq Editions
    BY BoundsAssumption DEF Init, NoIntents, Editions
<1>4. TypeOK
    BY <1>1, <1>2, <1>3, Voids DEF Init, TypeOK
<1>5. ASSUME NEW e \in Editions PROVE Undisturbed(e)
  <2>1. e # 0
    BY BoundsAssumption DEF Editions
  <2> QED
    BY <1>2, <2>1 DEF Init, Undisturbed, NoIntents
<1> QED
    BY <1>4, <1>5 DEF Init, BackupInv, VaultOK, CreatorOK, BackupOK, RestorerOK, HomeOK, Idle

-----------------------------------------------------------------------------
(* What the vault does meanwhile takes no event, and no file of what was   *)
(* published undisturbed.                                                  *)
LEMMA VaultFrame ==
    ASSUME BackupInv, UNCHANGED <<backup, reported, creator, known, restorer, home, losses>>,
           intent' \in [Editions -> {"none", "prepared", "recoverable", "committed"}],
           writer' \in [Editions -> Extensions \cup {"commit", "moving", "gone"}],
           opener' \in [Openers -> [edition : Editions \cup {0}, list : SUBSET Extensions]],
           published' \subseteq Editions, disturbed' \subseteq Editions, vault' \in Trees,
           vault.events \subseteq vault'.events,
           \A e \in Editions \ disturbed' : e \notin disturbed /\ Undisturbed(e)',
           published \subseteq published',
           \A e \in published \ disturbed : e \notin disturbed'
    PROVE  BackupInv'
<1>1. TypeOK'
    BY DEF BackupInv, TypeOK
<1>2. VaultOK'
    BY DEF BackupInv, VaultOK
<1>3. Revoked(vault.events) \subseteq Revoked(vault'.events)
    BY DEF Revoked
<1>4. \A c \in Creators : CreatorOK(c)'
    BY <1>3 DEF BackupInv, CreatorOK, Covers, Vouches
<1> QED
    BY <1>1, <1>2, <1>4 DEF BackupInv, BackupOK, RestorerOK, HomeOK, Covers, Vouches

LEMMA FilesFrame ==
    ASSUME vault \in Trees, NEW e \in Editions, NEW S \in SUBSET Extensions, Files(e, S)
    PROVE  /\ vault' \in Trees /\ vault'.events = vault.events
           /\ vault'.editions[e] = S
           /\ \A d \in Editions \ {e} : vault'.editions[d] = vault.editions[d]
BY DEF Files, Trees

LEMMA VaultTypes ==
    ASSUME BackupInv
    PROVE  /\ intent \in [Editions -> {"none", "prepared", "recoverable", "committed"}]
           /\ writer \in [Editions -> Extensions \cup {"commit", "moving", "gone"}]
           /\ opener \in [Openers -> [edition : Editions \cup {0}, list : SUBSET Extensions]]
           /\ published \subseteq Editions /\ disturbed \subseteq Editions
           /\ vault \in Trees /\ vault.editions \in [Editions -> SUBSET Extensions]
           /\ \A e \in Editions \ disturbed : Undisturbed(e)
BY DEF BackupInv, TypeOK, VaultOK, Trees

LEMMA PublicationStep ==
    ASSUME BackupInv, NEW e \in Editions, Publication(e)
    PROVE  BackupInv'
<1>1. UNCHANGED <<backup, reported, creator, known, restorer, home, losses>>
    BY DEF Publication, StartPublication, WriteFile, CommitPublication, FailPublication,
           QuarantineFile, QuarantineDone, StopPublisher, FileEvent, Outside,
           createVars, restoreVars
<1>2. UNCHANGED <<opener, disturbed>>
    BY DEF Publication, StartPublication, WriteFile, CommitPublication, FailPublication,
           QuarantineFile, QuarantineDone, StopPublisher, FileEvent
<1> USE VaultTypes
<1> DEFINE Same(d) == /\ intent'[d] = intent[d] /\ writer'[d] = writer[d]
                      /\ vault'.editions[d] = vault.editions[d]
                      /\ (d \in published' <=> d \in published)
           Kept == \A d \in Editions \ {e} : Same(d)
           Typed == /\ intent' \in [Editions -> {"none", "prepared", "recoverable", "committed"}]
                    /\ writer' \in [Editions -> Extensions \cup {"commit", "moving", "gone"}]
                    /\ published' \subseteq Editions /\ published \subseteq published'
                    /\ vault' \in Trees /\ vault.events \subseteq vault'.events
<1>3. Typed /\ Kept /\ (e \notin disturbed => Undisturbed(e)')
  <2> USE <1>2
  <2>1. CASE StartPublication(e)
    BY <2>1 DEF StartPublication, Undisturbed, Extensions
  <2>2. CASE WriteFile(e)
    <3>1. /\ writer[e] \in Extensions /\ intent' = intent /\ published' = published
          /\ writer' = [writer EXCEPT ![e] = After[@]]
          /\ vault.editions[e] \cup {writer[e]} \in SUBSET Extensions
          /\ Files(e, vault.editions[e] \cup {writer[e]})
        BY <2>2 DEF WriteFile
    <3>2. /\ vault' \in Trees /\ vault'.events = vault.events
          /\ vault'.editions[e] = vault.editions[e] \cup {writer[e]}
          /\ \A d \in Editions \ {e} : vault'.editions[d] = vault.editions[d]
        BY <3>1, FilesFrame
    <3>3. \/ writer[e] = "json" /\ writer'[e] = "md"
          \/ writer[e] = "md" /\ writer'[e] = "commit"
        BY <3>1 DEF Extensions, After
    <3>4. Typed /\ Kept
        BY <3>1, <3>2, <3>3 DEF Extensions
    <3>5. ASSUME e \notin disturbed PROVE Undisturbed(e)'
        BY <3>1, <3>2, <3>3, <3>5 DEF Undisturbed
    <3> QED
        BY <3>4, <3>5
  <2>3. CASE CommitPublication(e)
    <3>1. Typed /\ Kept
        BY <2>3 DEF CommitPublication
    <3>2. ASSUME e \notin disturbed PROVE Undisturbed(e)'
        BY <2>3, <3>2 DEF CommitPublication, Undisturbed
    <3> QED
        BY <3>1, <3>2
  <2>4. CASE FailPublication(e) \/ \E ext \in Extensions : QuarantineFile(e, ext)
    <3>1. /\ intent' = intent /\ published' = published /\ writer[e] # "gone"
          /\ \E w \in {"moving", "gone"} : writer' = [writer EXCEPT ![e] = w]
          /\ vault' = vault \/ \E ext \in Extensions : Files(e, vault.editions[e] \ {ext})
        BY <2>4 DEF FailPublication, QuarantineFile, Extensions
    <3>2. /\ vault' \in Trees /\ vault'.events = vault.events
          /\ \A d \in Editions \ {e} : vault'.editions[d] = vault.editions[d]
        BY <3>1, FilesFrame
    <3>3. Typed /\ Kept /\ writer'[e] \in {"moving", "gone"}
        BY <3>1, <3>2
    <3>4. ASSUME e \notin disturbed PROVE Undisturbed(e)'
        BY <3>1, <3>3, <3>4 DEF Undisturbed
    <3> QED
        BY <3>3, <3>4
  <2>5. CASE QuarantineDone(e)
    BY <2>5 DEF QuarantineDone, Undisturbed
  <2>6. CASE StopPublisher(e)
    BY <2>6 DEF StopPublisher, Undisturbed
  <2>7. CASE \E kind \in {"revocation", "supersession"} : FileEvent(kind, e)
    <3>1. PICK kind \in {"revocation", "supersession"} : FileEvent(kind, e)
        BY <2>7
    <3>2. [kind |-> kind, edition |-> e] \in Events
        BY DEF Events
    <3>3. /\ intent' = intent /\ writer' = writer /\ published' = published
          /\ vault' \in Trees /\ vault'.editions = vault.editions
          /\ vault.events \subseteq vault'.events
        BY <3>1, <3>2 DEF FileEvent, Trees
    <3>4. Whole(vault') = Whole(vault)
        BY <3>3 DEF Whole, Listed
    <3> QED
        BY <3>3, <3>4 DEF Undisturbed
  <2> QED
    BY <2>1, <2>2, <2>3, <2>4, <2>5, <2>6, <2>7 DEF Publication
<1>4. ASSUME NEW d \in Editions \ disturbed' PROVE d \notin disturbed /\ Undisturbed(d)'
  <2>1. CASE d = e
    BY <1>2, <1>3, <2>1
  <2>2. CASE d # e
    <3>1. d \in Whole(vault') <=> d \in Whole(vault)
        BY <1>3, <2>2 DEF Whole, Listed
    <3> QED
        BY <1>2, <1>3, <2>2, <3>1 DEF Undisturbed
  <2> QED
    BY <2>1, <2>2
<1> QED
    BY <1>1, <1>2, <1>3, <1>4, VaultFrame

LEMMA OpenStep ==
    ASSUME BackupInv, NEW o \in Openers, Open(o)
    PROVE  BackupInv'
<1>1. UNCHANGED <<backup, reported, creator, known, restorer, home, losses, writer, published>>
    BY DEF Open, RecoverIntent, RecoverFile, RecoverDone, StopOpener, Outside,
           createVars, restoreVars
<1> USE VaultTypes
<1> DEFINE Typed == /\ intent' \in [Editions -> {"none", "prepared", "recoverable", "committed"}]
                    /\ opener' \in [Openers -> [edition : Editions \cup {0}, list : SUBSET Extensions]]
                    /\ disturbed \subseteq disturbed' /\ disturbed' \subseteq Editions
                    /\ published \ disturbed = published \ disturbed'
                    /\ vault' \in Trees /\ vault.events \subseteq vault'.events
<1>2. Typed /\ \A d \in Editions \ disturbed' : Undisturbed(d)'
  <2> USE <1>1
  <2>1. ASSUME NEW e \in Editions, RecoverIntent(o, e)
        PROVE  Typed /\ \A d \in Editions \ disturbed' : Undisturbed(d)'
    <3>1. /\ intent' = intent /\ vault' = vault /\ intent[e] # "none" /\ e \notin Whole(vault)
          /\ opener' = [opener EXCEPT ![o] = [edition |-> e, list |-> vault.editions[e]]]
          /\ disturbed' = disturbed \cup ({e} \cap AtWork)
        BY <2>1 DEF RecoverIntent
    <3>2. e \in AtWork <=> writer[e] # "gone"
        BY DEF AtWork
    <3>3. e \in published => e \in disturbed
        BY <3>1 DEF Undisturbed, Whole, Listed
    <3>4. e \in published \ disturbed => e \notin AtWork
        BY <3>2 DEF Undisturbed
    <3>5. Typed
        BY <3>1, <3>4
    <3>6. ASSUME NEW d \in Editions \ disturbed' PROVE Undisturbed(d)'
        BY <3>1, <3>2, <3>3, <3>6 DEF Undisturbed
    <3> QED
        BY <3>5, <3>6
  <2>2. ASSUME NEW ext \in Extensions, RecoverFile(o, ext)
        PROVE  Typed /\ \A d \in Editions \ disturbed' : Undisturbed(d)'
    <3> DEFINE e == opener[o].edition
    <3>1. /\ e \in Editions /\ intent' = intent /\ disturbed' = disturbed
          /\ opener' = [opener EXCEPT ![o].list = @ \ {ext}]
          /\ Files(e, vault.editions[e] \ {ext})
        BY <2>2 DEF RecoverFile
    <3>2. /\ vault' \in Trees /\ vault'.events = vault.events
          /\ vault'.editions[e] = vault.editions[e] \ {ext}
          /\ \A d \in Editions \ {e} : vault'.editions[d] = vault.editions[d]
        BY <3>1, FilesFrame
    <3>3. /\ opener' \in [Openers -> [edition : Editions \cup {0}, list : SUBSET Extensions]]
          /\ \A p \in Openers : opener'[p].edition = opener[p].edition
        BY <3>1
    <3>4. ASSUME NEW d \in Editions \ disturbed' PROVE Undisturbed(d)'
      <4>1. Undisturbed(d) /\ (d \in Whole(vault') => d \in Whole(vault))
        BY <3>1, <3>2, <3>4 DEF Whole, Listed
      <4>2. CASE d = e
        BY <3>1, <3>3, <4>1, <4>2 DEF Undisturbed
      <4>3. CASE d # e
        BY <3>1, <3>2, <3>3, <4>1, <4>3 DEF Undisturbed
      <4> QED
        BY <4>2, <4>3
    <3> QED
        BY <3>1, <3>2, <3>3, <3>4
  <2>3. CASE RecoverDone(o)
    <3>1. /\ vault' = vault /\ disturbed' = disturbed /\ opener[o].edition \in Editions
          /\ opener' = [opener EXCEPT ![o] = NoIntents]
          /\ intent' = [intent EXCEPT ![opener[o].edition] = "recoverable"]
        BY <2>3 DEF RecoverDone
    <3> QED
        BY <3>1, BoundsAssumption DEF Undisturbed, NoIntents, Editions
  <2>4. CASE StopOpener(o)
    <3>1. /\ vault' = vault /\ disturbed' = disturbed /\ intent' = intent
          /\ opener' = [opener EXCEPT ![o] = NoIntents]
        BY <2>4 DEF StopOpener
    <3> QED
        BY <3>1, BoundsAssumption DEF Undisturbed, NoIntents, Editions
  <2> QED
    BY <2>1, <2>2, <2>3, <2>4 DEF Open
<1> QED
    BY <1>1, <1>2, VaultFrame

LEMMA RebuildStep ==
    ASSUME BackupInv, RebuildProjection
    PROVE  BackupInv'
<1>1. /\ UNCHANGED <<backup, reported, creator, known, restorer, home, losses>>
      /\ UNCHANGED <<writer, opener, vault>>
      /\ published' = published \cup Whole(vault)
      /\ intent' = [e \in Editions |-> IF e \in Whole(vault) THEN "committed" ELSE intent[e]]
      /\ disturbed' = disturbed \cup (Whole(vault) \cap AtWork)
    BY DEF RebuildProjection, Outside, createVars, restoreVars
<1> USE VaultTypes
<1>2. Whole(vault) \subseteq Editions /\ \A e \in Whole(vault) : vault.editions[e] = {"json", "md"}
    BY DEF Whole, Listed, Extensions
<1>3. \A e \in Editions : e \in AtWork <=> writer[e] # "gone"
    BY DEF AtWork
<1>4. ASSUME NEW d \in Editions \ disturbed' PROVE d \notin disturbed /\ Undisturbed(d)'
    BY <1>1, <1>2, <1>3, <1>4 DEF Undisturbed
<1>5. \A e \in published \ disturbed : e \notin disturbed'
    BY <1>1, <1>3 DEF Undisturbed
<1> QED
    BY <1>1, <1>2, <1>4, <1>5, VaultFrame

-----------------------------------------------------------------------------
(* A create, while nothing is reported: restores from what it makes vouch  *)
(* for nothing, and the home that they install neither.                    *)
LEMMA CreateStep ==
    ASSUME BackupInv, NEW c \in Creators, Create(c)
    PROVE  BackupInv'
<1>1. UNCHANGED <<intent, writer, opener, published, disturbed, vault, restorer, home, losses>>
    BY DEF Create, Proceed, BeginBackup, CopyEditions, CopyEvents, WriteManifest, ReportBackup,
           FailBackup, CrashBackup, vaultVars, restoreVars
<1>2. ~reported
    BY DEF BackupInv, CreatorOK, BackupOK, Create, Proceed, BeginBackup, CopyEditions, CopyEvents,
           WriteManifest, ReportBackup, FailBackup, CrashBackup
<1> DEFINE Steps == {"idle", "editions", "events", "manifest", "verify"}
<1> DEFINE BackupType == [there : BOOLEAN, tree : Trees, manifest : Manifests]
<1>3. /\ reported \in BOOLEAN /\ backup \in BackupType /\ backup.tree \in Trees /\ backup.manifest \in Manifests
      /\ creator \in [Creators -> Steps] /\ vault \in Trees
      /\ known \in [editions : SUBSET Editions, revoked : SUBSET Editions]
      /\ Revoked(vault.events) \subseteq Editions
    BY DEF BackupInv, TypeOK, Revoked
(* Whoever acts is or becomes the only one at work.                        *)
<1>4. /\ \A d \in Creators \ {c} : creator[d] = "idle"
      /\ creator[c] = "idle" => ~backup.there /\ BeginBackup(c)
      /\ creator[c] # "idle" => backup.there
    BY DEF BackupInv, CreatorOK, Create, BeginBackup, Proceed, CopyEditions, CopyEvents,
           WriteManifest, ReportBackup, FailBackup, CrashBackup
<1> DEFINE Reaches(to) ==
          /\ creator' = [creator EXCEPT ![c] = to]
          /\ backup' \in BackupType /\ reported' \in BOOLEAN
          /\ known' \in [editions : SUBSET Editions, revoked : SUBSET Editions]
          /\ known'.editions \subseteq published \ disturbed
          /\ to # "idle" => backup'.there /\ ~reported'
          /\ to \in {"events", "manifest"} =>
                 Covers(backup.tree)' /\ known'.revoked \subseteq Revoked(vault.events)
          /\ to = "manifest" => Vouches(backup.tree)'
          /\ to = "verify" => \A m \in backup'.manifest : Vouches(m)'
          /\ BackupOK'
<1>5. \E to \in Steps : Reaches(to)
  <2>0. ~reported' => BackupOK'
    BY DEF BackupOK
  <2>1. CASE BeginBackup(c)
    <3>1. /\ creator' = [creator EXCEPT ![c] = "editions"] /\ reported' = reported
          /\ backup' = [backup EXCEPT !.there = TRUE]
          /\ known' = [known EXCEPT !.editions = published \ disturbed]
        BY <2>1 DEF BeginBackup, NextStep
    <3>9. Reaches("editions")
        BY <2>0, <1>2, <1>3, <3>1, VaultTypes
    <3> QED
        BY <3>9
  <2>2. CASE CopyEditions(c)
    <3>1. /\ creator' = [creator EXCEPT ![c] = "events"] /\ reported' = reported
          /\ backup' = [backup EXCEPT !.tree.editions = vault.editions]
          /\ known' = [known EXCEPT !.revoked = Revoked(vault.events)]
          /\ creator[c] # "idle"
        BY <2>2 DEF CopyEditions, Proceed, NextStep
    <3>2. /\ backup' \in BackupType /\ backup'.there /\ backup'.tree.editions = vault.editions
        BY <1>3, <1>4, <3>1 DEF Trees
    <3>3. /\ known.editions \subseteq published \ disturbed
          /\ \A e \in known.editions : vault.editions[e] = {"json", "md"}
        BY <1>3, VaultTypes DEF BackupInv, VaultOK, Undisturbed
    <3>4. known.editions \subseteq Whole(backup.tree)'
        BY <1>3, <3>2, <3>3 DEF Whole, Listed
    <3>9. Reaches("events")
        BY <2>0, <1>2, <1>3, <3>1, <3>2, <3>3, <3>4 DEF Covers
    <3> QED
        BY <3>9
  <2>3. CASE CopyEvents(c)
    <3>1. /\ creator' = [creator EXCEPT ![c] = "manifest"] /\ reported' = reported
          /\ backup' = [backup EXCEPT !.tree.events = vault.events] /\ known' = known
          /\ creator[c] = "events"
        BY <2>3 DEF CopyEvents, Proceed, NextStep
    <3>2. /\ backup' \in BackupType /\ backup'.there
          /\ backup'.tree.editions = backup.tree.editions /\ backup'.tree.events = vault.events
        BY <1>3, <1>4, <3>1 DEF Trees
    <3>3. Covers(backup.tree) /\ known.revoked \subseteq Revoked(vault.events)
        BY <3>1 DEF BackupInv, CreatorOK
    <3>4. Vouches(backup.tree)'
        BY <3>1, <3>2, <3>3 DEF Covers, Vouches, Whole, Listed, Revoked
    <3>9. Reaches("manifest")
        BY <2>0, <1>2, <1>3, <3>1, <3>2, <3>3, <3>4 DEF BackupInv, VaultOK, Vouches
    <3> QED
        BY <3>9
  <2>4. CASE WriteManifest(c)
    <3>1. /\ creator' = [creator EXCEPT ![c] = "verify"] /\ reported' = reported
          /\ backup' = [backup EXCEPT !.manifest = {backup.tree}] /\ known' = known
          /\ creator[c] = "manifest"
        BY <2>4 DEF WriteManifest, Proceed, NextStep
    <3>2. backup' \in BackupType /\ backup'.there /\ backup'.manifest = {backup.tree}
        BY <1>3, <1>4, <3>1 DEF Manifests
    <3>3. Vouches(backup.tree)
        BY <3>1 DEF BackupInv, CreatorOK
    <3>4. \A m \in backup'.manifest : Vouches(m)'
        BY <3>1, <3>2, <3>3 DEF Vouches, Covers
    <3>9. Reaches("verify")
        BY <2>0, <1>2, <1>3, <3>1, <3>2, <3>4 DEF BackupInv, VaultOK
    <3> QED
        BY <3>9
  <2>5. CASE ReportBackup(c)
    <3>1. /\ creator' = [creator EXCEPT ![c] = "idle"] /\ reported' = TRUE
          /\ backup' = backup /\ known' = known /\ creator[c] = "verify" /\ Verified
        BY <2>5 DEF ReportBackup
    <3>2. \A m \in backup.manifest : Vouches(m)
        BY <3>1 DEF BackupInv, CreatorOK
    <3>3. BackupOK'
        BY <3>1, <3>2 DEF Verified, BackupOK, Within, Vouches, Covers, Whole, Listed, Revoked
    <3>9. Reaches("idle")
        BY <2>0, <1>3, <3>1, <3>3 DEF BackupInv, VaultOK
    <3> QED
        BY <3>9
  <2>6. CASE FailBackup(c)
    <3>1. /\ creator' = [creator EXCEPT ![c] = "idle"] /\ reported' = FALSE
          /\ backup' = NoBackup /\ known' = known
        BY <2>6 DEF FailBackup
    <3>9. Reaches("idle")
        BY <2>0, <1>3, <3>1, Voids DEF BackupInv, VaultOK, NoBackup
    <3> QED
        BY <3>9
  <2>7. CASE CrashBackup(c)
    <3>1. /\ creator' = [creator EXCEPT ![c] = "idle"] /\ reported' = reported
          /\ backup' = backup /\ known' = known
        BY <2>7 DEF CrashBackup
    <3>9. Reaches("idle")
        BY <2>0, <1>2, <1>3, <3>1 DEF BackupInv, VaultOK
    <3> QED
        BY <3>9
  <2> QED
    BY <2>1, <2>2, <2>3, <2>4, <2>5, <2>6, <2>7 DEF Create
<1>50. PICK to \in Steps : Reaches(to)
    BY <1>5
<1>6. creator'[c] = to /\ \A d \in Creators \ {c} : creator'[d] = "idle"
    BY <1>3, <1>4, <1>50
<1>7. TypeOK'
    BY <1>1, <1>3, <1>50 DEF BackupInv, TypeOK
<1>8. VaultOK'
    BY <1>1, <1>50 DEF BackupInv, VaultOK, Undisturbed
<1>9. \A d \in Creators : CreatorOK(d)'
    BY <1>1, <1>50, <1>6 DEF CreatorOK
<1>10. \A r \in Restorers : ~restorer[r].reported
    BY <1>2 DEF BackupInv, RestorerOK
<1>11. \A h \in home : ~h.reported
    BY <1>2 DEF BackupInv, HomeOK
<1> QED
    BY <1>1, <1>50, <1>7, <1>8, <1>9, <1>10, <1>11 DEF BackupInv, RestorerOK, HomeOK

-----------------------------------------------------------------------------
(* The backup only ever loses, and what is copied from it later too.       *)
LEMMA LossStep ==
    ASSUME BackupInv,
           \/ \E e \in Editions, ext \in Extensions : LoseFile(e, ext)
           \/ \E x \in Events : LoseEvent(x)
    PROVE  BackupInv'
<1>1. PICK tree \in Trees :
          /\ Lose(tree)
          /\ \A e \in Editions : tree.editions[e] \subseteq backup.tree.editions[e]
          /\ tree.events \subseteq backup.tree.events
  <2>0. backup.tree \in Trees
    BY DEF BackupInv, TypeOK
  <2>1. CASE \E e \in Editions, ext \in Extensions : LoseFile(e, ext)
    <3>1. PICK e \in Editions, ext \in Extensions : LoseFile(e, ext)
        BY <2>1
    <3> DEFINE t == [backup.tree EXCEPT !.editions[e] = @ \ {ext}]
    <3>2. backup.tree.editions[e] \ {ext} \in SUBSET Extensions
        BY <2>0 DEF Trees
    <3>3. t \in Trees /\ t.events = backup.tree.events
        BY <2>0, <3>2 DEF Trees
    <3>4. \A d \in Editions : t.editions[d] \subseteq backup.tree.editions[d]
        BY <2>0 DEF Trees
    <3>5. Lose(t)
        BY <3>1 DEF LoseFile
    <3> QED
        BY <3>3, <3>4, <3>5
  <2>2. CASE \E x \in Events : LoseEvent(x)
    <3>1. PICK x \in Events : LoseEvent(x)
        BY <2>2
    <3> DEFINE t == [backup.tree EXCEPT !.events = @ \ {x}]
    <3>2. /\ t \in Trees /\ t.editions = backup.tree.editions
          /\ t.events \subseteq backup.tree.events
        BY <2>0 DEF Trees
    <3>3. Lose(t)
        BY <3>1 DEF LoseEvent
    <3> QED
        BY <3>2, <3>3
  <2> QED
    BY <2>1, <2>2
<1>2. /\ UNCHANGED <<intent, writer, opener, published, disturbed, vault, reported, creator, known, restorer, home>> /\ reported
      /\ losses' \in 0..MaxLosses
      /\ backup' \in [there : BOOLEAN, tree : Trees, manifest : Manifests]
      /\ backup'.there = backup.there /\ backup'.manifest = backup.manifest /\ backup'.tree = tree
    BY <1>1, BoundsAssumption DEF Lose, vaultVars, restoreVars, BackupInv, TypeOK
<1>3. TypeOK' /\ VaultOK'
    BY <1>2 DEF BackupInv, TypeOK, VaultOK, Undisturbed
<1>4. \A c \in Creators : CreatorOK(c)'
    BY <1>2 DEF BackupInv, CreatorOK
<1>5. BackupOK'
    BY <1>1, <1>2 DEF BackupInv, BackupOK, Within, Vouches, Covers
<1> QED
    BY <1>2, <1>3, <1>4, <1>5 DEF BackupInv, RestorerOK, HomeOK

-----------------------------------------------------------------------------
LEMMA FiniteTrees == ASSUME NEW t \in Trees PROVE IsFiniteSet(Listed(t)) /\ IsFiniteSet(t.events)
<1> DEFINE Kinds == {"revocation", "supersession"}
<1> DEFINE f == [p \in Kinds \X Editions |-> [kind |-> p[1], edition |-> p[2]]]
<1>1. IsFiniteSet(Editions)
    BY FS_Interval, BoundsAssumption DEF Editions
<1>2. IsFiniteSet(Kinds)
  <2>1. IsFiniteSet({} \cup {"revocation"})
    BY FS_EmptySet, FS_AddElement
  <2>2. IsFiniteSet(({} \cup {"revocation"}) \cup {"supersession"})
    BY <2>1, FS_AddElement
  <2>3. ({} \cup {"revocation"}) \cup {"supersession"} = Kinds
    OBVIOUS
  <2> QED
    BY <2>2, <2>3
<1>3. IsFiniteSet(Kinds \X Editions)
    BY <1>1, <1>2, FS_Product
<1>4. f \in Surjection(Kinds \X Editions, Events)
  <2>1. f \in [Kinds \X Editions -> Events]
    BY DEF Events
  <2>2. ASSUME NEW x \in Events PROVE \E p \in Kinds \X Editions : f[p] = x
    <3>1. x = [kind |-> x.kind, edition |-> x.edition] /\ <<x.kind, x.edition>> \in Kinds \X Editions
        BY DEF Events
    <3> QED
        BY <3>1
  <2> QED
    BY <2>1, <2>2 DEF Surjection
<1>5. IsFiniteSet(Events)
    BY <1>3, <1>4, FS_Surjection
<1>6. Listed(t) \in SUBSET Editions /\ t.events \in SUBSET Events
    BY DEF Listed, Trees
<1> QED
    BY <1>1, <1>5, <1>6, FS_Subset

(* What has its size and nothing else is the whole of it.                  *)
LEMMA CompleteIsEqual ==
    ASSUME NEW t \in Trees, NEW m \in Trees, Complete(t, {m}),
           Within(t.editions, m), t.events \subseteq m.events
    PROVE  Listed(t) = Listed(m) /\ t.events = m.events
<1>1. IsFiniteSet(Listed(m)) /\ IsFiniteSet(m.events)
    BY FiniteTrees
<1>2. Listed(t) \in SUBSET Listed(m) /\ t.events \in SUBSET m.events
    BY DEF Within, Listed
<1>3. /\ Cardinality(Listed(t)) = Cardinality(Listed(m))
      /\ Cardinality(t.events) = Cardinality(m.events)
    BY DEF Complete
<1>4. Listed(m) = Listed(t)
    BY <1>1, <1>2, <1>3, FS_Subset
<1>5. m.events = t.events
    BY <1>1, <1>2, <1>3, FS_Subset
<1> QED
    BY <1>4, <1>5

(* A restore goes by what it verified: what it copies later is in it.      *)
LEMMA RestoreStep ==
    ASSUME BackupInv, NEW r \in Restorers, Restore(r)
    PROVE  BackupInv'
<1> DEFINE Steps == {"idle", "editions", "events", "install"}
<1> DEFINE RestorerType == [step : Steps, manifest : Manifests, reported : BOOLEAN, tree : Trees]
<1>1. UNCHANGED <<intent, writer, opener, published, disturbed, vault, backup, reported, creator, known, losses>>
    BY DEF Restore, BeginRestore, RestoreEditions, RestoreEvents, InstallHome, FailRestore, Turn,
           vaultVars, createVars
<1>2. /\ restorer \in [Restorers -> RestorerType] /\ restorer[r] \in RestorerType
      /\ home \subseteq Homes /\ (\A g, h \in home : g = h) /\ HomeOK
      /\ backup.tree \in Trees /\ backup.manifest \in Manifests /\ reported \in BOOLEAN
      /\ Idle \in RestorerType
    BY Voids DEF BackupInv, TypeOK, Idle
<1>3. BackupOK /\ (\A q \in Restorers : RestorerOK(q)) /\ RestorerOK(r)
    BY DEF BackupInv
<1> DEFINE Right(new) ==
          new.reported =>
              /\ reported /\ new.manifest = backup.manifest
              /\ \A m \in new.manifest :
                     /\ new.step \in {"events", "install"} => Within(new.tree.editions, m)
                     /\ new.step = "install" => new.tree.events \subseteq m.events
<1>4. \E new \in RestorerType : restorer' = [restorer EXCEPT ![r] = new] /\ Right(new)
  <2>0. Right(restorer[r])
    BY <1>3 DEF RestorerOK
  <2>1. CASE BeginRestore(r)
    <3> DEFINE new == [step |-> "editions", manifest |-> backup.manifest,
                       reported |-> reported, tree |-> Empty]
    <3>1. restorer' = [restorer EXCEPT ![r] = new]
        BY <2>1 DEF BeginRestore, Turn
    <3>2. new \in RestorerType /\ Right(new)
        BY <1>2, Voids
    <3> QED
        BY <3>1, <3>2
  <2>2. CASE RestoreEditions(r)
    <3> DEFINE new == [restorer[r] EXCEPT !.step = "events", !.tree.editions = backup.tree.editions]
    <3>1. restorer' = [restorer EXCEPT ![r] = new]
        BY <2>2 DEF RestoreEditions, Turn
    <3>2. /\ new \in RestorerType /\ new.reported = restorer[r].reported /\ new.step = "events"
          /\ new.manifest = restorer[r].manifest /\ new.tree.editions = backup.tree.editions
        BY <1>2 DEF Trees
    <3> HIDE DEF new
    <3>3. Right(new)
        BY <1>3, <2>0, <3>2 DEF BackupOK
    <3> QED
        BY <3>1, <3>2, <3>3
  <2>3. CASE RestoreEvents(r)
    <3> DEFINE new == [restorer[r] EXCEPT !.step = "install", !.tree.events = backup.tree.events]
    <3>1. restorer' = [restorer EXCEPT ![r] = new] /\ restorer[r].step = "events"
        BY <2>3 DEF RestoreEvents, Turn
    <3>2. /\ new \in RestorerType /\ new.reported = restorer[r].reported /\ new.step = "install"
          /\ new.manifest = restorer[r].manifest
          /\ new.tree.editions = restorer[r].tree.editions /\ new.tree.events = backup.tree.events
        BY <1>2 DEF Trees
    <3> HIDE DEF new
    <3>3. Right(new)
        BY <1>3, <2>0, <3>1, <3>2 DEF BackupOK
    <3> QED
        BY <3>1, <3>2, <3>3
  <2>4. CASE InstallHome(r) \/ FailRestore(r)
    <3>1. restorer' = [restorer EXCEPT ![r] = Idle]
        BY <2>4 DEF InstallHome, FailRestore, Turn
    <3>2. Right(Idle)
        BY DEF Idle
    <3> QED
        BY <1>2, <3>1, <3>2
  <2> QED
    BY <2>1, <2>2, <2>3, <2>4 DEF Restore
<1>5. PICK new \in RestorerType : restorer' = [restorer EXCEPT ![r] = new] /\ Right(new)
    BY <1>4
<1>6. restorer' \in [Restorers -> RestorerType] /\ restorer'[r] = new
      /\ \A q \in Restorers \ {r} : restorer'[q] = restorer[q]
    BY <1>2, <1>5
<1>7. \A q \in Restorers : RestorerOK(q)'
    BY <1>1, <1>3, <1>5, <1>6 DEF RestorerOK
<1>8. home' \subseteq Homes /\ (\A g, h \in home' : g = h) /\ HomeOK'
  <2>1. CASE home' = home
    BY <1>1, <1>2, <2>1 DEF HomeOK
  <2>2. CASE InstallHome(r)
    <3> DEFINE t == restorer[r].tree
    <3> DEFINE g == [vault |-> Rebuilt(t), manifest |-> restorer[r].manifest,
                     reported |-> restorer[r].reported]
    <3>1. /\ home' = {g} /\ Complete(t, restorer[r].manifest) /\ restorer[r].step = "install"
          /\ t \in Trees /\ restorer[r].manifest \in Manifests
        BY <1>2, <2>2 DEF InstallHome, Turn
    <3>2. Rebuilt(t) \in [editions : SUBSET Editions, events : SUBSET Events, readable : SUBSET Editions]
        BY <3>1 DEF Rebuilt, Listed, Trees
    <3>3. g \in Homes
        BY <1>2, <3>2 DEF Homes
    <3>4. g.vault.readable = g.vault.editions \ Revoked(g.vault.events)
        BY DEF Rebuilt
    <3>5. ASSUME restorer[r].reported, NEW m \in restorer[r].manifest
          PROVE  Listed(t) = Listed(m) /\ t.events = m.events
        <4>1. restorer[r].manifest = {m} /\ m \in Trees
            BY <3>1, <3>5 DEF Manifests
        <4>2. Within(t.editions, m) /\ t.events \subseteq m.events
            BY <1>3, <3>1, <3>5 DEF RestorerOK
        <4> QED
            BY <3>1, <4>1, <4>2, CompleteIsEqual
    <3>6. restorer[r].reported => reported /\ restorer[r].manifest = backup.manifest
        BY <1>3 DEF RestorerOK
    <3>7. /\ g.reported = restorer[r].reported /\ g.manifest = restorer[r].manifest
          /\ g.vault.editions = Listed(t) /\ g.vault.events = t.events
        BY DEF Rebuilt
    <3> HIDE DEF g
    <3> QED
        BY <1>1, <3>1, <3>3, <3>4, <3>5, <3>6, <3>7 DEF HomeOK
  <2> QED
    BY <2>1, <2>2 DEF Restore, BeginRestore, RestoreEditions, RestoreEvents, FailRestore
<1>9. TypeOK' /\ VaultOK'
    BY <1>1, <1>6, <1>8 DEF BackupInv, TypeOK, VaultOK, Undisturbed
<1>10. \A c \in Creators : CreatorOK(c)'
    BY <1>1 DEF BackupInv, CreatorOK, Covers, Vouches
<1>11. BackupOK'
    BY <1>1, <1>3 DEF BackupOK, Vouches, Covers
<1> QED
    BY <1>7, <1>8, <1>9, <1>10, <1>11 DEF BackupInv

LEMMA BackupNext == BackupInv /\ [Next]_vars => BackupInv'
<1> SUFFICES ASSUME BackupInv, [Next]_vars PROVE BackupInv'
    OBVIOUS
<1>1. CASE \E e \in Editions : Publication(e)
    BY <1>1, PublicationStep
<1>6. CASE \E o \in Openers : Open(o)
    BY <1>6, OpenStep
<1>7. CASE RebuildProjection
    BY <1>7, RebuildStep
<1>2. CASE \E c \in Creators : Create(c)
    BY <1>2, CreateStep
<1>3. CASE \E r \in Restorers : Restore(r)
    BY <1>3, RestoreStep
<1>4. CASE \/ \E e \in Editions, ext \in Extensions : LoseFile(e, ext)
           \/ \E x \in Events : LoseEvent(x)
    BY <1>4, LossStep
<1>5. CASE UNCHANGED vars
    BY <1>5 DEF vars, vaultVars, createVars, restoreVars, BackupInv, TypeOK, VaultOK, Undisturbed,
                CreatorOK, BackupOK, RestorerOK, HomeOK, Covers, Vouches
<1> QED
    BY <1>1, <1>2, <1>3, <1>4, <1>5, <1>6, <1>7 DEF Next

(* The invariant that the theorems below rest on.                          *)
THEOREM BackupInvariant == Spec => []BackupInv
<1> QED
    BY BackupInit, BackupNext, PTL DEF Spec

(* Every variable holds what the code can put there.                       *)
THEOREM TypeCorrect == Spec => []TypeOK
<1>1. BackupInv => TypeOK
    BY DEF BackupInv
<1> QED
    BY <1>1, BackupInvariant, PTL

(* A backup reported created has every edition that was published when it  *)
(* was begun, with both files, and no other by halves; not promised are    *)
(* those that somebody else acted on while their publisher was at work.    *)
THEOREM ReportedIsWholeHolds == Spec => []ReportedIsWhole
<1>1. BackupInv => ReportedIsWhole
    BY DEF BackupInv, BackupOK, ReportedIsWhole, Vouches, Covers
<1> QED
    BY <1>1, BackupInvariant, PTL

(* A restored home has what the manifest of a reported backup declares,    *)
(* whatever was lost meanwhile.                                            *)
THEOREM RestoredAsDeclaredHolds == Spec => []RestoredAsDeclared
<1>1. BackupInv => RestoredAsDeclared
    BY DEF BackupInv, HomeOK, RestoredAsDeclared
<1> QED
    BY <1>1, BackupInvariant, PTL

(* A restored home does not serve what was revoked when the editions were  *)
(* read.                                                                   *)
THEOREM RevokedStaysRevokedHolds == Spec => []RevokedStaysRevoked
<1>1. BackupInv => RevokedStaysRevoked
  <2> SUFFICES ASSUME BackupInv, NEW h \in home, h.reported
               PROVE  h.vault.readable \cap known.revoked = {}
    BY DEF RevokedStaysRevoked
  <2>1. /\ h.vault.readable \cap Revoked(h.vault.events) = {}
        /\ reported /\ h.manifest = backup.manifest
        /\ \A m \in h.manifest : h.vault.events = m.events
    BY DEF BackupInv, HomeOK
  <2>2. PICK m \in backup.manifest : Vouches(m)
    BY <2>1 DEF BackupInv, BackupOK
  <2> QED
    BY <2>1, <2>2 DEF Vouches
<1> QED
    BY <1>1, BackupInvariant, PTL

(* No step takes away a reported backup or an installed home.              *)
THEOREM NothingIsReplacedHolds == Spec => NothingIsReplaced
<1> DEFINE Kept == /\ reported => reported' /\ backup'.there /\ backup'.manifest = backup.manifest
                   /\ home # {} => home' = home
<1>1. BackupInv /\ [Next]_vars => [Kept]_vars
  <2> SUFFICES ASSUME BackupInv, Next PROVE Kept
    OBVIOUS
  <2>0. backup \in [there : BOOLEAN, tree : Trees, manifest : Manifests] /\ BackupOK
        /\ \A c \in Creators : CreatorOK(c)
    BY DEF BackupInv, TypeOK
  <2>1. CASE \E e \in Editions : Publication(e)
    <3>1. UNCHANGED <<backup, reported, home>>
        BY <2>1 DEF Publication, StartPublication, WriteFile, CommitPublication, FailPublication,
               QuarantineFile, QuarantineDone, StopPublisher, FileEvent, Outside, createVars,
               restoreVars
    <3> QED
        BY <2>0, <3>1 DEF BackupOK
  <2>5. CASE RebuildProjection \/ \E o \in Openers : Open(o)
    <3>1. UNCHANGED <<backup, reported, home>>
        BY <2>5 DEF RebuildProjection, Open, RecoverIntent, RecoverFile, RecoverDone, StopOpener,
               Outside, createVars, restoreVars
    <3> QED
        BY <2>0, <3>1 DEF BackupOK
  <2>2. CASE \E c \in Creators : Create(c)
    <3>1. PICK c \in Creators : Create(c)
        BY <2>2
    <3>2. ~reported /\ home' = home
        BY <2>0, <3>1 DEF CreatorOK, BackupOK, Create, Proceed, BeginBackup, CopyEditions,
               CopyEvents, WriteManifest, ReportBackup, FailBackup, CrashBackup, restoreVars
    <3> QED
        BY <3>2
  <2>3. CASE \E r \in Restorers : Restore(r)
    BY <2>0, <2>3 DEF Restore, BeginRestore, RestoreEditions, RestoreEvents, InstallHome, Free,
           FailRestore, Turn, createVars, BackupOK
  <2>4. CASE \/ \E e \in Editions, ext \in Extensions : LoseFile(e, ext)
             \/ \E x \in Events : LoseEvent(x)
    BY <2>0, <2>4 DEF LoseFile, LoseEvent, Lose, restoreVars, BackupOK
  <2> QED
    BY <2>1, <2>2, <2>3, <2>4, <2>5 DEF Next
<1> QED
    BY <1>1, BackupInvariant, PTL DEF Spec, NothingIsReplaced
=============================================================================
