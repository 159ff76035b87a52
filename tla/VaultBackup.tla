----------------------------- MODULE VaultBackup -----------------------------
(***************************************************************************)
(* Backup and restore of the Knowledge Vault (art-knowledge backup.rs, and *)
(* `art backup' of art-cli main.rs).  A backup copies files, without the   *)
(* control database and without a lock, from a vault that publishes and    *)
(* revokes meanwhile; a restore rebuilds a vault from them in a staging    *)
(* directory and renames it to a home that must not exist.                 *)
(*                                                                         *)
(* One knowledge key, one backup directory, one target home.  Files are    *)
(* immutable: a directory that is listed and then read file by file gives  *)
(* what it has when listed, or an error when one of them is gone, so that  *)
(* copying a tree is one step here.  Any step may fail, and any process    *)
(* may die.                                                                *)
(*                                                                         *)
(* Of publication, what is kept is what happens to files, with whoever     *)
(* opens or rebuilds the vault at work beside the publishers; the rest of  *)
(* it, and of revocation, is in modules KnowledgePublish and               *)
(* EditionLifecycle.                                                       *)
(***************************************************************************)
EXTENDS Naturals, FiniteSets

CONSTANTS
    Openers,      \* processes that open the vault, and so recover publications
    Creators,     \* processes that run backup create, with the same output
    Restorers,    \* processes that run backup restore, with the same target
    Existing,     \* editions that the vault has when all this begins
    MaxEditions,  \* bound: editions, existing ones and publications
    MaxEvents,    \* bound: lifecycle events
    MaxLosses     \* bound: files that the backup's storage loses

ASSUME BoundsAssumption ==
    /\ MaxEditions \in Nat /\ MaxEvents \in Nat /\ MaxLosses \in Nat
    /\ Existing \subseteq 1..MaxEditions

Editions == 1..MaxEditions
Extensions == {"json", "md"}
Events == [kind : {"revocation", "supersession"}, edition : Editions]

VARIABLES
    intent,    \* state of the publication of an edition
    writer,    \* what its publisher does next: a file, the commit, moving files, nothing
    opener,    \* the edition that an opener takes for interrupted, with the files it listed
    published, \* history: the editions that have been in the projection
    disturbed, \* history: those that others acted on while their publisher was at work
    vault,     \* files of the live vault
    backup,    \* the output directory: whether it is there, its files, its manifest
    reported,  \* a create of this directory has returned Ok
    creator,   \* where a create is
    known,     \* what the vault had when the backup was begun and when editions were read
    restorer,  \* a restore: where it is, the manifest it goes by, its staging
    home,      \* the target of restore
    losses

vaultVars == <<intent, writer, opener, published, disturbed, vault>>
createVars == <<backup, reported, creator, known>>
restoreVars == <<restorer, home>>
vars == <<vaultVars, createVars, restoreVars, losses>>

Trees == [editions : [Editions -> SUBSET Extensions], events : SUBSET Events]
Empty == [editions |-> [e \in Editions |-> {}], events |-> {}]
NoBackup == [there |-> FALSE, tree |-> Empty, manifest |-> {}]
NoIntents == [edition |-> 0, list |-> {}]
Idle == [step |-> "idle", manifest |-> {}, reported |-> FALSE, tree |-> Empty]

Listed(tree) == {e \in Editions : "json" \in tree.editions[e]}
Whole(tree) == {e \in Listed(tree) : "md" \in tree.editions[e]}
Revoked(events) == {e \in Editions : [kind |-> "revocation", edition |-> e] \in events}

Init ==
    /\ intent = [e \in Editions |-> IF e \in Existing THEN "committed" ELSE "none"]
    /\ writer = [e \in Editions |-> "gone"]
    /\ opener = [o \in Openers |-> NoIntents]
    /\ published = Existing
    /\ disturbed = {}
    /\ vault = [Empty EXCEPT !.editions =
                    [e \in Editions |-> IF e \in Existing THEN Extensions ELSE {}]]
    /\ backup = NoBackup
    /\ reported = FALSE
    /\ creator = [c \in Creators |-> "idle"]
    /\ known = [editions |-> {}, revoked |-> {}]
    /\ restorer = [r \in Restorers |-> Idle]
    /\ home = {}
    /\ losses = 0

-----------------------------------------------------------------------------
(* The vault meanwhile.  An edition stands for one publication; several    *)
(* proposals of the key may be in publication at a time.                   *)

After == [json |-> "md", md |-> "commit"]

Files(e, present) == vault' = [vault EXCEPT !.editions[e] = present]
Outside == UNCHANGED <<createVars, restoreVars, losses>>

StartPublication(e) ==
    /\ intent[e] = "none" /\ \A f \in 1..(e - 1) : intent[f] # "none"
    /\ intent' = [intent EXCEPT ![e] = "prepared"]
    /\ writer' = [writer EXCEPT ![e] = "json"]
    /\ UNCHANGED <<opener, published, disturbed, vault>> /\ Outside

(* atomic_create of the manifest and then of the markdown.  The temporary  *)
(* file that it renames, or finds moved by somebody, is left out: for the  *)
(* publisher and for a backup it is one more cause of an error.            *)
WriteFile(e) ==
    /\ writer[e] \in Extensions
    /\ Files(e, vault.editions[e] \cup {writer[e]})
    /\ writer' = [writer EXCEPT ![e] = After[@]]
    /\ UNCHANGED <<intent, opener, published, disturbed>> /\ Outside

(* The publisher does not look at its files again; that somebody else has  *)
(* projected the edition is an error.                                      *)
CommitPublication(e) ==
    /\ writer[e] = "commit" /\ e \notin published
    /\ writer' = [writer EXCEPT ![e] = "gone"]
    /\ intent' = [intent EXCEPT ![e] = "committed"]
    /\ published' = published \cup {e}
    /\ UNCHANGED <<opener, disturbed, vault>> /\ Outside

(* An error of the publisher, which in writing the markdown may have       *)
(* removed the manifest: it quarantines its files unless somebody has      *)
(* settled the publication.                                                *)
FailPublication(e) ==
    /\ writer[e] \in Extensions \cup {"commit"}
    /\ \/ UNCHANGED vault
       \/ writer[e] = "md" /\ Files(e, vault.editions[e] \ {"json"})
    /\ writer' = [writer EXCEPT ![e] = IF intent[e] = "prepared" THEN "moving" ELSE "gone"]
    /\ UNCHANGED <<intent, opener, published, disturbed>> /\ Outside

QuarantineFile(e, ext) ==
    /\ writer[e] = "moving" /\ ext \in vault.editions[e]
    /\ Files(e, vault.editions[e] \ {ext})
    /\ UNCHANGED <<intent, writer, opener, published, disturbed>> /\ Outside

QuarantineDone(e) ==
    /\ writer[e] = "moving" /\ vault.editions[e] = {}
    /\ writer' = [writer EXCEPT ![e] = "gone"]
    /\ intent' = [intent EXCEPT ![e] = IF @ = "committed" THEN @ ELSE "recoverable"]
    /\ UNCHANGED <<opener, published, disturbed, vault>> /\ Outside

(* The publisher dies, or ends because somebody has moved a file first.    *)
StopPublisher(e) ==
    /\ writer[e] # "gone"
    /\ writer' = [writer EXCEPT ![e] = "gone"]
    /\ UNCHANGED <<intent, opener, published, disturbed, vault>> /\ Outside

(* recover_publish_intents, of whoever opens the vault, takes every        *)
(* prepared publication for interrupted, also one whose publisher is at    *)
(* work.  The intents are read first: one may have been settled since.     *)
AtWork == {e \in Editions : writer[e] # "gone"}

RecoverIntent(o, e) ==
    /\ opener[o] = NoIntents
    /\ intent[e] # "none" /\ e \notin Whole(vault)
    /\ opener' = [opener EXCEPT ![o] = [edition |-> e, list |-> vault.editions[e]]]
    /\ disturbed' = disturbed \cup ({e} \cap AtWork)
    /\ UNCHANGED <<intent, writer, published, vault>> /\ Outside

RecoverFile(o, ext) ==
    /\ opener[o].edition \in Editions
    /\ ext \in opener[o].list \cap vault.editions[opener[o].edition]
    /\ Files(opener[o].edition, vault.editions[opener[o].edition] \ {ext})
    /\ opener' = [opener EXCEPT ![o].list = @ \ {ext}]
    /\ UNCHANGED <<intent, writer, published, disturbed>> /\ Outside

RecoverDone(o) ==
    /\ opener[o].edition \in Editions /\ opener[o].list = {}
    /\ opener' = [opener EXCEPT ![o] = NoIntents]
    /\ intent' = [intent EXCEPT ![opener[o].edition] = "recoverable"]
    /\ UNCHANGED <<writer, published, disturbed, vault>> /\ Outside

(* It dies, or ends because a file to move is gone.                        *)
StopOpener(o) ==
    /\ opener[o] # NoIntents
    /\ opener' = [opener EXCEPT ![o] = NoIntents]
    /\ UNCHANGED <<intent, writer, published, disturbed, vault>> /\ Outside

(* rebuild_projection, by recovery that finds both files or by command: a  *)
(* manifest without its markdown is an error.                              *)
RebuildProjection ==
    /\ Listed(vault) = Whole(vault)
    /\ published' = published \cup Whole(vault)
    /\ intent' = [e \in Editions |-> IF e \in Whole(vault) THEN "committed" ELSE intent[e]]
    /\ disturbed' = disturbed \cup (Whole(vault) \cap AtWork)
    /\ UNCHANGED <<writer, opener, vault>> /\ Outside

(* The editions of an event are read first, files and all; which of them   *)
(* may supersede which is left out.                                        *)
FileEvent(kind, e) ==
    /\ Cardinality(vault.events) < MaxEvents
    /\ e \in published \cap Whole(vault)
    /\ CASE kind = "revocation" -> e \notin Revoked(vault.events)
         [] OTHER -> \E with \in (published \cap Whole(vault)) \ {e} : with \notin Revoked(vault.events)
    /\ vault' = [vault EXCEPT !.events = @ \cup {[kind |-> kind, edition |-> e]}]
    /\ UNCHANGED <<intent, writer, opener, published, disturbed>> /\ Outside

-----------------------------------------------------------------------------
(* verify_backup: the inventory is the declared one, with its hashes, and  *)
(* each manifest has its markdown.  Markdown alone is not minded.          *)
Verified_Inventory == backup.there /\ backup.manifest = {backup.tree}
Verified ==
    /\ backup.there /\ backup.manifest = {backup.tree}
    /\ Listed(backup.tree) = Whole(backup.tree)

-----------------------------------------------------------------------------
(* backup create *)

NextStep_EventsFirst == [begin |-> "events", events |-> "editions", editions |-> "manifest",
                         manifest |-> "verify"]
NextStep == [begin |-> "editions", editions |-> "events", events |-> "manifest",
             manifest |-> "verify"]

Proceed(c, from) ==
    /\ creator[c] = from
    /\ creator' = [creator EXCEPT ![c] = NextStep[from]]
    /\ UNCHANGED <<vaultVars, restoreVars, losses>>

BeginBackup_Anyway(c) ==
    /\ creator[c] = "idle"
    /\ creator' = [creator EXCEPT ![c] = NextStep["begin"]]
    /\ backup' = [backup EXCEPT !.there = TRUE]
    /\ known' = [known EXCEPT !.editions = published \ disturbed]
    /\ UNCHANGED <<vaultVars, reported, restoreVars, losses>>
BeginBackup(c) ==
    /\ creator[c] = "idle"
    /\ ~backup.there
    /\ creator' = [creator EXCEPT ![c] = NextStep["begin"]]
    /\ backup' = [backup EXCEPT !.there = TRUE]
    /\ known' = [known EXCEPT !.editions = published \ disturbed]
    /\ UNCHANGED <<vaultVars, reported, restoreVars, losses>>

CopyEditions(c) ==
    /\ Proceed(c, "editions")
    /\ backup' = [backup EXCEPT !.tree.editions = vault.editions]
    /\ known' = [known EXCEPT !.revoked = Revoked(vault.events)]
    /\ UNCHANGED reported

CopyEvents(c) ==
    /\ Proceed(c, "events")
    /\ backup' = [backup EXCEPT !.tree.events = vault.events]
    /\ UNCHANGED <<known, reported>>

WriteManifest(c) ==
    /\ Proceed(c, "manifest")
    /\ backup' = [backup EXCEPT !.manifest = {backup.tree}]
    /\ UNCHANGED <<known, reported>>

ReportBackup(c) ==
    /\ creator[c] = "verify" /\ Verified
    /\ creator' = [creator EXCEPT ![c] = "idle"]
    /\ reported' = TRUE
    /\ UNCHANGED <<vaultVars, backup, known, restoreVars, losses>>

(* Any error after the directory is made takes the directory away.         *)
FailBackup(c) ==
    /\ creator[c] # "idle"
    /\ creator' = [creator EXCEPT ![c] = "idle"]
    /\ backup' = NoBackup
    /\ reported' = FALSE
    /\ UNCHANGED <<vaultVars, known, restoreVars, losses>>

CrashBackup(c) ==
    /\ creator[c] # "idle"
    /\ creator' = [creator EXCEPT ![c] = "idle"]
    /\ UNCHANGED <<vaultVars, backup, reported, known, restoreVars, losses>>

-----------------------------------------------------------------------------
(* The storage that holds the backup loses a file, after the backup was    *)
(* reported: a loss before is the failure of its creation.                 *)
Lose(tree) ==
    /\ reported /\ losses < MaxLosses
    /\ losses' = losses + 1
    /\ backup' = [backup EXCEPT !.tree = tree]
    /\ UNCHANGED <<vaultVars, reported, creator, known, restoreVars>>

LoseFile(e, ext) ==
    /\ ext \in backup.tree.editions[e]
    /\ Lose([backup.tree EXCEPT !.editions[e] = @ \ {ext}])

LoseEvent(x) ==
    /\ x \in backup.tree.events
    /\ Lose([backup.tree EXCEPT !.events = @ \ {x}])

-----------------------------------------------------------------------------
(* backup restore, which has no lock on the backup or on the target *)

Turn(r, from, new) ==
    /\ restorer[r].step = from
    /\ restorer' = [restorer EXCEPT ![r] = new]
    /\ UNCHANGED <<vaultVars, createVars, losses>>

BeginRestore(r) ==
    /\ home = {}
    /\ Verified
    /\ Turn(r, "idle", [step |-> "editions", manifest |-> backup.manifest,
                         reported |-> reported, tree |-> Empty])
    /\ UNCHANGED home

RestoreEditions(r) ==
    /\ Turn(r, "editions", [restorer[r] EXCEPT !.step = "events",
                             !.tree.editions = backup.tree.editions])
    /\ UNCHANGED home

RestoreEvents(r) ==
    /\ Turn(r, "events", [restorer[r] EXCEPT !.step = "install",
                           !.tree.events = backup.tree.events])
    /\ UNCHANGED home

(* KnowledgeVault::open on the staging directory, rebuild_projection and   *)
(* diagnostics: nothing of the result depends on what others do.  A        *)
(* manifest without its markdown is an error.                              *)
Rebuilds(tree) == Listed(tree) = Whole(tree)

Rebuilt(tree) ==
    [editions |-> Listed(tree), events |-> tree.events,
     readable |-> Listed(tree) \ Revoked(tree.events)]

Complete_Uncounted(tree, manifest) == TRUE
Complete(tree, manifest) ==
    \A m \in manifest :
        /\ Cardinality(Listed(tree)) = Cardinality(Listed(m))
        /\ Cardinality(tree.events) = Cardinality(m.events)

(* A directory is not renamed over one that has something in it.           *)
Free == home = {}

InstallHome(r) ==
    /\ Rebuilds(restorer[r].tree)
    /\ Complete(restorer[r].tree, restorer[r].manifest)
    /\ Free
    /\ Turn(r, "install", Idle)
    /\ home' = {[vault |-> Rebuilt(restorer[r].tree), manifest |-> restorer[r].manifest,
                 reported |-> restorer[r].reported]}

(* An error takes the staging directory away; a crash leaves it, and no    *)
(* other restore has its name.                                             *)
FailRestore(r) ==
    /\ restorer[r].step # "idle"
    /\ Turn(r, restorer[r].step, Idle)
    /\ UNCHANGED home

-----------------------------------------------------------------------------
Publication(e) ==
    \/ StartPublication(e) \/ WriteFile(e) \/ CommitPublication(e)
    \/ FailPublication(e) \/ QuarantineDone(e) \/ StopPublisher(e)
    \/ \E ext \in Extensions : QuarantineFile(e, ext)
    \/ \E kind \in {"revocation", "supersession"} : FileEvent(kind, e)

Open(o) ==
    \/ \E e \in Editions : RecoverIntent(o, e)
    \/ \E ext \in Extensions : RecoverFile(o, ext)
    \/ RecoverDone(o) \/ StopOpener(o)

Create(c) ==
    \/ BeginBackup(c) \/ CopyEditions(c) \/ CopyEvents(c) \/ WriteManifest(c)
    \/ ReportBackup(c) \/ FailBackup(c) \/ CrashBackup(c)

Restore(r) ==
    \/ BeginRestore(r) \/ RestoreEditions(r) \/ RestoreEvents(r)
    \/ InstallHome(r) \/ FailRestore(r)

Next ==
    \/ \E e \in Editions : Publication(e)
    \/ \E o \in Openers : Open(o)
    \/ RebuildProjection
    \/ \E c \in Creators : Create(c)
    \/ \E r \in Restorers : Restore(r)
    \/ \E e \in Editions, ext \in Extensions : LoseFile(e, ext)
    \/ \E x \in Events : LoseEvent(x)

Spec == Init /\ [][Next]_vars

-----------------------------------------------------------------------------
Manifests == {{}} \cup {{m} : m \in Trees}
Homes == [vault : [editions : SUBSET Editions, events : SUBSET Events, readable : SUBSET Editions],
          manifest : Manifests, reported : BOOLEAN]

(* Every variable holds what the code can put there.                       *)
TypeOK ==
    /\ intent \in [Editions -> {"none", "prepared", "recoverable", "committed"}]
    /\ writer \in [Editions -> Extensions \cup {"commit", "moving", "gone"}]
    /\ opener \in [Openers -> [edition : Editions \cup {0}, list : SUBSET Extensions]]
    /\ published \subseteq Editions /\ disturbed \subseteq Editions
    /\ vault \in Trees
    /\ backup \in [there : BOOLEAN, tree : Trees, manifest : Manifests]
    /\ reported \in BOOLEAN
    /\ creator \in [Creators -> {"idle", "editions", "events", "manifest", "verify"}]
    /\ known \in [editions : SUBSET Editions, revoked : SUBSET Editions]
    /\ restorer \in [Restorers -> [step : {"idle", "editions", "events", "install"},
                                   manifest : Manifests, reported : BOOLEAN, tree : Trees]]
    /\ home \subseteq Homes /\ \A g, h \in home : g = h
    /\ losses \in 0..MaxLosses

(* A backup of a vault in use that is reported created has every edition   *)
(* that was published when it was begun, and none by halves, whatever is   *)
(* written, moved to recovery, rebuilt or revoked while it reads.  Not     *)
(* promised are the editions that an opener or a rebuild took in hand      *)
(* while their publisher was at work: their manifest may be gone from the  *)
(* vault (property FilesBackEditions of KnowledgePublish), which nobody    *)
(* minds here.                                                             *)
ReportedIsWhole ==
    reported => \A m \in backup.manifest :
        /\ known.editions \subseteq Whole(m)
        /\ Listed(m) = Whole(m)

(* A restored vault does not serve an edition whose revocation was on file *)
(* when the backup read the editions: a backup is never less revoked than  *)
(* the editions in it.                                                     *)
RevokedStaysRevoked ==
    \A h \in home : h.reported => h.vault.readable \cap known.revoked = {}

(* A restore that succeeds from a reported backup has every edition and    *)
(* every event that its manifest declares, also when files are lost after  *)
(* the backup was verified.                                                *)
RestoredAsDeclared ==
    \A h \in home : h.reported => \A m \in h.manifest :
        h.vault.editions = Listed(m) /\ h.vault.events = m.events

(* Neither another create nor another restore that runs at the same time,  *)
(* fails or crashes takes away a backup that was reported, or a home that  *)
(* was installed.                                                          *)
NothingIsReplaced ==
    [][/\ reported => reported' /\ backup'.there /\ backup'.manifest = backup.manifest
       /\ home # {} => home' = home]_vars
=============================================================================
