-------------------------- MODULE KnowledgePublish --------------------------
(***************************************************************************)
(* Publication in the Knowledge Vault (crates/art-knowledge/src/lib.rs):   *)
(* how a reviewed proposal becomes an immutable Edition across two stores  *)
(* that cannot commit together, the SQLite control store and the edition   *)
(* files, and how KnowledgeVault::open repairs what a crash left behind.   *)
(*                                                                         *)
(* A process is anything that opens the vault: an MCP server, a governance *)
(* page, a CLI invocation.  Every SQLite transaction is one step, and so   *)
(* is every file that appears or is moved; a process may crash between any *)
(* two of them.  Editions are numbered in the order their intents are      *)
(* created, so an Edition is also the identity of its publish intent.      *)
(* Revocation and supersession live in module EditionLifecycle.            *)
(***************************************************************************)
EXTENDS Naturals, FiniteSets

CONSTANTS
    Proposals,       \* proposal identities
    Keys,            \* knowledge keys
    Agents,          \* Agent identities, all bound to one host
    Humans,          \* review actors
    Procs,           \* processes that open the vault
    KeyOf,           \* [Proposals -> Keys], the draft's knowledge_key
    AuthorOf,        \* [Proposals -> Agents], author_agent_id
    TwoHumans,       \* proposals of elevated risk with fewer than two sources
    MaxAttempts,     \* bound: publish intents ever created
    MaxCrashes,      \* bound: process crashes
    SerialisedOpen   \* TRUE: no open or rebuild overlaps a publication

ASSUME ConstantsAssumption ==
    /\ KeyOf \in [Proposals -> Keys]
    /\ AuthorOf \in [Proposals -> Agents]
    /\ TwoHumans \subseteq Proposals
    /\ MaxAttempts \in Nat
    /\ MaxCrashes \in Nat
    /\ SerialisedOpen \in BOOLEAN

Editions == 1..MaxAttempts
NoEdition == 0

VARIABLES
    \* control store
    status,      \* knowledge_proposals.status, "none" before the proposal exists
    approvals,   \* actors of the 'approved' rows of proposal_reviews
    policy,      \* delegation_policies.mode of an Agent on this host
    attempt,     \* what an intent and its manifest record, never rewritten
    intent,      \* publish_intents.state
    reserved,    \* editions with a row in publication_reservations
    projection,  \* editions with a row in edition_projections
    current,     \* editions whose row has current=1
    receipts,    \* editions with delegated approve and publish receipts
    \* the edition tree
    manifest,    \* editions whose .json is in the target directory
    markdown,    \* editions whose .md is in the target directory
    \* history
    crashes,     \* crashes so far
    \* memory of a process, lost in a crash
    pc,          \* where it is
    job,         \* the edition it publishes or recovers
    todo,        \* prepared intents it has still to recover
    found        \* editions its rebuild scan read from disk

proposalVars == <<status, approvals, policy>>
controlVars == <<attempt, intent, reserved, projection, current, receipts>>
fileVars == <<manifest, markdown>>
processVars == <<pc, job, todo, found>>
vars == <<proposalVars, controlVars, fileVars, crashes, processVars>>

Statuses == {"none", "submitted", "under_review", "changes_requested",
             "approved", "rejected", "stale", "materialized"}
Modes == {"human_review", "delegated_local"}
IntentStates == {"none", "prepared", "committed", "recoverable"}

Publishing == {"reserved", "manifest", "files", "committed",
               "failing", "moving", "releasing"}
Maintaining == {"recover", "release", "scan", "project"}
Places == {"down", "ready"} \cup Publishing \cup Maintaining

Attempts == [proposal : Proposals, number : Editions, delegated : BOOLEAN]
NoAttempt == [proposal |-> "none", number |-> 0, delegated |-> FALSE]

Attempted == {e \in Editions : attempt[e] # NoAttempt}
Key(e) == KeyOf[attempt[e].proposal]
Number(e) == attempt[e].number

Init ==
    /\ status = [q \in Proposals |-> "none"]
    /\ approvals = [q \in Proposals |-> {}]
    /\ policy = [a \in Agents |-> "human_review"]
    /\ attempt = [e \in Editions |-> NoAttempt]
    /\ intent = [e \in Editions |-> "none"]
    /\ reserved = {}
    /\ projection = {}
    /\ current = {}
    /\ receipts = {}
    /\ manifest = {}
    /\ markdown = {}
    /\ crashes = 0
    /\ pc = [p \in Procs |-> "down"]
    /\ job = [p \in Procs |-> NoEdition]
    /\ todo = [p \in Procs |-> {}]
    /\ found = [p \in Procs |-> {}]

-----------------------------------------------------------------------------
(* Proposals, reviews and the delegation policy *)

Move(p, from, to) == pc[p] = from /\ pc' = [pc EXCEPT ![p] = to]

(* A replayed idempotency key changes nothing and is left out. *)
Propose(q) ==
    /\ status[q] = "none"
    /\ status' = [status EXCEPT ![q] = "submitted"]
    /\ UNCHANGED <<approvals, policy, controlVars, fileVars, crashes, processVars>>

(* An approval by h needs an earlier one by somebody else on record. *)
AwaitsSecondHuman_AnyEarlier(q, h) == q \in TwoHumans /\ approvals[q] = {}
AwaitsSecondHuman(q, h) == q \in TwoHumans /\ approvals[q] \ {h} = {}

Approve(q, h) ==
    /\ status[q] \in {"submitted", "under_review"}
    /\ status' = [status EXCEPT ![q] =
                    IF AwaitsSecondHuman(q, h) THEN "under_review" ELSE "approved"]
    /\ approvals' = [approvals EXCEPT ![q] = @ \cup {h}]
    /\ UNCHANGED <<policy, controlVars, fileVars, crashes, processVars>>

Decline(q) ==
    /\ status[q] \in {"submitted", "under_review"}
    /\ \E s \in {"changes_requested", "rejected"} : status' = [status EXCEPT ![q] = s]
    /\ UNCHANGED <<approvals, policy, controlVars, fileVars, crashes, processVars>>

MarkSourceChanged(q) ==
    /\ status[q] # "none"
    /\ status' = [status EXCEPT ![q] = "stale"]
    /\ UNCHANGED <<approvals, policy, controlVars, fileVars, crashes, processVars>>

SetDelegationMode(a, m) ==
    /\ policy' = [policy EXCEPT ![a] = m]
    /\ UNCHANGED <<status, approvals, controlVars, fileVars, crashes, processVars>>

-----------------------------------------------------------------------------
(* publish_guarded: reservation, files, commit *)

(* What a publication needs when it reserves and, if delegated, once more   *)
(* when it commits: the proposal is still in the state the caller saw and   *)
(* delegation is still enabled for its author.                              *)
InPriorStatus(q, delegated) == status[q] = IF delegated THEN "submitted" ELSE "approved"

Eligible_AnyPolicy(q, delegated) == InPriorStatus(q, delegated)
Eligible(q, delegated) ==
    /\ InPriorStatus(q, delegated)
    /\ delegated => policy[AuthorOf[q]] = "delegated_local"

AlreadyReserved(q) == \E e \in reserved : attempt[e].proposal = q

(* COALESCE(MAX(edition_number),0)+1 over projections and reservations *)
NumbersTaken(k) == {Number(e) : e \in {f \in projection \cup reserved : Key(f) = k}}

IsNextNumber(n, k) ==
    /\ \A m \in NumbersTaken(k) : m < n
    /\ n = 1 \/ n - 1 \in NumbersTaken(k)

NewestAmong(S) == {e \in S : \A f \in S : Key(f) = Key(e) => Number(f) <= Number(e)}

(* Processes do not share a lock: only a deployment can keep them apart. *)
Undisturbed == SerialisedOpen => \A p \in Procs : pc[p] \notin Maintaining

Reserve(p, q) ==
    /\ Move(p, "ready", "reserved")
    /\ Undisturbed
    /\ ~AlreadyReserved(q)
    /\ \E delegated \in BOOLEAN, e \in Editions, n \in Editions :
        /\ Eligible(q, delegated)
        /\ ~delegated => approvals[q] # {}
        /\ intent[e] = "none" /\ \A f \in 1..(e - 1) : intent[f] # "none"
        /\ IsNextNumber(n, KeyOf[q])
        /\ attempt' = [attempt EXCEPT ![e] =
                         [proposal |-> q, number |-> n, delegated |-> delegated]]
        /\ intent' = [intent EXCEPT ![e] = "prepared"]
        /\ reserved' = reserved \cup {e}
        /\ job' = [job EXCEPT ![p] = e]
    /\ UNCHANGED <<proposalVars, projection, current, receipts, fileVars, crashes,
                   todo, found>>

WriteManifest(p) ==
    /\ Move(p, "reserved", "manifest")
    /\ manifest' = manifest \cup {job[p]}
    /\ UNCHANGED <<proposalVars, controlVars, markdown, crashes, job, todo, found>>

WriteMarkdown(p) ==
    /\ Move(p, "manifest", "files")
    /\ markdown' = markdown \cup {job[p]}
    /\ UNCHANGED <<proposalVars, controlVars, manifest, crashes, job, todo, found>>

(* The failed writer tries to remove its manifest and ignores the outcome. *)
WriteFails(p) ==
    /\ \/ Move(p, "reserved", "failing") /\ UNCHANGED manifest
       \/ Move(p, "manifest", "failing") /\ manifest' \in {manifest, manifest \ {job[p]}}
    /\ UNCHANGED <<proposalVars, controlVars, markdown, crashes, job, todo, found>>

(* The row is inserted, the key's current flags are recomputed, and the    *)
(* proposal is materialized, in one transaction.                           *)
CurrentAfter_Adds(e) == current \cup {e}
CurrentAfter(e) ==
    {f \in current : Key(f) # Key(e)}
        \cup {f \in NewestAmong(projection \cup {e}) : Key(f) = Key(e)}

Commit(p) ==
    LET e == job[p]
        q == attempt[e].proposal IN
    /\ Move(p, "files", "committed")
    /\ e \notin projection
    /\ InPriorStatus(q, attempt[e].delegated)
    /\ attempt[e].delegated => Eligible(q, TRUE)
    /\ projection' = projection \cup {e}
    /\ current' = CurrentAfter(e)
    /\ status' = [status EXCEPT ![q] = "materialized"]
    /\ receipts' = IF attempt[e].delegated THEN receipts \cup {e} ELSE receipts
    /\ intent' = [intent EXCEPT ![e] = "committed"]
    /\ UNCHANGED <<approvals, policy, attempt, reserved, fileVars, crashes,
                   job, todo, found>>

(* A check of Commit is false, or the database is busy: nothing is written. *)
CommitFails(p) ==
    /\ Move(p, "files", "failing")
    /\ UNCHANGED <<proposalVars, controlVars, fileVars, crashes, job, todo, found>>

(* The committed edition is read back and its files are verified. *)
ReadBack(p) ==
    /\ Move(p, "committed", "ready")
    /\ job[p] \in projection \cap manifest \cap markdown
    /\ job' = [job EXCEPT ![p] = NoEdition]
    /\ UNCHANGED <<proposalVars, controlVars, fileVars, crashes, todo, found>>

ReadBackFails(p) ==
    /\ Move(p, "committed", "failing")
    /\ UNCHANGED <<proposalVars, controlVars, fileVars, crashes, job, todo, found>>

-----------------------------------------------------------------------------
(* quarantine_publish_intent, after a failed publication *)

Settled_Recoverable(e) == intent[e] = "recoverable"
Settled(e) == intent[e] \in {"committed", "recoverable"}

QuarantineCheck_Releases(p) ==
    /\ \/ Move(p, "failing", "ready") /\ Settled(job[p])
          /\ job' = [job EXCEPT ![p] = NoEdition]
       \/ Move(p, "failing", "releasing") /\ ~Settled(job[p]) /\ UNCHANGED job
    /\ UNCHANGED <<proposalVars, controlVars, fileVars, crashes, todo, found>>

QuarantineCheck(p) ==
    /\ \/ Move(p, "failing", "ready") /\ Settled(job[p])
          /\ job' = [job EXCEPT ![p] = NoEdition]
       \/ Move(p, "failing", "moving") /\ ~Settled(job[p]) /\ UNCHANGED job
    /\ UNCHANGED <<proposalVars, controlVars, fileVars, crashes, todo, found>>

(* The files of the intent are renamed one by one, in directory order. *)
QuarantineMove(p) ==
    /\ \/ Move(p, "moving", "moving") /\ job[p] \in manifest
          /\ manifest' = manifest \ {job[p]} /\ UNCHANGED markdown
       \/ Move(p, "moving", "moving") /\ job[p] \in markdown
          /\ markdown' = markdown \ {job[p]} /\ UNCHANGED manifest
       \/ Move(p, "moving", "releasing") /\ job[p] \notin manifest \cup markdown
          /\ UNCHANGED fileVars
    /\ UNCHANGED <<proposalVars, controlVars, crashes, job, todo, found>>

QuarantineRelease(p) ==
    /\ Move(p, "releasing", "ready")
    /\ intent' = [intent EXCEPT ![job[p]] = IF @ = "committed" THEN @ ELSE "recoverable"]
    /\ reserved' = reserved \ {job[p]}
    /\ job' = [job EXCEPT ![p] = NoEdition]
    /\ UNCHANGED <<proposalVars, attempt, projection, current, receipts, fileVars,
                   crashes, todo, found>>

(* The quarantine itself may fail; its error is returned and the intent    *)
(* stays as it is for the next open.                                       *)
QuarantineFails(p) ==
    /\ pc[p] \in {"failing", "moving", "releasing"}
    /\ pc' = [pc EXCEPT ![p] = "ready"]
    /\ job' = [job EXCEPT ![p] = NoEdition]
    /\ UNCHANGED <<proposalVars, controlVars, fileVars, crashes, todo, found>>

-----------------------------------------------------------------------------
(* KnowledgeVault::open: recover_publish_intents *)

(* Nothing in the code waits for this: it is what a deployment has to      *)
(* arrange, and SerialisedOpen = FALSE is the code as it stands.           *)
Quiescent(p) ==
    SerialisedOpen => \A r \in Procs \ {p} : pc[r] \in {"down", "ready"}

Open(p) ==
    /\ Move(p, "down", "recover")
    /\ Quiescent(p)
    /\ todo' = [todo EXCEPT ![p] = {e \in Editions : intent[e] = "prepared"}]
    /\ UNCHANGED <<proposalVars, controlVars, fileVars, crashes, job, found>>

IsOldest(e, S) == e \in S /\ \A f \in S : e <= f
Complete(e) == e \in manifest /\ e \in markdown

RecoverComplete(p) ==
    /\ Move(p, "recover", "scan")
    /\ \E e \in todo[p] :
        /\ IsOldest(e, todo[p])
        /\ Complete(e)
        /\ todo' = [todo EXCEPT ![p] = @ \ {e}]
    /\ UNCHANGED <<proposalVars, controlVars, fileVars, crashes, job, found>>

(* The files whose name contains the edition id *)
FilesOf(e) == {e}

(* What is there of the edition is moved to .art/recovery.                 *)
RecoverPartial(p) ==
    /\ Move(p, "recover", "release")
    /\ \E e \in todo[p] :
        /\ IsOldest(e, todo[p])
        /\ ~Complete(e)
        /\ manifest' = manifest \ FilesOf(e)
        /\ markdown' = markdown \ FilesOf(e)
        /\ job' = [job EXCEPT ![p] = e]
        /\ todo' = [todo EXCEPT ![p] = @ \ {e}]
    /\ UNCHANGED <<proposalVars, controlVars, crashes, found>>

RecoverRelease(p) ==
    /\ Move(p, "release", "recover")
    /\ intent' = [intent EXCEPT ![job[p]] = "recoverable"]
    /\ reserved' = reserved \ {job[p]}
    /\ job' = [job EXCEPT ![p] = NoEdition]
    /\ UNCHANGED <<proposalVars, attempt, projection, current, receipts, fileVars,
                   crashes, todo, found>>

RecoverDone(p) ==
    /\ Move(p, "recover", "ready")
    /\ todo[p] = {}
    /\ UNCHANGED <<proposalVars, controlVars, fileVars, crashes, job, todo, found>>

-----------------------------------------------------------------------------
(* rebuild_projection: the files are read first, then one transaction      *)
(* replaces every row.  Any error ends the process: open returns it.       *)

(* `art-cli index` *)
RebuildCommand(p) ==
    /\ Move(p, "ready", "scan")
    /\ Quiescent(p)
    /\ UNCHANGED <<proposalVars, controlVars, fileVars, crashes, job, todo, found>>

Abort(p) ==
    /\ pc' = [pc EXCEPT ![p] = "down"]
    /\ job' = [job EXCEPT ![p] = NoEdition]
    /\ todo' = [todo EXCEPT ![p] = {}]
    /\ found' = [found EXCEPT ![p] = {}]

(* Every manifest is an edition, and its markdown must be readable.        *)
RebuildScan(p) ==
    /\ pc[p] = "scan"
    /\ \/ /\ manifest \subseteq markdown
          /\ pc' = [pc EXCEPT ![p] = "project"]
          /\ found' = [found EXCEPT ![p] = manifest]
          /\ UNCHANGED <<job, todo>>
       \/ /\ ~(manifest \subseteq markdown)
          /\ Abort(p)
    /\ UNCHANGED <<proposalVars, controlVars, fileVars, crashes>>

(* Approved proposals whose reserved edition is now projected *)
Materialised(S) == {q \in Proposals : /\ status[q] = "approved"
                                      /\ \E e \in reserved \cap S : attempt[e].proposal = q}

IntentsAfter_Unchanged(S) == intent
IntentsAfter(S) == [e \in Editions |-> IF e \in S THEN "committed" ELSE intent[e]]

RebuildProject(p) ==
    /\ pc[p] = "project"
    /\ \/ /\ found[p] \subseteq markdown
          /\ projection' = found[p]
          /\ current' = NewestAmong(found[p])
          /\ intent' = IntentsAfter(found[p])
          /\ status' = [q \in Proposals |->
                           IF q \in Materialised(found[p]) THEN "materialized" ELSE status[q]]
          /\ pc' = [pc EXCEPT ![p] = "recover"]
          /\ found' = [found EXCEPT ![p] = {}]
          /\ UNCHANGED <<job, todo>>
       \/ /\ ~(found[p] \subseteq markdown)
          /\ Abort(p)
          /\ UNCHANGED <<projection, current, intent, status>>
    /\ UNCHANGED <<approvals, policy, attempt, reserved, receipts, fileVars, crashes>>

-----------------------------------------------------------------------------
(* Processes end, and crash anywhere: an I/O or database error that         *)
(* open cannot get past has the effect of a crash at that point.           *)

Exit(p) == pc[p] = "ready" /\ Abort(p)
           /\ UNCHANGED <<proposalVars, controlVars, fileVars, crashes>>

Crash(p) ==
    /\ pc[p] # "down"
    /\ crashes < MaxCrashes
    /\ crashes' = crashes + 1
    /\ Abort(p)
    /\ UNCHANGED <<proposalVars, controlVars, fileVars>>

-----------------------------------------------------------------------------
Govern ==
    \/ \E q \in Proposals : Propose(q) \/ Decline(q) \/ MarkSourceChanged(q)
    \/ \E q \in Proposals, h \in Humans : Approve(q, h)
    \/ \E a \in Agents, m \in Modes : SetDelegationMode(a, m)

Publication(p) ==
    \/ WriteManifest(p) \/ WriteMarkdown(p) \/ WriteFails(p)
    \/ Commit(p) \/ CommitFails(p) \/ ReadBack(p) \/ ReadBackFails(p)
    \/ QuarantineCheck(p) \/ QuarantineMove(p) \/ QuarantineRelease(p) \/ QuarantineFails(p)

Maintenance(p) ==
    \/ RecoverComplete(p) \/ RecoverPartial(p) \/ RecoverRelease(p) \/ RecoverDone(p)
    \/ RebuildScan(p) \/ RebuildProject(p)

Next ==
    \/ Govern
    \/ \E p \in Procs :
        \/ \E q \in Proposals : Reserve(p, q)
        \/ Publication(p)
        \/ Open(p) \/ RebuildCommand(p) \/ Maintenance(p)
        \/ Exit(p) \/ Crash(p)

Spec == Init /\ [][Next]_vars

(* A running process gets on with what it is doing, and every process is   *)
(* ended and started again sooner or later.  Nobody has to review, publish *)
(* or rebuild anything, and nothing has to crash.                          *)
Fairness ==
    \A p \in Procs : /\ WF_vars(Publication(p) \/ Maintenance(p))
                     /\ WF_vars(Open(p))
                     /\ SF_vars(Exit(p))

FairSpec == Spec /\ Fairness

-----------------------------------------------------------------------------
(* Properties *)

(* Every variable has its type: the control store, the files and the       *)
(* processes speak only of editions some intent created, and a process     *)
(* holds an edition exactly while it publishes or releases one.            *)
TypeOK ==
    /\ status \in [Proposals -> Statuses]
    /\ approvals \in [Proposals -> SUBSET Humans]
    /\ policy \in [Agents -> Modes]
    /\ attempt \in [Editions -> Attempts \cup {NoAttempt}]
    /\ intent \in [Editions -> IntentStates]
    /\ Attempted = {e \in Editions : intent[e] # "none"}
    /\ reserved \subseteq Attempted
    /\ projection \subseteq Attempted
    /\ current \subseteq Attempted
    /\ receipts \subseteq Attempted
    /\ manifest \subseteq Attempted
    /\ markdown \subseteq Attempted
    /\ crashes \in 0..MaxCrashes
    /\ pc \in [Procs -> Places]
    /\ job \in [Procs -> Attempted \cup {NoEdition}]
    /\ \A p \in Procs : job[p] # NoEdition <=> pc[p] \in Publishing \cup {"release"}
    /\ todo \in [Procs -> SUBSET Attempted]
    /\ found \in [Procs -> SUBSET Attempted]

(* An edition that can be resolved has both of its files: recovery and     *)
(* quarantine never take a file from a projected edition.                  *)
FilesBackEditions == projection \subseteq manifest \cap markdown

(* Two editions of a key never share a number, whatever was released by    *)
(* recovery and reserved again, and whether or not they are projected yet. *)
EditionNumbersUnique ==
    \A e, f \in projection \cup reserved :
        Key(e) = Key(f) /\ Number(e) = Number(f) => e = f

(* A proposal becomes at most one edition, however often its publication   *)
(* is interrupted, recovered and tried again.                              *)
OneEditionPerProposal ==
    \A e, f \in projection \cup reserved :
        attempt[e].proposal = attempt[f].proposal => e = f

(* Whatever is projected was approved by a human, by two different ones if *)
(* its risk is elevated, or was published under delegation.                *)
HumanQuorum ==
    \A e \in projection :
        LET q == attempt[e].proposal IN
        \/ attempt[e].delegated
        \/ /\ approvals[q] # {}
           /\ q \in TwoHumans => \E g, h \in approvals[q] : g # h

(* A proposal is published by delegation at most once, however often the   *)
(* call is repeated: delegated_governance_receipts has one row for it.     *)
OneDelegatedWinner ==
    \A e, f \in receipts : attempt[e].proposal = attempt[f].proposal => e = f

(* Delegated receipts appear only in a step that finds delegation enabled  *)
(* for the author and the proposal never touched by a reviewer.            *)
DelegationBoundary ==
    [][\A e \in receipts' \ receipts :
         LET q == attempt[e].proposal IN
         /\ policy[AuthorOf[q]] = "delegated_local"
         /\ status[q] = "submitted"
         /\ e \in projection']_vars

(* A proposal that is turned down, or whose source changes, while none of  *)
(* its publications is under way or to be recovered is out for good: no    *)
(* retry, recovery, quarantine or rebuild brings an edition of it into the *)
(* vault.  One that is turned down while a publication of it is prepared   *)
(* is not so safe: if its process dies with both files written, the next   *)
(* open projects them without looking at the proposal.                     *)
Refused(q) == status[q] \in {"rejected", "changes_requested", "stale"}

RefusedStaysOut ==
    [][\A q \in Proposals :
         Refused(q) /\ ~AlreadyReserved(q)
           => /\ Refused(q)' /\ ~AlreadyReserved(q)'
              /\ \A e \in projection' : attempt'[e].proposal # q]_vars

(* What recovery keeps straight between the control store, the edition     *)
(* tree and the processes, when no open overlaps a publication: the        *)
(* reservations are the intents not given up, the rows are the committed   *)
(* ones, no file lies under a number that is free, and every process finds *)
(* its edition as it left it.                                              *)
IntentBooks ==
    /\ reserved = {e \in Editions : intent[e] \in {"prepared", "committed"}}
    /\ projection = {e \in Editions : intent[e] = "committed"}
    /\ manifest \cup markdown \subseteq reserved

JobPhases ==
    \A p \in Procs :
        /\ pc[p] \in {"reserved", "manifest", "files", "moving", "releasing", "release"}
              => intent[job[p]] = "prepared"
        /\ pc[p] = "committed" => intent[job[p]] = "committed"
        /\ pc[p] = "failing" => intent[job[p]] \in {"prepared", "committed"}
        /\ pc[p] \in {"manifest", "files"} => job[p] \in manifest
        /\ pc[p] = "files" => job[p] \in markdown
        /\ pc[p] \in {"releasing", "release"} => job[p] \notin manifest \cup markdown

JobsDistinct ==
    \A p, r \in Procs : job[p] = job[r] /\ job[p] # NoEdition => p = r

MaintenanceAlone ==
    \A p, r \in Procs : p # r /\ pc[p] \in Maintaining => pc[r] \in {"down", "ready"}

Recovering ==
    \A p \in Procs :
        /\ todo[p] # {} => pc[p] \in Maintaining
        /\ \A e \in todo[p] : intent[e] \in {"prepared", "committed"} /\ e # job[p]
        /\ pc[p] = "project" => found[p] = manifest /\ manifest \subseteq markdown

SerialDiscipline ==
    IntentBooks /\ JobPhases /\ JobsDistinct /\ MaintenanceAlone /\ Recovering

(* The vault is the abstract ledger. *)
Entry(e) == [edition |-> e, key |-> Key(e), number |-> Number(e),
             proposal |-> attempt[e].proposal]

Ledger == INSTANCE EditionLedger
            WITH published <- {Entry(e) : e \in projection},
                 newest <- {Entry(e) : e \in current}

LedgerSpec == Ledger!Spec

(* An older complete publication in front of a younger torn one: the       *)
(* rebuild that would commit the first cannot read past the second.        *)
Prepared(e) == intent[e] = "prepared"
Blocked == \E e, f \in Editions : /\ e < f /\ Prepared(e) /\ Prepared(f)
                                  /\ Complete(e)
                                  /\ f \in manifest /\ f \notin markdown

(* docs/operations.md: complete publish files are committed on restart,    *)
(* partial ones are moved aside.  No intent stays prepared for good, except *)
(* behind such a pair, where every open fails in the same place.            *)
IntentsSettleUnlessBlocked == \A e \in Editions : Prepared(e) ~> ~Prepared(e) \/ Blocked
=============================================================================
