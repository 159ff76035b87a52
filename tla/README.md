# TLA+ models of Agent Recall Trail

ART keeps a private memory vault per agent and one shared Knowledge Vault of
governed, immutable Editions. Both are SQLite databases that several processes
open at once (MCP servers, the governance page, CLI invocations, host hooks),
and the Knowledge Vault also owns a tree of Markdown, manifest and event files
that cannot commit together with its database. These modules model what can go
wrong between those processes, those two stores and a crash; TLC checks them on
small instances and TLAPS proves the main results for every instance.

Paths below are relative to `crates/`.

## Inventory

| Part | State | Operations | Hard behaviour | What makes it correct |
|---|---|---|---|---|
| Knowledge Vault, publication (`art-knowledge/src/lib.rs`) | proposals, reviews, delegation policy, publish intents, reservations, projection rows, receipts; edition files | propose, review, mark_source_changed, set_delegation_mode, publish and approve_and_publish, quarantine, open (recovery), rebuild | two stores, crash between any two writes, recovery by another process, retry | a projected edition has its files, numbers are unique, one edition per proposal, the review quorum, the delegation boundary, what is turned down stays out |
| Knowledge Vault, lifecycle (same file) | event files, event intents, applied events, `revoked` and `current` flags | revoke, supersede, reconcile_events, recover_event_intents, rebuild_projection | file first, projection later; listing outside the transaction; two ways to compute flags | revoked stays revoked and is never current, the newest edition is served, filed events apply, flags can be rebuilt |
| Knowledge Vault, navigation and search (same file) | navigation table with its epoch, full-text table | index_epoch, list_current, read, search, rebuild_navigation, rebuild_search_index | an epoch, a listing and the replacement of the table are separate reads and writes | a map that carries the present epoch is exactly what is live |
| Automatic memory switch (`art-agent-store/src/lib.rs`, `AutoMemoryConfigStore`) | config file, lock file | status, set_enabled | lock file broken after 30 s, processes that die or stall holding it | no automatic write after a disable returned, by whoever has the lock to itself |
| Memory intake (`art-agent-store/src/intake.rs`, claims in `lib.rs`) | trigger receipts, budget admissions, intake receipts, revision proposals | claim_auto_memory_trigger, intake, review_memory_revision, migrate_intake | retries, replays, refunds, two ways into one budget, config versions | one admission pays for one memory, the budget holds, a proposal changes only the revision it saw |
| Agent Vault (`art-agent-store/src/lib.rs`, `art-domain/src/memory.rs`) | artifacts with status and revisions, anchors, decisions, source events, relations, navigation | capture, revise, assure, record_source_change, dispute, supersede, archive, import, rebuild_navigation | operations that check the revision but not the status, or the other way round; epochs read outside the transaction | evidence belongs to the revision it was given for, source changes reach what rests on them, stale navigation is detected |
| Backup and restore (`art-knowledge/src/backup.rs`, `art-cli/src/main.rs`) | copy of the tree, manifest, staging directory | create_backup, verify_backup, restore_backup, restore of a home | copying a live tree without a lock, files lost afterwards, two of each at once | what is reported is whole, a restore gives what was declared, no revocation is lost |
| MCP server (`art-mcp/src/lib.rs`) | host binding, elicitation in flight | tools that call the vaults | minutes between reading a proposal and acting on the answer; cancellation | the human decides on what is published |
| Governance page (`art-mcp/src/governance_ui.rs`) | sessions, CSRF tokens | detail, review, publish, settings, review of memories | expiring sessions, pages that show what was | nothing is done on another snapshot than the one shown |
| Retrieval (`art-retrieval/src`) | none of its own | recall in four modes, route | many reads that are not one snapshot, falling back from one mode to another | nothing retired is recalled, vectors are used only for the state they were made from |
| Semantic projection (`art-retrieval/src/semantic_projection.rs`, `semantic.rs`) | staging file, projection file, lock file | rebuild_with_progress, rank_admitted | interruption and resumption, two rebuilds, a file replaced under a reader | what is installed is complete and of one epoch and endpoint |
| CLI and host hook (`art-cli/src`) | none of its own | commands over the vaults | one-shot processes beside long-lived ones | as of the vaults |
| Domain contracts (`art-domain/src`) | none | value types and validation | none | not modelled |

Components call each other directly, in one process; processes meet only in the
databases (immediate transactions, five seconds of busy timeout), in the file
trees, and at the lock files of the switch and of the semantic projection. The
hazards this gives rise to are listed in `PROJECT.json` with the line where each
bites and the properties that would notice it.

## Modules

| Module | Models | Composed of | Proofs |
|---|---|---|---|
| `EditionLedger` | what the vault promises: an append-only ledger | | abstract |
| `KnowledgePublish` | publication, recovery, rebuild | implements `EditionLedger` | `KnowledgePublish_proofs` |
| `EditionLifecycle` | revocation, supersession, their recovery | publication as one step | `EditionLifecycle_proofs` |
| `AutoMemoryGate` | the switch of automatic memory, its lock file, the writers behind it | | `AutoMemoryGate_proofs` |
| `MemoryIntake` | claims, budget, receipts and refunds of private memory | | `MemoryIntake_proofs` |
| `MemoryLifecycle` | what becomes of private memories, and the page that reviews them | | `MemoryLifecycle_proofs` |
| `Navigation` | the two lanes and the navigation map of each | | `Retrieval_proofs` |
| `Recall` | `art_recall` and `route` over both lanes | extends `Navigation` | `Retrieval_proofs` |
| `Governance` | the tool and the page through which humans govern proposals | the vault's transactions as single steps; implements `EditionLedger` | `Governance_proofs` |
| `SemanticProjection` | building, installing and reading vectors | | `Retrieval_proofs` |
| `VaultBackup` | backup of a vault in use, and restore | publication and events as files | `VaultBackup_proofs` |
| `MC*` | TLC instances | | |

The plan's modules are written. Left: the full-text table beside the navigation
map, and a refinement of the one-step publication of `EditionLifecycle` by
`KnowledgePublish`.

A definition `X_Something` right before `X` is `X` as a plausible bug would have
it; `PROJECT.json` says which property notices.

## Runs

| Run | Instance | Asks |
|---|---|---|
| `publish_serial` | 2 proposals for one key, one of which takes two humans, 2 humans, 2 processes, 2 attempts, 2 crashes, opens serialised | `FilesBackEditions`, `HumanQuorum`, `DelegationBoundary`, `RefusedStaysOut`, and `LedgerSpec`, the refinement of `EditionLedger` |
| `publish_liveness` | 2 proposals, 1 process, 1 crash | `IntentsSettleUnlessBlocked` |
| `publish_open_race` (violation) | 1 proposal, 2 processes, opens not serialised | an opener takes the manifest from a publication in progress, which then commits |
| `edition` | 2 processes, 2 editions, 2 events, 1 crash, 1 lost file; of events, crashes and losses at most 2 together | `RevokedNeverCurrent`, `AckedRevoked`, `NewestServed`, `FiledEventsApply` |
| `edition_two_current` (violation) | 1 process, 3 editions, 1 event | `supersede(1, 2)` while 3 is current leaves two current |
| `gate` | 2 processes of one Agent, 2 changes, 1 trigger, 1 memory, 1 crash or 1 loss of the switch's file; locks get old under the living and the dead | `OneHolder`, `NoWriteAfterDisable`, `VersionsIncrease`, `TriggersExpire`, `LeftoverBroken` |
| `intake_safety` | 1 session, 2 days, 1 turn, 2 events, 3 submissions, limit 2, 2 changes of the switch | `SpentOnce`, `AutomaticWithinBudget`, `NoDoubleCount`, `RefundsSurvive` |
| `memory_safety` | 2 memories with 3 and 1 revisions, 3 anchors, 1 proposal for the first, 1 request to the page | `ActiveIsBacked`, `ServedHasEvidence`, `ChangesReachTheLive` |
| `retrieval` | 2 memories, 2 editions of one key, 2 requests for a map and 2 changes, or one recall and 3 changes | `LabelHonest`, `RouteExact`, `VectorsExact`, `RetiredStaysOut`, `UndisturbedComplete`, `FailsOnRevocationOnly`, `MapConverges` |
| `governance` | 2 proposals, one of which takes two humans, 2 calls, 1 page, 2 edition numbers | `RecordedAsShown`, `PublishesAsConfirmed`, `SourcesHeldAtAnswer`, and `LedgerSpec`, the refinement of `EditionLedger` |
| `semantic` | 2 documents, 2 endpoints, 2 processes, 1 reader | `InstalledWhole`, `RanksOwnEpoch`, `WorkIsKept` |
| `backup` | 2 creates of one backup, 2 restores to one home, 2 editions of which one is published meanwhile, 1 opener and rebuilds, 1 event, 1 lost file | `ReportedIsWhole`, `RevokedStaysRevoked`, `RestoredAsDeclared`, `NothingIsReplaced` |

A run asks what its module's theorems do not already settle, or what deserves to
be seen on an instance too. Proved and not run, because a theorem covers them
for every instance: the type invariants, `EditionNumbersUnique`,
`OneEditionPerProposal`, `SerialDiscipline` and `OneDelegatedWinner` of
`KnowledgePublish`, `RevokedForever` of `EditionLifecycle`,
`OneConfirmedPerRevision` and `RetiredForGood` of `MemoryLifecycle`,
`NoSecondIdentity` and `DeclinedIsFinal` of `Governance`, and `StagedAlone` of
`SemanticProjection`.

## KnowledgePublish

**State.** The variables are the tables (`status`, `approvals`, `policy`,
`attempt` and `intent` for `publish_intents`, `reserved`, `projection`,
`current`, `receipts`), the two files of an edition (`manifest`, `markdown`),
and per process where it is (`pc`), its edition (`job`), the intents it has
still to recover (`todo`) and the manifests its rebuild read (`found`).
`crashes` is history.

**Actions.** Each SQLite transaction is one action and so is each file created
or moved; a crash may fall between any two. `Reserve`, `WriteManifest`,
`WriteMarkdown`, `Commit` and `ReadBack` are `publish_guarded` in its order;
`WriteFails`, `CommitFails`, `ReadBackFails` its error returns;
`QuarantineCheck`, `QuarantineMove`, `QuarantineRelease` are
`quarantine_publish_intent`; `Open`, `RecoverComplete`, `RecoverPartial`,
`RecoverRelease`, `RecoverDone` are `recover_publish_intents` as `open` calls
it; `RebuildScan` and `RebuildProject` are the two halves of
`rebuild_projection`. An I/O or database error inside `open` has the effect of a
crash there. Recovery's directory listing and its renames are one step.
`MarkSourceChanged` is public and has no caller outside the tests.

**Assumption on the deployment.** No lock keeps an `open` or an `index` away
from a publication in another process, and an opener takes every prepared intent
for a crashed one. `SerialisedOpen = TRUE` says that a deployment keeps them
apart; `FALSE` is the code as it stands.

Two attempts are enough for a retry after a failed or crashed publication and
for two proposals competing for one number; two crashes allow one during
recovery. The two proposals share key and author, which is where they can meet;
editions of different keys touch no common state except in a rebuild, which
handles each edition alike.

**Fairness.** A process that publishes, quarantines or recovers goes on (`WF` on
its own next step), a process that is down is started again (`WF` on `Open`),
and one that is idle ends infinitely often enough to be restarted (`SF` on
`Exit`: CLI invocations and MCP servers end with their host session). Nobody has
to review, publish or rebuild.

**Proofs.** For any sets of proposals, keys, agents, humans and processes and
any bounds: `TypeCorrect`, `QuorumHolds`, `DelegationBoundaryHolds` and
`OneDelegatedWinnerHolds` need no assumption on the deployment. Under
`SerialisedOpen` the inductive invariant is `SerialInv`: reservations are the
intents not given up, rows are the committed ones, no file lies under a released
number (`IntentBooks`); a process finds its intent and files as it left them
(`JobPhases`, `JobsDistinct`); maintenance runs alone and holds only intents
that can still be recovered (`MaintenanceAlone`, `Recovering`). None of the
properties is inductive alone: that recovery moves no file of a projected
edition, for one, needs that what is still to recover was not committed since.
From it follow `SerialDisciplineHolds`, `FilesStay`, `NumbersUnique`,
`PublishedOnce`, `RefusedStaysOutHolds` and `ImplementsLedger`, the refinement.

**What is turned down.** A publication commits only if the proposal is still in
the state it was reserved in. Recovery does not look: of a publication that died
with both files written it projects the edition, also when the proposal has been
declined, or has gone stale, in between. `RefusedStaysOut` therefore says what
the code does keep: a proposal that is turned down while no publication of it is
under way or to be recovered never gets an edition, by whatever failed
publications, recoveries and rebuilds are tried.

**Liveness.** `IntentsSettleUnlessBlocked` excepts one situation, which the code
has: when a complete interrupted publication stands before a torn one, the
rebuild that completes the first cannot read the second, and every open fails.

## EditionLifecycle

One knowledge key; an Edition is its number. `disk` and `pending` are the
edition files and the prepared publications without a row, `rows`, `revoked` and
`current` the projection, `event`, `intent`, `files` and `applied` the lifecycle
events on their way from `event_intents` to `.art/events` to `knowledge_events`.
Publication is one step here (its parts are in `KnowledgePublish`) or a crash
with complete files.

`Revoke` and `Supersede` check and prepare; `WriteEvent`, `ListFiles`,
`Reconcile` and `MarkCommitted` are the rest of `commit_event`; `Open` to
`RecoverDone` are recovery of publications (each complete one by a rebuild) and
then of events, and the closing reconcile of `open`. Event names are ULIDs of
different processes, so the order in which events are applied need not be the
order in which they were filed. The check and the intent of `revoke` are one
step; everything later interleaves, which covers two revocations checked before
either is written. `LoseEvent` removes the file of an applied event.

Two events are the least for an event to meet another one on the same edition or
its replacement, and two processes for one to reconcile what the other filed.
Fairness is that of `KnowledgePublish`. With a lost file an open fails for good,
as the documentation says, so `FiledEventsApply` is claimed until one is lost.
`MaxTogether` bounds events, crashes and losses as a sum: each pair of them
occurs, and any number of them is what the proofs are for.

**Proofs.** All theorems hold for any number of processes, editions and events,
with no assumption on the deployment. `FlagInv` (types, that events mean what
was asked for, and the two flag properties) is inductive alone. `AckedRevoked`
and `RevokedForever` need `RevocationInv`: a revoked row has an applied
revocation, every applied revocation whose file exists took effect, and what a
process has listed it can still apply.

## AutoMemoryGate

`config` is the switch's file, with the number of the change that wrote it
beside the version the code gives it; `lock` and `stale` are `.auto-memory.lock`
and whether it is older than thirty seconds; `triggers`, `spent` and `written`
are what automatic memory leaves in the vaults; `seen` is what a process last
read of the switch. `kept` and `crowded` are history: whether no lock file was
removed while its holder was at work, and which holders have had others beside
them. `ReadSwitch`, `WriteSwitch` and `ReadBack` are `set_enabled` behind its
lock. `CallWriter`, `Begin`, `Admit` or `Decline`, and `CommitClaim` or
`CommitIntake` are `claim_auto_memory_trigger_with_attribution` and `intake`:
they read the switch, start an immediate transaction of their vault, then take
the lock and read the switch again. `Acquire`, `AcquireFails`, `FindStale`,
`Break` and `GiveUp` are the loop of `acquire_auto_memory_config_lock`,
`Release` is the guard's `drop`, which removes the lock file whoever created it.
Replayed requests and a busy database return at `BeginReturns`; the budget,
duplicates and refunds are in `MemoryIntake`.

**Time.** Nothing in the code keeps a holder from taking more than thirty
seconds (a suspended machine, say), or two processes from finding one lock old,
of which the second removes the fresh lock of whoever came after the first. The
model has both: `Age` may come at any time, and `FindStale` and `Break` are two
steps. So no property claims that there is always one holder. `OneHolder` says
it up to the first removal of a holder's lock; `NoWriteAfterDisable` and
`VersionsIncrease` are about each holder that has had the lock to itself,
whatever happened to the lock before. What a crowded holder does is in the last
part of this document.

Two changes are an enable and the disable that follows; the trigger can then be
from before. The two processes are of one Agent: the database keeps its writers
apart as well, but a writer and a toggle meet only at the lock. One crash leaves
one lock behind, and a second could only do so after it was broken; the run has
a crash or a lost file (`OneMishap`), and both together are left to the proofs,
as are writers of different Agents. `TriggersExpire` is claimed until
versions are given twice: the switch's file was lost and they started again, or
a holder's lock was removed. **Fairness:** a call goes on until it returns, and
a lock file gets old; nobody has to call. `LeftoverBroken` says that a lock left
by a crash is removed as long as there are calls.

**Proofs.** For any processes, vaults and bounds, with no assumption on time.
`GateInv` is inductive: holders that are not crowded are alone, and as long as
no holder's lock file was removed the one holder's file is its own (`LockKept`);
a holder that is not crowded and has read the switch finds it as it was, or lost
(`SwitchKept`); as long as it was never lost and no holder's lock removed, a
version is the number of its change (`VersionsKept`). `NoWriteAfterDisable` is
not inductive alone: that the switch is still on when the write commits is known
only from its not having changed under the holder.

## MemoryIntake

`trigger` are the receipts of hook claims, `receipt` those of submissions by
idempotency key, `budget` the admissions, `recent` those within the cooldown,
and `audit` the changes of the switch. Claims, submissions and the reopening of
a vault are each one immediate transaction and one step; `AutoMemoryGate` has
the steps around the transaction. `Claim` and `ClaimDisabled` are
`claim_auto_memory_trigger_with_attribution`; `Intake` is `intake`, with a
disjunct for each disposition in the order of its returns; `Open` is the end of
`migrate_intake`, which every open runs. Replays and errors change nothing.

The content of memories is left out, and no table of the model depends on it:
whether a submission is sensitive, an exact duplicate (also of a memory captured
without a receipt) or in conflict with another one is for the step to choose.
The admission that a duplicate's receipt copies from the memory it found is for
display only and left out. So are claims older than the budget's table, and a
lost switch file, which is in `AutoMemoryGate`. Where the host does not know the
session, the bucket is a day and no turn is known.

Three submissions over a limit of two are the least that can exceed it. Where
the session of a claim is known, its submission is of that session; otherwise it
is of the day it is made on, which is why there are two days (`Places`). One
event has a known turn, where its submission can meet another one of the turn;
the other has none. Two changes of the switch leave a claim behind that is no
longer current. Keys are interchangeable.

**Proofs.** For any sessions, events, submissions and limit, with no assumption
on their number. `IntakeInv` is inductive: rows belong to accepted claims or to
the submission that made them (`RowsOwned`), what an agent's submission spends
was made for the place it names (`SpentOwn`), each claim that no duplicate gave
back has its row (`Migrated \subseteq budget`), and the rows of a bucket are
within the limit (`BudgetWithin`). The limit is on admissions: a hook's claim of
one day that is submitted on the next counts on the day of the claim. It is not
inductive alone: it follows by an injection of the memories admitted in a bucket
into its rows, for which `SpentOnce` is needed.

## MemoryLifecycle

`artifact` has the status and current revision of each memory, `links` the
evidence of every revision (`memory_anchor_links`), `backed` the revisions whose
last decision corroborates them, `events` the recorded source changes and
`reported` also those that could not be recorded; `captured` the memories with a
receipt of `capture`, `auto` those that intake has left for review, `proposal`
the revisions proposed, and `page` what a request to the governance page has
read before it acts. Each vault operation is one immediate transaction and one
step: `IntakeNew`, `IntakeRevision` and `Propose` are the ends of `intake`;
`Capture` is `capture` as `import_record` calls it; `Open` is the part of
`migrate_intake` that gives captured and revised memories a receipt of intake at
the next open, so that the page and intake treat them as candidates of intake
from then on; `Revise`, `EditAndConfirm`, `ConfirmRevision`, `RejectRevision`,
`AssureCommand`, `SourceChange`, `Dispute`, `Supersede` and `Archive` are the
operations of those names. `PageRead` and `PageAct` are the two halves of
`review_memory_candidate`, between which anything may happen to the memory.

Operations check different things: `revise` and `assure` the revision only,
`dispute` and its like the status only, the review of a proposal both. What must
hold of all of them together is that a memory recall may serve is backed in its
current revision, that a source change reaches it, and that nothing retired
comes back. Corroborated and partially corroborated are one outcome, as are
disputed and invalidated. The decision that `needs_review` records when a digest
has changed counts against the revision, since it comes with a dispute. Every
caller makes anchors with new ids, so evidence is never shared; `NewEvidence`
says so, and `ChangesReachTheLive` depends on it. `insert_memory_rows` refuses a
known id, `store_revision` would accept one with the same hash
(`intake.rs:860`). Contents, validity dates, the full-text index, idempotency
keys and relations between memories are left out.

Three revisions let a proposal be overtaken by a revision; a second proposal
changes no memory before it is confirmed and is left to the theorem
`OneConfirmedHolds`; a submission brings one anchor (`MaxEvidence`), so that
three cover the three revisions. Two memories are the least that could share an
anchor. The run does not check for deadlock, as a vault may be left with
archived memories and no revision to make. Anchors are interchangeable.

**Proofs.** For any memories, anchors, proposals, requests, and submissions with
any number of anchors. `LifecycleInv` is inductive: beside the properties it
says that evidence belongs to a revision its memory has had (`LinksBehind`) and
to one memory only (`EvidenceOwned`), that reports are about evidence the vault
has (`ReportsKnown`), and that a confirmed proposal lies behind its target
(`ConfirmedPassed`). `ChangesReachTheLive` is not inductive without
`EvidenceOwned`: a report that fails for a retired memory would otherwise fail
for a live one. `NewContent` and `NewStatus` are the two kinds of step, and each
operation is one of them, except for `EditAndConfirm`, whose new revision keeps
its evidence.

## Navigation and Recall

`rows` are the memories of an Agent and the projections of editions with the
time of their last change, `events` the number of `knowledge_events`, `expired`
the memories whose window of validity has closed, which nothing records; `map`
is the navigation table of the lane in focus with its label, `call` the requests
for it and `recall` the recall in progress. A behaviour is about the map of one
lane or about recall (`focus`): the two touch no common state.

**Steps.** No transaction spans an epoch, a listing and the replacement of the
table, so each is a step. The private epoch is one SELECT; the shared one is
two, projections and then events, and a shared listing is a SELECT of ids
followed by a read of each, which fails if it was revoked in between.
`index_epoch` hashes what it reads, and an epoch here is what was read.
`ReadMap` to `ReadAfter` are `projected_*_navigation_candidates`, `ReadLabel`,
`Collect` and `ReplaceMap` are `rebuild_navigation`, `ReadAligned` is
`navigation_aligned`, and `Otherwise` the single rebuild and what `route` and
`art_health` do after it. In `Recall`, `ReadEpochs` is what the three
comparisons with the epochs of the semantic runtime read, and `Lexical` the ways
in which `recall` starts again without vectors. Changes of memories and editions
are cut down to what epochs, listings and reads can tell apart; the other
modules have them in full. Of editions these are publication, revocation,
supersession and `RebuildProjection`, which sets the flags of all editions anew.
A memory that is disputed counts as retired, and what a dispute may still come
to is left out.

**What is shown.** The label is read before the listing, which is what makes
`LabelHonest` true without a lock: a table that carries the present epoch lists
exactly what is live, also when a slow rebuild puts an older table over a newer
one. `RouteExact` says the same of what `route` returns. `VectorsExact`,
`RetiredStaysOut`, `UndisturbedComplete` and `FailsOnRevocationOnly` are about
recall in each of its modes. `MapConverges`, under the fairness that a request
that was taken up goes on, says that when a lane has come to rest requests are
served from the map.

**Exceptions.** The epoch of active memories does not tell that one became
active and ceased to be so between two comparisons, so a hybrid answer may name
such a memory: `VectorsExact` excepts it. A recall that runs while an edition is
replaced may list the old one, find it replaced, and give no edition of that
key. The replacement of a supersession is the newest edition here. The code
takes any later one (see `edition_two_current`); a rebuild afterwards then
brings the flags back to what they were before the supersession, but not the
events, so that the epoch is another one. What is not covered is a map labelled
between the two SELECTs of the epoch, before and after such a supersession. Rows
that a rebuild drops or that have no files are not in this model either.

**Bounds.** Two requests are the least that can overwrite each other's map; two
editions of one key allow a replacement and a supersession; a memory and a
candidate allow each change of status. Three changes let one fall between each
pair of comparisons of a recall, and two are the least for a map to be older
than another older one. A rebuild changes flags only after a newer edition was
revoked, which takes the three changes of a recall: with a map in focus it is
left to the proofs, since three changes or a third edition take TLC too long.

**Proofs.** All six invariants, for any memories, editions, requests and number
of changes, from `NavigationAssumption` and `FirstRowsAssumption`: memories are
not editions, nothing read is not a contents, and the first rows are older than
any change. None of the six is inductive as it stands: they say what holds when
a request is about to answer, not what it has in hand before.

`NavInv` carries `LabelHonest` and `RouteExact`. Rows, and everything that was
read of them, are dated by the clock (`Dated`), and a step that changes contents
leaves a row dated later than anything that was read (`Moved`): contents once
left never come back. So what was listed after some contents were read is what
is live, if those are still what the lane contains (`Honest`): this holds of the
map, of each request's copy of it, and of the new map that a request is about to
put in place. Reading the label after the listing would break it.

`RecallInv` carries the rest. `Standing`, the memories that vectors were made
from and that are as they were, and `SharedStands`, that all editions are as
they were, are only ever lost. What a semantic recall has in hand contains
`Standing`, and beyond it only memories that were active when they were read
(`MemoriesInv`, `WasActive`); while `SharedStands`, its editions are those of
the vectors (`EditionsInv`). The last comparison finds the lanes to be what the
vectors were made from, which makes the one and the other exact: `VectorsExact`.
`RetiredInv` keeps what was retired before the request out of each of its
fields, `FailInv` says that what it has listed can be read unless something was
revoked since, and `UndisturbedInv` gives the contents of each field at each
step if nothing has changed.

## Governance

`status`, `reviews` and `reserved` are the vault, whose transactions are one
step here; `call` is a call of `art_knowledge_governance` with what the human
was shown, `session` a page and what it shows, `changed` the proposals with a
source that no longer is what they lock. `Begin`, `Answer`, `NoConsent` and then
`Decide`, `Refuse` or `StartPublication` and `FinishPublication` are the tool:
what it reads for the question, the answer or its absence, the revalidation and
the transaction. `OpenSession`, `Show`, `PageReview`, `PagePublish`,
`PagePublished`, `PageConflict`, `UpdateDelegation` and `Expire` are the page.
`Unchanged` is the comparison of `GovernanceSnapshot`. Nothing in the program
marks a proposal stale.

Publication has two steps, reservation and commit, since a second one may begin
between them; what happens to files and in crashes is in `KnowledgePublish`. A
view carries the reviews recorded when it was read: the code's snapshot does
not, and `RecordedAsShown` says that comparing the status is enough.

**Bounds.** Two calls and a page allow both surfaces, and each surface against
itself for the tool; proposals are an ordinary one and one that takes two
humans, which the Agent may publish by delegation; with two edition numbers,
each can be published, also at the same time.

**Proofs.** For any number of everything. In `GovInv`, a view is of the proposal
as it still is, or the proposal has moved on for good (`ViewOK`, by a rank of
the statuses that never goes down); who is in a publication has its number alone
(`Publishing`). Neither `RecordedAsShown` nor `PublishesAsConfirmed` is
inductive: both rest on a status never being what it once was.
`GovernanceImplementsLedger` is the refinement of `EditionLedger`, the promise
that `KnowledgePublish` keeps too: `Published` are the materialized proposals
under their numbers, and a materialized one is never touched again
(`MaterializedStays`).

`SourcesHeldAtAnswer` is about tool calls only. The page does not revalidate
sources, though
`docs/superpowers/specs/2026-09-06-art-delegated-governance-ui-design.md:276`
names `SOURCE_STALE` for any drift of them.

## SemanticProjection

One lane. `live` and `gone` are its documents, `staging` and `projection` the
two files, `lock` the exclusive transaction on the lock file, `job` a reindex
and `reader` a server that ranks. `Begin`, `CollectDocuments` and `Compare` are
`stable_semantic_snapshot`; `Lock`, `OpenStaging` or `RemoveStaging`,
`CreateStaging` and `LabelStaging`, `EmbedBatch`, `Complete` and `Install` are
`rebuild_with_progress`. `Stop` is every error and every crash, since both leave
the files and give the lock back: the operating system releases it with the
process. A batch is one document here.

A document is a memory at a revision, or an edition, so it is live once and its
identity is that of its text. One may become live and go between the epoch and
the listing, so `InstalledWhole` says that every document of the epoch is there,
not that no other is: the snapshot compares epochs, and the epoch was the same
before and after. `WorkIsKept` excepts a crash between marking the staging file
complete and the rename, after which the next rebuild embeds everything again.
The snapshot is taken before the lock, so an older one may be installed over a
newer one, which servers find stale.

**Bounds.** Two documents allow a batch before and after an interruption, two
processes share the staging file, and two endpoints allow vectors of different
origin.

**Proofs.** `BuildInv` is inductive for any documents, endpoints and processes:
a staging file has only vectors of the snapshot it is labelled with (`Sound`),
what is installed or opened is complete for it (`Whole`), and under the lock one
process has the file to itself (`StagedAlone`, which the other properties need).
The proofs are in `Retrieval_proofs`, after those about recall.

## VaultBackup

`vault` is the live tree of one knowledge key, `intent`, `writer` and `opener`
who is at work on it, `backup` the output directory, `creator` and `restorer`
the processes, `home` the target. `published`, `disturbed` and `known` are
history: what has been in the projection, what others took in hand while its
publisher was at work, and what the vault had when a backup began, or had
revoked when it read the editions. `BeginBackup` to `ReportBackup` are
`create_backup`, `Verified` is `verify_backup`, `BeginRestore` to `InstallHome`
are `restore_backup` with the open and the rebuild in the staging directory.
`LoseFile` and `LoseEvent` are a storage that loses a file. Copying a tree is
one step: files are immutable, and a file that vanishes after the listing is an
error, which is `FailBackup`.

**The vault meanwhile.** `StartPublication` to `CommitPublication` are a
publisher, which writes one file and the other and commits without looking at
them again; several editions may be in publication at a time. `FailPublication`,
`QuarantineFile` and `QuarantineDone` are its failure, `RecoverIntent` to
`RecoverDone` an opener that takes a publication without both files for
interrupted, dead or not, and moves away the files it listed;
`RebuildProjection` projects what has both. None of them waits for another:
opens are not serialised here. `FileEvent` is a revocation or a supersession.

**What is shown.** Editions are copied before events, and so a restored vault
never serves what was revoked when its editions were read. A restore compares
counts, not hashes, after its copy; `RestoredAsDeclared` says that this is
enough when files are lost and never invented. A crash in the middle of writing
a file leaves a temporary one, and a backup then fails until the vault is
opened. A complete publication that is later withdrawn is in the backup, and
becomes an edition of the restored vault.

**Exception.** `ReportedIsWhole` promises every edition that was published when
the backup began, but for those `disturbed`. An opener may take the manifest of
a publication in progress, which then commits (`publish_open_race`);
`verify_backup` does not mind Markdown without a manifest, so that a backup of
such a vault is reported and lacks an edition that has been committed.
`docs/operations.md:190` asks the operator to back up while nothing writes,
which the code does not enforce.

**Bounds.** One edition is there at the start (`Existing`) and one is published,
with one opener and any number of rebuilds in its way; one event before, between
or after the copies is a revocation or a supersession; two creates and two
restores allow their races; one lost file is enough to make a difference of
counts. Nothing is lost by the instance's `ACTION_CONSTRAINT` and `VIEW`: a
restore of a reported backup reads nothing of the live vault, and once the
backup is reported nobody else does, so that the vault's steps can come first
and its state be left out afterwards. Of restores from a backup that was not
reported the properties say nothing. The run does not check for deadlock: the
commands end.

**Proofs.** `BackupInv` is inductive for any number of editions, publishers,
openers, events, creates and restores: of a publication that nobody else took in
hand the publisher finds its files as it left them, and once it is published it
keeps both (`Undisturbed`); one create has the directory to itself, and only
while nothing was reported (`CreatorOK`); a reported backup vouches for what was
published undisturbed and for what was revoked, and what is in it now is within
its manifest (`BackupOK`); what a restore has copied is within the manifest it
goes by (`RestorerOK`). Equal counts then give equal sets (`CompleteIsEqual`).

## What the assumptions leave out

Each run asks one question, and not every consequence of the code has a run. The
models also reach the following, with the constants set accordingly or a
property stated for it.

- With `SerialisedOpen = FALSE`, a rebuild that listed the tree before a
  publication committed deletes the row of an edition that `publish` has
  returned; its files stay, and the next rebuild restores it. `EditionLifecycle`
  has the missing row, and `NewestServed` is claimed while no row is missing.
- A proposal that is declined, or goes stale, after a publication of it was
  reserved and before the process died is published all the same by the next
  open if both files were there: recovery does not look at the proposal. Its
  status stays what it was.
- A delegated publication completed by recovery has no receipts and leaves its
  proposal submitted: `RebuildProject` writes none.
- A committed edition whose manifest an opener has taken is missing from a
  backup that is reported as whole (see VaultBackup).
- Revoking the newest edition leaves no edition current; a rebuild from the same
  files makes the older one current.
- A rebuild that runs after the file of an applied revocation was lost forgets
  that it was applied, so the vault opens and the edition is readable again: the
  exception in `RevokedForever`.
- A writer that is held up for more than thirty seconds under the lock (by a
  suspended machine, say) loses it to a disable, which returns before the write
  commits; the comment in `intake.rs:306` says that no automatic write lands
  after a disable returned. The second of two processes that found a dead
  process's lock removes the fresh lock of the first, with the same effect, and
  when the first holder drops its lock it removes the file of the next. In each
  case the writer is `crowded`, and `NoWriteAfterDisable` does not speak of it;
  of two toggles under the lock the later one may take the version of the
  earlier.
- A lost switch file restarts its versions, so that a trigger from before may be
  current again: `TriggersExpire` is stated until there is a loss, or a holder's
  lock is removed.
- `record_source_change` fails as a whole if a memory whose current revision
  rests on the anchor is archived, superseded or rejected (`SourceChangeFails`):
  the source event is not recorded either, and `read_source_revision`, which
  looks at the revision and at the events but not at the status, goes on to
  serve that memory as a source for proposals. `docs/architecture.md:28` says
  that affected memory becomes disputed and stale for proposals.
- A Confirm on the page that comes after the memory was confirmed and disputed
  elsewhere lifts the dispute, and a late Reject disputes an active memory:
  `assure` checks the revision only.

## Findings

Two runs expect a violation, of a statement in the documentation.

- `publish_open_race`: `recover_publish_intents`
  (`art-knowledge/src/lib.rs:1361`) takes every prepared intent for a crashed
  one, also that of a process that is publishing. It moves the manifest away,
  and the publisher commits an edition without it. `docs/operations.md:186`:
  "Recovery never exposes a partial Edition."
- `edition_two_current`: `supersede` (`art-knowledge/src/lib.rs:1185`) accepts
  any later edition as the replacement and makes it current beside the newest
  one. `docs/memory-and-knowledge.md:26`: "a local projection marking the newest
  Edition current."

## Only model-checked

Liveness (`IntentsSettleUnlessBlocked`, `FiledEventsApply`, `LeftoverBroken`,
`MapConverges`) rests on fairness, which the provers do not handle. Everything
else that runs check is proved as well, for every value of the constants and
under the assumptions that each section names.

## Not modelled

- The full-text table of the Knowledge Vault: `rebuild_search_index` lists
  editions before its transaction deletes all rows, so an edition published in
  between has none until the next rebuild (`art-knowledge/src/lib.rs:1013`, a
  hazard no property covers).
- Power loss: with `synchronous=NORMAL` and directories that are not synced,
  committed rows or renamed files may be lost in another order than they were
  written.
- Matching, ranking, caps, excerpts and cautions of recall, which are computed
  without state from what was read.
- The embedding provider, which is network I/O and may fail at any batch.
- Contents, hashes, permissions and path checks; value types of `art-domain`.
- Import and export of files, the installation of integrations, desktop support,
  Git and encryption scripts, argument handling and printing in `art-cli`, and
  the audit view of the page, which only reads.
