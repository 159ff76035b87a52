--------------------------- MODULE MemoryLifecycle ---------------------------
(***************************************************************************)
(* What becomes of the private memories of one Agent                       *)
(* (crates/art-agent-store lib.rs and intake.rs, art-domain memory.rs):    *)
(* intake, import, revision, assurance, review of proposed revisions,      *)
(* source changes and retirement, and the page on which a person reviews   *)
(* candidates (art-mcp governance_ui.rs).                                  *)
(*                                                                         *)
(* An operation of the vault is one immediate transaction, hence one step. *)
(* The page is not: it looks at the candidate before its transaction, so   *)
(* that other processes come in between.  Whether intake takes something   *)
(* in is the business of MemoryIntake.  Which memory replaces a superseded *)
(* one is left out: no operation reads superseded_by or memory_relations.  *)
(***************************************************************************)
EXTENDS Integers, FiniteSets

CONSTANTS
    Memories,      \* ids of memory_artifacts
    Anchors,       \* ids of source_anchors: every anchor made gets a new one
    Proposals,     \* ids of memory_revision_proposals
    TargetOf,      \* [Proposals -> Memories]: what a proposal is to revise
    Reviewers,     \* requests to the page
    None,          \* no memory
    MaxEvidence,   \* bound: anchors of a submission
    LastRevision   \* bound: [Memories -> revision numbers]

ASSUME ConstantsAssumption ==
    /\ None \notin Memories
    /\ TargetOf \in [Proposals -> Memories]
    /\ LastRevision \in [Memories -> Nat \ {0}]

VARIABLES
    artifact,      \* memory_artifacts
    links,         \* memory_anchor_links: <<memory, revision, anchor>>
    backed,        \* <<memory, revision>>: assurance_decisions corroborate it, see Decide
    events,        \* anchors in source_events
    reported,      \* anchors whose source was reported as changed, recorded or not
    captured,      \* memories in capture_receipts
    auto,          \* memories with a pending_review receipt of their own
    proposal,      \* memory_revision_proposals
    page           \* the candidate that a request to the page has seen

vars == <<artifact, links, backed, events, reported, captured, auto, proposal, page>>

Statuses == {"candidate", "active", "disputed", "superseded", "rejected", "archived"}
Revisions == Nat \ {0}
Artifacts == [status : Statuses, revision : Revisions]
Absent == [status |-> "absent", revision |-> 0]

NoProposal == [status |-> "none", expected |-> 0]
ProposalRows == [status : {"pending", "confirmed", "rejected"}, expected : Revisions]

NoRequest == [memory |-> None, revision |-> 0]
Requests == [memory : Memories, revision : Revisions]

Init ==
    /\ artifact = [m \in Memories |-> Absent]
    /\ links = {} /\ backed = {} /\ events = {} /\ reported = {}
    /\ captured = {} /\ auto = {}
    /\ proposal = [p \in Proposals |-> NoProposal]
    /\ page = [v \in Reviewers |-> NoRequest]

-----------------------------------------------------------------------------
(* Memories *)

Status(m) == artifact[m].status
Revision(m) == artifact[m].revision
Stored(m) == artifact[m] # Absent
Evidence(m, r) == {a \in Anchors : <<m, r, a>> \in links}
Known == {link[3] : link \in links}

(* The anchors of a submission: new ones, as art-mcp makes every anchor    *)
(* (lib.rs:409, 477) and the vault insists on, but for store_revision,     *)
(* which would take the same anchor again (intake.rs:860-871).             *)
NewEvidence_OrNone == {S \in SUBSET (Anchors \ Known) : Cardinality(S) <= MaxEvidence}
NewEvidence_Shared == {S \in SUBSET Anchors : Cardinality(S) \in 1..MaxEvidence}
NewEvidence == {S \in SUBSET (Anchors \ Known) : Cardinality(S) \in 1..MaxEvidence}
Link(m, r, S) == links' = links \cup {<<m, r, a>> : a \in S}

(* can_transition_to *)
Transitions ==
    ({"candidate"} \X {"active", "rejected", "archived"})
    \cup ({"active"} \X {"disputed", "superseded", "archived"})
    \cup ({"disputed"} \X {"active", "superseded", "archived"})
    \cup ({"superseded", "rejected"} \X {"archived"})

MayBecome(m, s) == <<Status(m), s>> \in Transitions
MayBecomeOrBe(m, s) == Status(m) = s \/ MayBecome(m, s)

(* revise: a new current revision.  Nobody looks at the status here.       *)
HasNext(m) == Revision(m) < LastRevision[m]
Revised(m) == [artifact[m] EXCEPT !.revision = @ + 1]

(* A decision binds a revision, which is backed if its last decision       *)
(* corroborates it: not counting those of intake and of a person that only *)
(* ask for a review, but counting those a source change is recorded with.  *)
Decide(m, r, outcome) ==
    backed' = CASE outcome = "corroborated" -> backed \cup {<<m, r>>}
                [] outcome = "invalidated" -> backed \ {<<m, r>>}
                [] outcome = "needs_review" -> backed

-----------------------------------------------------------------------------
(* New memories *)

(* intake of something new *)
IntakeNew(m, activated, S) ==
    /\ ~Stored(m)
    /\ S \in NewEvidence
    /\ artifact' = [artifact EXCEPT ![m] =
           [status |-> IF activated THEN "active" ELSE "candidate", revision |-> 1]]
    /\ Link(m, 1, S)
    /\ Decide(m, 1, IF activated THEN "corroborated" ELSE "needs_review")
    /\ auto' = IF activated THEN auto ELSE auto \cup {m}
    /\ UNCHANGED <<events, reported, captured, proposal, page>>

(* capture, by import_record: the artifact as another home has exported    *)
(* it, with the anchors of its current revision; the rest stays behind.    *)
Capture(m, s, r, S) ==
    /\ ~Stored(m)
    /\ S \in NewEvidence \/ (S = {} /\ s = "candidate")
    /\ artifact' = [artifact EXCEPT ![m] = [status |-> s, revision |-> r]]
    /\ Link(m, r, S)
    /\ Decide(m, r, IF s = "active" THEN "corroborated" ELSE "needs_review")
    /\ captured' = captured \cup {m}
    /\ UNCHANGED <<events, reported, auto, proposal, page>>

(* open, migrate_intake: what was captured or revised before gets a        *)
(* pending_review receipt, as if intake had taken it in, unless intake has *)
(* used the key of its receipt since then.                                 *)
Open(S) ==
    /\ S \subseteq captured
    /\ auto' = auto \cup S
    /\ UNCHANGED <<artifact, links, backed, events, reported, captured, proposal, page>>

-----------------------------------------------------------------------------
(* New revisions *)

(* What replaces an active memory's content, with the evidence for it      *)
(* (store_revision): an intake the user has asked for and the evidence     *)
(* supports, or the confirmation of a proposed revision                    *)
StoreRevision(m, S) ==
    /\ Status(m) = "active" /\ HasNext(m)
    /\ S \in NewEvidence
    /\ artifact' = [artifact EXCEPT ![m] = Revised(m)]
    /\ Link(m, Revision(m) + 1, S)
    /\ Decide(m, Revision(m) + 1, "corroborated")
    /\ UNCHANGED <<events, reported, captured, auto, page>>

IntakeRevision(m, S) ==
    /\ StoreRevision(m, S)
    /\ UNCHANGED proposal

(* Any other revision of a memory through intake waits for a person.       *)
Propose(p) ==
    /\ proposal[p] = NoProposal
    /\ Status(TargetOf[p]) = "active"
    /\ proposal' = [proposal EXCEPT ![p] =
           [status |-> "pending", expected |-> Revision(TargetOf[p])]]
    /\ UNCHANGED <<artifact, links, backed, events, reported, captured, auto, page>>

(* review_memory_revision *)
Settle(p, s) == proposal' = [proposal EXCEPT ![p].status = s]

StillExpected(p) == Revision(TargetOf[p]) = proposal[p].expected

ConfirmRevision(p, S) ==
    /\ proposal[p].status = "pending"
    /\ StillExpected(p)
    /\ StoreRevision(TargetOf[p], S)
    /\ Settle(p, "confirmed")

RejectRevision(p) ==
    /\ proposal[p].status = "pending"
    /\ Settle(p, "rejected")
    /\ UNCHANGED <<artifact, links, backed, events, reported, captured, auto, page>>

(* revise: whatever the status *)
Revise(m, S) ==
    /\ Stored(m) /\ HasNext(m)
    /\ S \in NewEvidence
    /\ artifact' = [artifact EXCEPT ![m] = Revised(m)]
    /\ Link(m, Revision(m) + 1, S)
    /\ Decide(m, Revision(m) + 1, "corroborated")
    /\ captured' = captured \cup {m}
    /\ UNCHANGED <<events, reported, auto, proposal, page>>

(* edit_and_confirm_auto_candidate: the new revision keeps the evidence.   *)
EditAndConfirm(m, r) ==
    /\ m \in auto
    /\ Status(m) = "candidate" /\ Revision(m) = r /\ HasNext(m)
    /\ Evidence(m, r) # {}
    /\ artifact' = [artifact EXCEPT ![m] = [Revised(m) EXCEPT !.status = "active"]]
    /\ Link(m, r + 1, Evidence(m, r))
    /\ Decide(m, r + 1, "corroborated")
    /\ UNCHANGED <<events, reported, captured, auto, proposal>>

-----------------------------------------------------------------------------
(* assure: a person's verdict on the current revision *)

Target(m, outcome) ==
    CASE outcome = "corroborated" -> "active"
      [] outcome = "invalidated" -> IF Status(m) = "candidate" THEN "rejected" ELSE "disputed"
      [] outcome = "needs_review" -> Status(m)

Outcomes == {"corroborated", "invalidated", "needs_review"}

Assure(m, r, outcome) ==
    /\ Stored(m) /\ Revision(m) = r
    /\ Evidence(m, r) # {}
    /\ MayBecomeOrBe(m, Target(m, outcome))
    /\ artifact' = [artifact EXCEPT ![m].status = Target(m, outcome)]
    /\ Decide(m, r, outcome)
    /\ UNCHANGED <<links, events, reported, captured, auto, proposal>>

AssureCommand(m, outcome) ==
    /\ Assure(m, Revision(m), outcome)
    /\ UNCHANGED page

(* review_memory_candidate: the page reads the memory, and acts on what it *)
(* has read.  Its second step may fail, and the process may die before it. *)
PageRead(v, m) ==
    /\ page[v] = NoRequest
    /\ Status(m) = "candidate"
    /\ page' = [page EXCEPT ![v] = [memory |-> m, revision |-> Revision(m)]]
    /\ UNCHANGED <<artifact, links, backed, events, reported, captured, auto, proposal>>

PageAct(v) ==
    /\ page[v] # NoRequest
    /\ page' = [page EXCEPT ![v] = NoRequest]
    /\ \/ Assure(page[v].memory, page[v].revision, "corroborated")
       \/ EditAndConfirm(page[v].memory, page[v].revision)
       \/ Assure(page[v].memory, page[v].revision, "invalidated")

PageGivesUp(v) ==
    /\ page[v] # NoRequest
    /\ page' = [page EXCEPT ![v] = NoRequest]
    /\ UNCHANGED <<artifact, links, backed, events, reported, captured, auto, proposal>>

-----------------------------------------------------------------------------
(* record_source_change: a source is revoked, or its digest has changed.   *)
(* It concerns the memories whose current revision rests on it, and fails  *)
(* altogether if one of them cannot be disputed any more.                  *)

Affected(a) == {m \in Memories : Stored(m) /\ <<m, Revision(m), a>> \in links}
Doubted_Later(m) == IF Status(m) = "candidate" THEN "rejected" ELSE Status(m)
Doubted(m) == IF Status(m) = "candidate" THEN "rejected" ELSE "disputed"

SourceChange(a) ==
    /\ a \in Known
    /\ \A m \in Affected(a) : MayBecomeOrBe(m, Doubted(m))
    /\ artifact' = [m \in Memories |->
           IF m \in Affected(a) THEN [artifact[m] EXCEPT !.status = Doubted(m)] ELSE artifact[m]]
    /\ backed' = backed \ {<<m, Revision(m)>> : m \in Affected(a)}
    /\ events' = events \cup {a}
    /\ reported' = reported \cup {a}
    /\ UNCHANGED <<links, captured, auto, proposal, page>>

SourceChangeFails(a) ==
    /\ \E m \in Affected(a) : ~MayBecomeOrBe(m, Doubted(m))
    /\ reported' = reported \cup {a}
    /\ UNCHANGED <<artifact, links, backed, events, captured, auto, proposal, page>>

-----------------------------------------------------------------------------
(* dispute, archive, supersede *)

Transition(m, s) ==
    /\ MayBecome(m, s)
    /\ artifact' = [artifact EXCEPT ![m].status = s]
    /\ UNCHANGED <<links, backed, events, reported, captured, auto, proposal, page>>

Dispute(m) == Transition(m, "disputed")
Archive(m) == Transition(m, "archived")
Supersede(m, by) == by # m /\ Stored(by) /\ Transition(m, "superseded")

-----------------------------------------------------------------------------
Next ==
    \/ \E m \in Memories :
        \/ \E S \in SUBSET Anchors :
            \/ \E b \in BOOLEAN : IntakeNew(m, b, S)
            \/ \E s \in Statuses, r \in 1..LastRevision[m] : Capture(m, s, r, S)
            \/ IntakeRevision(m, S)
            \/ Revise(m, S)
        \/ \E outcome \in Outcomes : AssureCommand(m, outcome)
        \/ \E v \in Reviewers : PageRead(v, m)
        \/ Dispute(m) \/ Archive(m)
        \/ \E by \in Memories : Supersede(m, by)
    \/ \E p \in Proposals :
        \/ \E S \in SUBSET Anchors : ConfirmRevision(p, S)
        \/ Propose(p) \/ RejectRevision(p)
    \/ \E v \in Reviewers : PageAct(v) \/ PageGivesUp(v)
    \/ \E a \in Anchors : SourceChange(a) \/ SourceChangeFails(a)
    \/ \E S \in SUBSET captured : Open(S)

Spec == Init /\ [][Next]_vars
-----------------------------------------------------------------------------
(* Properties *)

TypeOK ==
    /\ artifact \in [Memories -> Artifacts \cup {Absent}]
    /\ links \subseteq Memories \X Revisions \X Anchors
    /\ backed \subseteq Memories \X Revisions
    /\ events \subseteq reported /\ reported \subseteq Anchors
    /\ captured \cup auto \subseteq {m \in Memories : Stored(m)}
    /\ proposal \in [Proposals -> ProposalRows \cup {NoProposal}]
    /\ page \in [Reviewers -> Requests \cup {NoRequest}]

(* What recall may serve has been corroborated, in the revision that is    *)
(* served, by the policy or by a person, and no source change came after   *)
(* (assure, record_source_change and every operation that revises).        *)
ActiveIsBacked == \A m \in Memories : Status(m) = "active" => <<m, Revision(m)>> \in backed

(* ... and it rests on evidence: only a candidate may be without           *)
(* (docs/memory-and-knowledge.md:12), which is then never made active.     *)
ServedHasEvidence ==
    \A m \in Memories : Status(m) \in {"active", "disputed"} => Evidence(m, Revision(m)) # {}

(* A change of a source reaches every memory that is not retired: the      *)
(* reports that fail are about retired memories only (record_source_change *)
(* with the anchors store_revision and edit_and_confirm link).             *)
Live(m) == Status(m) \in {"candidate", "active", "disputed"}
ChangesReachTheLive ==
    \A m \in Memories : Live(m) => Evidence(m, Revision(m)) \cap reported \subseteq events

(* No verdict, revision or stale request of the page brings back what was  *)
(* superseded, rejected or archived (can_transition_to).                   *)
RetiredForGood ==
    [][\A m \in Memories : Stored(m) /\ ~Live(m) => Status(m)' \in {Status(m), "archived"}]_vars

(* Of several proposals to revise one revision, at most one is confirmed,  *)
(* and the memory has moved on by then (review_memory_revision).           *)
Confirmed(p) == proposal[p].status = "confirmed"
OneConfirmedPerRevision ==
    \A p, q \in Proposals :
        /\ Confirmed(p) /\ Confirmed(q)
        /\ TargetOf[p] = TargetOf[q] /\ proposal[p].expected = proposal[q].expected
        => p = q
=============================================================================
