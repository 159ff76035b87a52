----------------------------- MODULE Governance -----------------------------
(***************************************************************************)
(* Governing knowledge proposals over the two human surfaces of one MCP    *)
(* server (art-mcp lib.rs and governance_ui.rs): art_knowledge_governance, *)
(* which asks a human by elicitation or publishes for its Agent by         *)
(* delegation, and the sessions of the local governance page.  They share  *)
(* the vault, whose transactions (art-knowledge lib.rs) are one step each. *)
(* What a human is shown is read before the answer, and recorded after it. *)
(*                                                                         *)
(* All proposals are for one knowledge key.  Crashes in a publication and  *)
(* what delegated receipts say are in module KnowledgePublish.  Nothing    *)
(* marks a proposal stale in the program, so that no status is "stale";    *)
(* changes_requested and rejected, which nothing leaves, are "declined".   *)
(***************************************************************************)
EXTENDS Naturals, FiniteSets

CONSTANTS
    Proposals,   \* proposal identities
    Ours,        \* those with sources of the Agent the server is bound to
    TwoHumans,   \* those of elevated risk with fewer than two sources
    Calls,       \* calls of art_knowledge_governance
    Sessions,    \* capabilities of the governance page
    MaxNumber    \* bound: edition numbers

ASSUME ConstantsAssumption ==
    /\ Ours \subseteq Proposals
    /\ TwoHumans \subseteq Proposals
    /\ Calls \cap Sessions = {}
    /\ MaxNumber \in Nat

None == "none"
NoNumber == 0

VARIABLES
    status,       \* knowledge_proposals.status
    reviews,      \* rows of proposal_reviews, with the surface that is the actor
    reserved,     \* edition_number in publication_reservations, 0 when there is
                  \* none; the row of a published edition stays
    delegated,    \* TRUE: delegation_mode is delegated_local
    changed,      \* proposals with a source that is no longer what they lock
    call,         \* a tool call that has not returned
    session       \* a page: its session in the server, and what it shows

vaultVars == <<status, reviews, reserved>>
vars == <<vaultVars, delegated, changed, call, session>>

Open == {"submitted", "under_review"}
Actionable == Open \cup {"approved"}
Decisions == {"approved", "declined"}
Statuses == {None, "materialized"} \cup Actionable \cup Decisions
Surfaces == {"elicitation", "page"}
Operations == {"review", "publish", "approve_and_publish"}
Steps == {"idle", "asking", "answered", "publishing"}
Numbers == 1..MaxNumber

(* What a human is shown of a proposal: its snapshot, which is the status, *)
(* its only field that ever changes, and of what is approved the number of *)
(* the next edition.                                                       *)
(* `rows' is what was recorded of it then, which no snapshot says.         *)
NoView == [proposal |-> None, status |-> None, number |-> NoNumber, rows |-> {}]

(* `held': the sources were those of the proposal when the human answered, *)
(* or the Agent was let through.                                           *)
NoCall == [step |-> "idle", op |-> None, view |-> NoView, held |-> FALSE]
NoSession == [open |-> FALSE, view |-> None, allowed |-> {},
              step |-> "idle", shown |-> NoView]

Init ==
    /\ status = [q \in Proposals |-> None]
    /\ reviews = [q \in Proposals |-> {}]
    /\ reserved = [q \in Proposals |-> NoNumber]
    /\ delegated = FALSE
    /\ changed = {}
    /\ call = [c \in Calls |-> NoCall]
    /\ session = [s \in Sessions |-> NoSession]

-----------------------------------------------------------------------------
(* The transactions of the vault *)

(* GovernanceSnapshot::from_proposal is what it was *)
Unchanged_StillOpen(view) == status[view.proposal] \in Actionable
Unchanged(view) == status[view.proposal] = view.status

AwaitsSecondHuman(q, actor) ==
    q \in TwoHumans /\ ~\E x \in reviews[q] : x.decision = "approved" /\ x.actor # actor

(* review_exact, which records a decision or returns an error *)
CanReview(view) == Unchanged(view) /\ status[view.proposal] \in Open

ReviewExact(view, actor, decision) ==
    LET q == view.proposal IN
    /\ CanReview(view)
    /\ status' = [status EXCEPT ![q] =
           IF decision = "approved" /\ AwaitsSecondHuman(q, actor)
           THEN "under_review" ELSE decision]
    /\ reviews' = [reviews EXCEPT ![q] = @ \cup {[actor |-> actor, decision |-> decision]}]
    /\ UNCHANGED reserved

(* publish_guarded up to its first commit: publish_exact for a human,      *)
(* approve_and_publish_delegated_exact for the Agent.                      *)
NumbersTaken_Published ==
    {reserved[q] : q \in {r \in Proposals : status[r] = "materialized"}}
NumbersTaken == {reserved[q] : q \in Proposals}
NextNumber ==
    CHOOSE n \in 1..(MaxNumber + 1) :
        /\ \A k \in NumbersTaken : k < n
        /\ n = 1 \/ n - 1 \in NumbersTaken

View(q) == [proposal |-> q, status |-> status[q], rows |-> reviews[q],
            number |-> IF status[q] = "approved" THEN NextNumber ELSE NoNumber]

NumberHolds_Any(view) == TRUE
NumberHolds(view) == view.number = NextNumber

CanPublish(view, byAgent) ==
    /\ Unchanged(view)
    /\ reserved[view.proposal] = NoNumber
    /\ IF byAgent
       THEN view.status = "submitted" /\ delegated /\ view.proposal \in Ours
       ELSE view.status = "approved" /\ NumberHolds(view)

Reserve(view, byAgent) ==
    /\ CanPublish(view, byAgent)
    /\ NextNumber \in Numbers
    /\ reserved' = [reserved EXCEPT ![view.proposal] = NextNumber]
    /\ UNCHANGED <<status, reviews>>

(* and its second, which for a delegated publication reads the policy      *)
(* again.  Whatever fails gives the number back.                           *)
StillAllowed(view, byAgent) == Unchanged(view) /\ (byAgent => delegated)

CommitEdition(view, byAgent) ==
    /\ StillAllowed(view, byAgent)
    /\ status' = [status EXCEPT ![view.proposal] = "materialized"]
    /\ UNCHANGED <<reviews, reserved>>

PublicationFails(view) ==
    /\ reserved' = [reserved EXCEPT ![view.proposal] = NoNumber]
    /\ UNCHANGED <<status, reviews>>

-----------------------------------------------------------------------------
(* art_knowledge_propose locks sources that are what they are.  A source   *)
(* that changes never becomes again what was locked.                       *)

Propose(q) ==
    /\ status[q] = None
    /\ status' = [status EXCEPT ![q] = "submitted"]
    /\ UNCHANGED <<reviews, reserved, delegated, changed, call, session>>

SourceChanges(q) ==
    /\ status[q] # None
    /\ changed' = changed \cup {q}
    /\ UNCHANGED <<vaultVars, delegated, call, session>>

-----------------------------------------------------------------------------
(* art_knowledge_governance *)

Step(c, r) == call' = [call EXCEPT ![c] = r]
At(c, s) == call[c].step = s
ByAgent(c) == call[c].op = "approve_and_publish"
Revalidates(q) == q \in Ours /\ q \notin changed

(* Up to the question a call only reads, one SELECT after another, of      *)
(* which the snapshot is the first: had the status moved on before the     *)
(* next, the snapshot would not hold at the end.  A delegated publication  *)
(* asks nobody.                                                            *)
Begin(c, op, q) ==
    /\ At(c, "idle") /\ status[q] # None
    /\ Revalidates(q)
    /\ CASE op = "review" -> status[q] = "submitted"
         [] op = "publish" -> status[q] = "approved"
         [] op = "approve_and_publish" -> delegated
    /\ Step(c, [step |-> IF op = "approve_and_publish" THEN "answered" ELSE "asking",
                op |-> op, held |-> op = "approve_and_publish",
                view |-> View(q)])
    /\ UNCHANGED <<vaultVars, delegated, changed, session>>

(* accepted; the decision shows when it is recorded                        *)
Answer(c) ==
    /\ At(c, "asking")
    /\ Step(c, [call[c] EXCEPT !.step = "answered",
                               !.held = call[c].view.proposal \notin changed])
    /\ UNCHANGED <<vaultVars, delegated, changed, session>>

(* declined, cancelled, no content, malformed, not confirmed, or nothing   *)
(* within elicitation_timeout                                              *)
NoConsent(c) ==
    /\ At(c, "asking")
    /\ Step(c, NoCall)
    /\ UNCHANGED <<vaultVars, delegated, changed, session>>

(* The sources are revalidated after an answer, right before the           *)
(* transaction: what changes in between may as well change after it.       *)
Cleared_AsAsked(c) == At(c, "answered")
Cleared(c) == /\ At(c, "answered")
              /\ ByAgent(c) \/ Revalidates(call[c].view.proposal)

Decide(c) ==
    /\ Cleared(c) /\ call[c].op = "review"
    /\ \E d \in Decisions : ReviewExact(call[c].view, "elicitation", d)
    /\ Step(c, NoCall)
    /\ UNCHANGED <<delegated, changed, session>>

StartPublication(c) ==
    /\ Cleared(c) /\ call[c].op # "review"
    /\ Reserve(call[c].view, ByAgent(c))
    /\ Step(c, [call[c] EXCEPT !.step = "publishing"])
    /\ UNCHANGED <<delegated, changed, session>>

FinishPublication(c) ==
    /\ At(c, "publishing")
    /\ CommitEdition(call[c].view, ByAgent(c)) \/ PublicationFails(call[c].view)
    /\ Step(c, NoCall)
    /\ UNCHANGED <<delegated, changed, session>>

(* SOURCE_STALE, INVALID_GOVERNANCE_STATE or a tool error: no write        *)
Refuse(c) ==
    /\ At(c, "answered")
    /\ Cleared(c) => IF call[c].op = "review" THEN ~CanReview(call[c].view)
                     ELSE CanPublish(call[c].view, ByAgent(c)) => NextNumber \notin Numbers
    /\ Step(c, NoCall)
    /\ UNCHANGED <<vaultVars, delegated, changed, session>>

-----------------------------------------------------------------------------
(* The governance page, whose sources nobody revalidates *)

(* A session may read the proposal it is opened for, or all that were      *)
(* actionable when it was opened; only with the pending view can it write  *)
(* about them.                                                             *)
Readable == {{q} : q \in {r \in Proposals : status[r] # None}}
               \cup {{q \in Proposals : status[q] \in Actionable}}

OpenSession(s, view, allowed) ==
    /\ ~session[s].open /\ session[s].step = "idle"
    /\ session' = [session EXCEPT ![s] =
           [NoSession EXCEPT !.open = TRUE, !.view = view, !.allowed = allowed]]
    /\ UNCHANGED <<vaultVars, delegated, changed, call>>

(* After 30 minutes the server forgets a session; the page still shows     *)
(* what it did, until another is opened.                                   *)
Expire(s) ==
    /\ session[s].open
    /\ session' = [session EXCEPT ![s].open = FALSE]
    /\ UNCHANGED <<vaultVars, delegated, changed, call>>

Authorized(s, view) == session[s].open /\ session[s].view = view

(* proposal_detail; what it reads after the proposal may be newer, as      *)
(* before the question of a call.                                          *)
Show(s, q) ==
    /\ session[s].open /\ q \in session[s].allowed /\ session[s].step = "idle"
    /\ session' = [session EXCEPT ![s].shown = View(q)]
    /\ UNCHANGED <<vaultVars, delegated, changed, call>>

(* allowed_actions, the buttons of the detail *)
AllowedDecisions(s) ==
    CASE session[s].shown.status = "submitted" -> Decisions
      [] session[s].shown.status = "under_review" -> {"declined"}
      [] OTHER -> {}

(* The detail is loaded again after a decision and closed after a conflict. *)
Close(s) == session' = [session EXCEPT ![s].shown = NoView, ![s].step = "idle"]

PageReview(s) ==
    /\ Authorized(s, "pending")
    /\ \E d \in AllowedDecisions(s) : ReviewExact(session[s].shown, "page", d)
    /\ Close(s)
    /\ UNCHANGED <<delegated, changed, call>>

PagePublish(s) ==
    /\ Authorized(s, "pending") /\ session[s].step = "idle"
    /\ session[s].shown.status = "approved"
    /\ Reserve(session[s].shown, FALSE)
    /\ session' = [session EXCEPT ![s].step = "publishing"]
    /\ UNCHANGED <<delegated, changed, call>>

PagePublished(s) ==
    /\ session[s].step = "publishing"
    /\ CommitEdition(session[s].shown, FALSE) \/ PublicationFails(session[s].shown)
    /\ Close(s)
    /\ UNCHANGED <<delegated, changed, call>>

PageConflict(s) ==
    /\ Authorized(s, "pending") /\ session[s].step = "idle"
    /\ session[s].shown # NoView
    /\ ~CanReview(session[s].shown)
    /\ CanPublish(session[s].shown, FALSE) => NextNumber \notin Numbers
    /\ Close(s)
    /\ UNCHANGED <<vaultVars, delegated, changed, call>>

UpdateDelegation(s, mode) ==
    /\ Authorized(s, "settings")
    /\ delegated' = mode
    /\ UNCHANGED <<vaultVars, changed, call, session>>

-----------------------------------------------------------------------------
CallStep(c) ==
    \/ Answer(c) \/ NoConsent(c) \/ Decide(c) \/ Refuse(c)
    \/ StartPublication(c) \/ FinishPublication(c)
    \/ \E op \in Operations, q \in Proposals : Begin(c, op, q)

PageStep(s) ==
    \/ Expire(s) \/ PageReview(s) \/ PagePublish(s) \/ PagePublished(s) \/ PageConflict(s)
    \/ OpenSession(s, "settings", {})
    \/ \E allowed \in Readable : OpenSession(s, "pending", allowed)
    \/ \E q \in Proposals : Show(s, q)
    \/ \E mode \in BOOLEAN : UpdateDelegation(s, mode)

Next ==
    \/ \E q \in Proposals : Propose(q) \/ SourceChanges(q)
    \/ \E c \in Calls : CallStep(c)
    \/ \E s \in Sessions : PageStep(s)

Spec == Init /\ [][Next]_vars

-----------------------------------------------------------------------------
Views == [proposal : Proposals \cup {None}, status : Statuses, number : 0..(MaxNumber + 1),
          rows : SUBSET [actor : Surfaces, decision : Decisions]]

(* Every variable holds what the code can put there, and what is           *)
(* materialized has an edition number.                                     *)
TypeOK ==
    /\ status \in [Proposals -> Statuses]
    /\ reviews \in [Proposals -> SUBSET [actor : Surfaces, decision : Decisions]]
    /\ reserved \in [Proposals -> 0..MaxNumber]
    /\ \A q \in Proposals : status[q] = "materialized" => reserved[q] # NoNumber
    /\ delegated \in BOOLEAN
    /\ changed \subseteq Proposals
    /\ call \in [Calls -> [step : Steps, op : Operations \cup {None},
                           view : Views, held : BOOLEAN]]
    /\ session \in [Sessions -> [open : BOOLEAN, view : {"pending", "settings", None},
                                 allowed : SUBSET Proposals, step : {"idle", "publishing"},
                                 shown : Views]]

Acts(c) == call'[c] # call[c]
PageActs(s) == session'[s] # session[s]
Writes == vaultVars' # vaultVars

(* What a human answers is recorded on what the human was shown, however   *)
(* long the answer took: no decision has been recorded of the proposal     *)
(* since, on any surface (the snapshots of review_exact and publish_exact, *)
(* which do not say what the decisions were).                              *)
RecordedAsShown ==
    [][Writes => /\ \A c \in Calls : Acts(c) /\ ~ByAgent(c) =>
                        call[c].view.rows = reviews[call[c].view.proposal]
                 /\ \A s \in Sessions : PageActs(s) =>
                        session[s].shown.rows = reviews[session[s].shown.proposal]]_vars

(* What a human has turned down on one surface stays turned down: nobody   *)
(* approves it on the other, and no publication of it that is under way    *)
(* commits (what becomes of one that died is in KnowledgePublish).         *)
DeclinedIsFinal ==
    [][\A q \in Proposals : status[q] = "declined" => status'[q] = "declined"]_vars

(* A publication under way is of the number that the human confirmed, is   *)
(* the only one of its proposal, and shares the number with no other.      *)
PublishesAsConfirmed ==
    LET calls == {c \in Calls : At(c, "publishing")}
        pages == {s \in Sessions : session[s].step = "publishing"}
        Shown(p) == IF p \in calls THEN call[p].view ELSE session[p].shown
    IN /\ \A p, r \in calls \cup pages : Shown(p).proposal = Shown(r).proposal => p = r
       /\ \A p \in calls \cup pages : p \in pages \/ ~ByAgent(p) =>
              reserved[Shown(p).proposal] = Shown(p).number
       /\ \A q, r \in Proposals : reserved[q] = reserved[r] => q = r \/ reserved[q] = NoNumber

(* No tool call writes whose sources had changed by the time the human     *)
(* answered or the Agent was let through.  The page does not look.         *)
SourcesHeldAtAnswer ==
    [][Writes => \A c \in Calls : Acts(c) => call[c].held]_vars

(* The two surfaces do not add up to the second human that an elevated     *)
(* proposal waits for, although they record different actors: through      *)
(* them it is never approved, only published by delegation.                *)
NoSecondIdentity == \A q \in TwoHumans : status[q] # "approved"

(* However calls, pages and the Agent come between each other's two        *)
(* transactions, the vault they publish into is the ledger of              *)
(* EditionLedger, of one key: what is materialized stays, under a number   *)
(* that no other has, also if that was chosen while others were under way. *)
Entry(q) == [edition |-> q, key |-> "one", number |-> reserved[q], proposal |-> q]
Published == {Entry(q) : q \in {r \in Proposals : status[r] = "materialized"}}
Newest == {a \in Published : \A b \in Published : b.number <= a.number}

Ledger == INSTANCE EditionLedger WITH published <- Published, newest <- Newest
LedgerSpec == Ledger!Spec
=============================================================================
