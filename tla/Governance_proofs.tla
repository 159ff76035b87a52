------------------------ MODULE Governance_proofs ------------------------
(***************************************************************************)
(* What module Governance promises, proved for any number of proposals,    *)
(* calls and pages.                                                        *)
(***************************************************************************)
EXTENDS Governance, WellFoundedInduction, TLAPS

(* A bounded set of numbers has a greatest one.                            *)
LEMMA Greatest ==
    ASSUME NEW m \in Nat, NEW S, S \subseteq 0..m, S # {}
    PROVE  \E n \in S : \A k \in S : k <= n
<1> DEFINE T == {m - k : k \in S}
<1> DEFINE R == {p \in Nat \X Nat : p[1] < p[2]}
<1>0. \A k \in S : k \in 0..m /\ m - k \in Nat
    OBVIOUS
<1>1. T \subseteq Nat /\ T # {}
    BY <1>0
<1>2. IsWellFoundedOn(R, Nat)
    BY NatLessThanWellFounded DEF OpToRel
<1> HIDE DEF R, T
<1>3. PICK x \in T : \A y \in T : ~ (<<y, x>> \in R)
    BY <1>1, <1>2, WFMin
<1>4. \A y \in T : ~(y < x)
    BY <1>1, <1>3 DEF R
<1>5. PICK n \in S : x = m - n
    BY DEF T
<1>6. ASSUME NEW k \in S PROVE k <= n
    <2>1. ~(m - k < m - n)
        BY <1>4, <1>5 DEF T
    <2> QED
        BY <1>0, <2>1
<1> QED
    BY <1>6

(* The next edition number is beyond all that are reserved or published.   *)
LEMMA NextNumberIsNew ==
    ASSUME reserved \in [Proposals -> 0..MaxNumber]
    PROVE  NextNumber \in 1..(MaxNumber + 1) /\ \A q \in Proposals : reserved[q] < NextNumber
<1> DEFINE taken == {reserved[q] : q \in Proposals}
<1> DEFINE Next_(n) == /\ \A k \in taken : k < n
                       /\ n = 1 \/ n - 1 \in taken
<1>1. \E n \in 1..(MaxNumber + 1) : Next_(n)
  <2>1. CASE taken = {}
    BY <2>1, ConstantsAssumption
  <2>2. CASE taken # {}
    <3> HIDE DEF taken
    <3>0. taken \subseteq 0..MaxNumber
        BY DEF taken
    <3>1. PICK n \in taken : \A k \in taken : k <= n
        BY <2>2, <3>0, Greatest, ConstantsAssumption
    <3>2. n + 1 \in 1..(MaxNumber + 1) /\ Next_(n + 1)
        BY <3>0, <3>1, ConstantsAssumption
    <3> QED
        BY <3>2
  <2> QED
    BY <2>1, <2>2
<1>2. NextNumber = CHOOSE n \in 1..(MaxNumber + 1) : Next_(n)
    BY DEF NextNumber, NumbersTaken
<1>3. NextNumber \in 1..(MaxNumber + 1) /\ Next_(NextNumber)
    BY <1>1, <1>2
<1> QED
    BY <1>3

-----------------------------------------------------------------------------
(* A status is never what it once was.                                     *)
Rank(x) == CASE x = None -> 0
             [] x = "submitted" -> 1
             [] x = "under_review" -> 2
             [] x \in Decisions -> 3
             [] OTHER -> 4

Rows == SUBSET [actor : Surfaces, decision : Decisions]
CallType == [step : Steps, op : Operations \cup {None}, view : Views, held : BOOLEAN]
SessionType == [open : BOOLEAN, view : {"pending", "settings", None},
                allowed : SUBSET Proposals, step : {"idle", "publishing"}, shown : Views]

(* Decisions are recorded of what is under review or later, one human is   *)
(* never two, and two editions never have the same number.                 *)
VaultOK ==
    /\ status \in [Proposals -> Statuses]
    /\ reviews \in [Proposals -> Rows]
    /\ reserved \in [Proposals -> 0..MaxNumber]
    /\ \A q \in Proposals : status[q] = "materialized" => reserved[q] # NoNumber
    /\ \A q \in Proposals : status[q] \in {None, "submitted"} => reviews[q] = {}
    /\ NoSecondIdentity
    /\ \A q, r \in Proposals : reserved[q] = reserved[r] => q = r \/ reserved[q] = NoNumber

ActorsOK ==
    /\ delegated \in BOOLEAN
    /\ changed \subseteq Proposals
    /\ call \in [Calls -> CallType]
    /\ session \in [Sessions -> SessionType]

(* What was shown is what there is, with the decisions recorded of it, or  *)
(* the proposal has moved on and will not come back.                       *)
ViewOK(view) ==
    LET q == view.proposal IN
    /\ q \in Proposals
    /\ \/ view.status = status[q] /\ view.rows = reviews[q]
       \/ Rank(view.status) < Rank(status[q])

(* A publication under way has its number and will be of the view that it  *)
(* was started with.                                                       *)
Publishing(view, byAgent) ==
    LET q == view.proposal IN
    /\ status[q] # "materialized" /\ reserved[q] # NoNumber
    /\ IF byAgent THEN view.status = "submitted"
       ELSE view.status = "approved" /\ status[q] = "approved" /\ reserved[q] = view.number

CallOK(c) ==
    ~At(c, "idle") =>
        /\ ViewOK(call[c].view)
        /\ call[c].op = "review" => call[c].view.status = "submitted"
        /\ At(c, "asking") => ~ByAgent(c)
        /\ At(c, "answered") =>
               call[c].held \/ (~ByAgent(c) /\ call[c].view.proposal \in changed)
        /\ At(c, "publishing") => call[c].held /\ Publishing(call[c].view, ByAgent(c))

PageOK(s) ==
    /\ session[s].shown = NoView \/ ViewOK(session[s].shown)
    /\ session[s].step = "publishing" =>
           ViewOK(session[s].shown) /\ Publishing(session[s].shown, FALSE)

(* The publications under way, but for those of the call or page p         *)
CallsFor(q) == {c \in Calls : At(c, "publishing") /\ call[c].view.proposal = q}
PagesFor(q) == {s \in Sessions : session[s].step = "publishing" /\ session[s].shown.proposal = q}
Publishers(q) == CallsFor(q) \cup PagesFor(q)

GovInv ==
    /\ VaultOK /\ ActorsOK
    /\ \A c \in Calls : CallOK(c)
    /\ \A s \in Sessions : PageOK(s)
    /\ \A q \in Proposals : \A p, r \in Publishers(q) : p = r

LEMMA GovInit == Init => GovInv
<1> SUFFICES ASSUME Init PROVE GovInv
    OBVIOUS
<1>1. NoView \in Views
    BY ConstantsAssumption DEF NoView, Views, Statuses, NoNumber
<1>2. VaultOK
    BY ConstantsAssumption DEF Init, VaultOK, Statuses, Rows, NoNumber, NoSecondIdentity, None
<1>3. ActorsOK
    BY <1>1 DEF Init, ActorsOK, NoCall, NoSession, CallType, SessionType, Steps
<1> QED
    BY <1>2, <1>3 DEF Init, GovInv, CallOK, PageOK, NoCall, NoSession, At, Publishers,
                      CallsFor, PagesFor

-----------------------------------------------------------------------------
(* What a transaction may do to what others are at: no proposal goes back, *)
(* and a publication keeps its number and finds what it needs.             *)
Forward ==
    \A q \in Proposals : \/ status'[q] = status[q] /\ reviews'[q] = reviews[q]
                         \/ Rank(status[q]) < Rank(status'[q])
Left(q) ==
    /\ reserved'[q] = reserved[q]
    /\ status'[q] = "materialized" => status[q] = "materialized"
    /\ status[q] = "approved" => status'[q] = "approved"

LEMMA RankType == \A x : Rank(x) \in 0..4
BY DEF Rank

LEMMA ViewKept ==
    ASSUME Forward, NEW v, ViewOK(v)
    PROVE  ViewOK(v)'
<1>1. v.proposal \in Proposals
    BY DEF ViewOK
<1>2. /\ Rank(v.status) \in 0..4 /\ Rank(status[v.proposal]) \in 0..4
      /\ Rank(status'[v.proposal]) \in 0..4
    BY RankType
<1> QED
    BY <1>1, <1>2 DEF Forward, ViewOK

LEMMA CallKept ==
    ASSUME GovInv, Forward, changed \subseteq changed', NEW c \in Calls, call'[c] = call[c],
           At(c, "publishing") => Left(call[c].view.proposal)
    PROVE  CallOK(c)'
<1> SUFFICES ASSUME ~At(c, "idle") PROVE CallOK(c)'
    BY DEF CallOK, At
<1>1. CallOK(c) /\ ViewOK(call[c].view)
    BY DEF GovInv, CallOK
<1>2. ViewOK(call[c].view)'
    BY <1>1, ViewKept DEF ViewOK
<1>3. At(c, "publishing") => Publishing(call[c].view, ByAgent(c))'
    BY <1>1 DEF CallOK, Left, Publishing, ByAgent
<1> QED
    BY <1>1, <1>2, <1>3 DEF CallOK, At, ByAgent

LEMMA PageKept ==
    ASSUME GovInv, Forward, NEW s \in Sessions, session'[s].shown = session[s].shown,
           session'[s].step = session[s].step,
           session[s].step = "publishing" => Left(session[s].shown.proposal)
    PROVE  PageOK(s)'
<1>1. PageOK(s)
    BY DEF GovInv
<1>2. ViewOK(session[s].shown) => ViewOK(session[s].shown)'
    BY ViewKept DEF ViewOK
<1> QED
    BY <1>1, <1>2 DEF PageOK, Left, Publishing

-----------------------------------------------------------------------------
(* The transactions of the vault                                           *)

LEMMA NothingWritten ==
    ASSUME VaultOK, UNCHANGED vaultVars
    PROVE  VaultOK' /\ Forward /\ \A q \in Proposals : Left(q)
BY DEF vaultVars, VaultOK, NoSecondIdentity, Forward, Left

LEMMA ReviewTransaction ==
    ASSUME VaultOK, NEW view, ViewOK(view), NEW actor \in Surfaces, NEW d \in Decisions,
           ReviewExact(view, actor, d), view.status = "submitted" \/ d = "declined"
    PROVE  /\ VaultOK' /\ Forward /\ \A q \in Proposals : Left(q)
           /\ view.rows = reviews[view.proposal]
<1> DEFINE q == view.proposal
<1>1. q \in Proposals /\ status[q] = view.status /\ status[q] \in Open
    BY DEF ViewOK, ReviewExact, CanReview, Unchanged
<1>2. view.rows = reviews[q]
    BY <1>1, RankType DEF ViewOK
<1>3. PICK new \in {"under_review", "approved", "declined"} :
          /\ status' = [status EXCEPT ![q] = new]
          /\ new = IF d = "approved" /\ AwaitsSecondHuman(q, actor) THEN "under_review" ELSE d
    BY DEF ReviewExact, Decisions
<1>4. [actor |-> actor, decision |-> d] \in [actor : Surfaces, decision : Decisions]
    OBVIOUS
<1>5. /\ reviews' \in [Proposals -> Rows] /\ reserved' = reserved
      /\ \A r \in Proposals \ {q} : reviews'[r] = reviews[r]
    BY <1>1, <1>4 DEF ReviewExact, VaultOK, Rows
<1>6. new = "approved" => q \notin TwoHumans
    <2> SUFFICES ASSUME new = "approved", q \in TwoHumans PROVE FALSE
        OBVIOUS
    <2>1. d = "approved" /\ ~AwaitsSecondHuman(q, actor)
        BY <1>3
    <2>2. reviews[q] = {}
        BY <1>1, <2>1 DEF VaultOK
    <2> QED
        BY <2>1, <2>2 DEF AwaitsSecondHuman
<1>7. status' \in [Proposals -> Statuses]
    BY <1>3 DEF VaultOK, Statuses, Actionable, Open, Decisions
<1>8. NoSecondIdentity'
    BY <1>1, <1>3, <1>6, ConstantsAssumption DEF VaultOK, NoSecondIdentity
<1>9. VaultOK'
    BY <1>1, <1>3, <1>5, <1>7, <1>8 DEF VaultOK, None
<1>10. status[q] = "under_review" => new = "declined"
    BY <1>1, <1>3
<1>11. Rank(status[q]) < Rank(new)
    BY <1>1, <1>3, <1>10 DEF Rank, Open, Decisions, None
<1>12. Forward
    BY <1>1, <1>3, <1>5, <1>11 DEF Forward, VaultOK
<1>13. \A r \in Proposals : Left(r)
    BY <1>1, <1>3, <1>5 DEF Left, VaultOK, Open
<1> QED
    BY <1>2, <1>9, <1>12, <1>13

LEMMA ReserveTransaction ==
    ASSUME VaultOK, NEW view, ViewOK(view), NEW byAgent \in BOOLEAN, Reserve(view, byAgent)
    PROVE  /\ VaultOK' /\ Forward
           /\ \A q \in Proposals : reserved[q] # NoNumber => Left(q)
           /\ reserved[view.proposal] = NoNumber
           /\ Publishing(view, byAgent)'
           /\ view.rows = reviews[view.proposal]
<1> DEFINE q == view.proposal
<1> DEFINE n == NextNumber
<1>1. /\ q \in Proposals /\ status[q] = view.status /\ reserved[q] = NoNumber
      /\ IF byAgent THEN view.status = "submitted"
         ELSE view.status = "approved" /\ view.number = n
      /\ n \in 1..MaxNumber /\ reserved' = [reserved EXCEPT ![q] = n]
      /\ status' = status /\ reviews' = reviews
    BY DEF ViewOK, Reserve, CanPublish, Unchanged, NumberHolds, Numbers
<1>2. \A r \in Proposals : reserved[r] \in Nat /\ reserved[r] < n
    BY NextNumberIsNew, ConstantsAssumption DEF VaultOK
<1> HIDE DEF n
<1>3. reserved' \in [Proposals -> 0..MaxNumber] /\ reserved'[q] = n /\ n # NoNumber
    BY <1>1, ConstantsAssumption DEF VaultOK, NoNumber
<1>4. \A r \in Proposals \ {q} : reserved'[r] = reserved[r] /\ reserved'[r] # n
    BY <1>1, <1>2 DEF VaultOK
<1>5. VaultOK'
    BY <1>1, <1>3, <1>4 DEF VaultOK, NoSecondIdentity
<1>6. Publishing(view, byAgent)'
    BY <1>1, <1>3 DEF Publishing
<1>7. view.rows = reviews[q]
    BY <1>1, RankType DEF ViewOK
<1> QED
    BY <1>1, <1>4, <1>5, <1>6, <1>7 DEF Forward, Left

LEMMA FinishTransaction ==
    ASSUME VaultOK, NEW view, ViewOK(view), NEW byAgent \in BOOLEAN, Publishing(view, byAgent),
           CommitEdition(view, byAgent) \/ PublicationFails(view)
    PROVE  /\ VaultOK' /\ Forward
           /\ \A q \in Proposals \ {view.proposal} : Left(q)
           /\ ~byAgent => view.rows = reviews[view.proposal]
<1> DEFINE q == view.proposal
<1>1. /\ q \in Proposals /\ status[q] # "materialized" /\ reserved[q] # NoNumber
      /\ reviews' = reviews
    BY DEF ViewOK, Publishing, CommitEdition, PublicationFails
<1>2. ~byAgent => view.rows = reviews[q]
    BY RankType DEF ViewOK, Publishing
<1>3. CASE CommitEdition(view, byAgent)
    <2>1. /\ status' = [status EXCEPT ![q] = "materialized"] /\ reserved' = reserved
          /\ status[q] \in {"submitted", "approved"}
        BY <1>3 DEF CommitEdition, StillAllowed, Unchanged, Publishing
    <2>2. VaultOK'
        BY <1>1, <2>1 DEF VaultOK, NoSecondIdentity, Statuses, None
    <2>3. Rank(status[q]) < Rank("materialized")
        BY <2>1 DEF Rank, Decisions, None
    <2> QED
        BY <1>1, <1>2, <2>1, <2>2, <2>3 DEF VaultOK, Forward, Left
<1>4. CASE PublicationFails(view)
    <2>1. /\ reserved' = [reserved EXCEPT ![q] = NoNumber] /\ status' = status
        BY <1>4 DEF PublicationFails
    <2>2. VaultOK'
        BY <1>1, <2>1, ConstantsAssumption DEF VaultOK, NoSecondIdentity, NoNumber
    <2> QED
        BY <1>1, <1>2, <2>1, <2>2 DEF VaultOK, Forward, Left
<1> QED
    BY <1>3, <1>4

-----------------------------------------------------------------------------
(* What remains to be shown of a step: of the vault, of the call or the    *)
(* page that takes it, and of those that have a publication under way.     *)

LEMMA CallStepKeeps ==
    ASSUME GovInv, VaultOK', Forward, NEW c \in Calls, NEW r \in CallType,
           call' = [call EXCEPT ![c] = r], UNCHANGED <<delegated, changed, session>>,
           CallOK(c)',
           \A q \in Proposals : Publishers(q) \ {c} # {} =>
               Left(q) /\ (r.step = "publishing" => r.view.proposal # q)
    PROVE  GovInv'
<1>1. call'[c] = r /\ \A d \in Calls \ {c} : call'[d] = call[d]
    BY DEF GovInv, ActorsOK
<1>2. ActorsOK'
    BY DEF GovInv, ActorsOK
<1>3. \A d \in Calls : d # c /\ At(d, "publishing") =>
          call[d].view.proposal \in Proposals /\ d \in Publishers(call[d].view.proposal)
    BY DEF GovInv, CallOK, ViewOK, At, Publishers, CallsFor
<1>4. \A d \in Calls : CallOK(d)'
    BY <1>1, <1>3, CallKept
<1>5. ASSUME NEW s \in Sessions, session[s].step = "publishing"
      PROVE  Left(session[s].shown.proposal)
    <2>1. PageOK(s) /\ s # c
        BY ConstantsAssumption DEF GovInv
    <2>2. session[s].shown.proposal \in Proposals
        BY <1>5, <2>1 DEF PageOK, ViewOK
    <2>3. s \in Publishers(session[s].shown.proposal) \ {c}
        BY <1>5, <2>1 DEF Publishers, PagesFor
    <2> QED
        BY <2>2, <2>3
<1>6. \A s \in Sessions : PageOK(s)'
    BY <1>5, PageKept
<1>7. \A q \in Proposals : Publishers(q)' \subseteq
          Publishers(q) \cup (IF r.step = "publishing" /\ r.view.proposal = q THEN {c} ELSE {})
    BY <1>1 DEF Publishers, CallsFor, PagesFor, At
<1>8. \A q \in Proposals : \A x, y \in Publishers(q)' : x = y
    BY <1>7 DEF GovInv
<1> QED
    BY <1>2, <1>4, <1>6, <1>8 DEF GovInv

LEMMA PageStepKeeps ==
    ASSUME GovInv, VaultOK', Forward, NEW s \in Sessions, NEW r \in SessionType,
           session' = [session EXCEPT ![s] = r], delegated' \in BOOLEAN,
           UNCHANGED <<changed, call>>,
           PageOK(s)',
           \A q \in Proposals : Publishers(q) \ {s} # {} =>
               Left(q) /\ (r.step = "publishing" => r.shown.proposal # q)
    PROVE  GovInv'
<1>1. session'[s] = r /\ \A t \in Sessions \ {s} : session'[t] = session[t]
    BY DEF GovInv, ActorsOK
<1>2. ActorsOK'
    BY DEF GovInv, ActorsOK
<1>3. \A c \in Calls : At(c, "publishing") =>
          /\ call[c].view.proposal \in Proposals
          /\ c \in Publishers(call[c].view.proposal) \ {s}
    BY ConstantsAssumption DEF GovInv, CallOK, ViewOK, At, Publishers, CallsFor
<1>4. \A c \in Calls : CallOK(c)'
    BY <1>3, CallKept
<1>5. \A t \in Sessions : t # s /\ session[t].step = "publishing" =>
          /\ session[t].shown.proposal \in Proposals
          /\ t \in Publishers(session[t].shown.proposal)
    BY DEF GovInv, PageOK, ViewOK, Publishers, PagesFor
<1>6. \A t \in Sessions : PageOK(t)'
    BY <1>1, <1>5, PageKept
<1>7. \A q \in Proposals : Publishers(q)' \subseteq
          Publishers(q) \cup (IF r.step = "publishing" /\ r.shown.proposal = q THEN {s} ELSE {})
    BY <1>1 DEF Publishers, CallsFor, PagesFor, At
<1>8. \A q \in Proposals : \A x, y \in Publishers(q)' : x = y
    BY <1>7 DEF GovInv
<1> QED
    BY <1>2, <1>4, <1>6, <1>8 DEF GovInv

(* A publication has its number.                                           *)
LEMMA PublishersReserved ==
    ASSUME GovInv, NEW q \in Proposals, Publishers(q) # {}
    PROVE  reserved[q] # NoNumber
BY DEF GovInv, Publishers, CallsFor, PagesFor, CallOK, PageOK, Publishing, At

-----------------------------------------------------------------------------
LEMMA ViewType ==
    ASSUME VaultOK, NEW q \in Proposals
    PROVE  View(q) \in Views /\ ViewOK(View(q))
<1>1. NextNumber \in 0..(MaxNumber + 1) /\ NoNumber \in 0..(MaxNumber + 1)
    BY NextNumberIsNew, ConstantsAssumption DEF VaultOK, NoNumber
<1> QED
    BY <1>1 DEF View, Views, ViewOK, VaultOK, Rows

LEMMA VoidTypes == NoCall \in CallType /\ NoSession \in SessionType /\ NoView \in Views
<1>1. NoView \in Views
    BY ConstantsAssumption DEF NoView, Views, Statuses, NoNumber
<1> QED
    BY <1>1 DEF NoCall, NoSession, CallType, SessionType, Steps

(* The sources and the proposals that others bring                         *)
LEMMA LaneStep ==
    ASSUME GovInv, NEW q \in Proposals, Propose(q) \/ SourceChanges(q)
    PROVE  GovInv'
<1>1. /\ reserved' = reserved /\ reviews' = reviews /\ delegated' = delegated
      /\ call' = call /\ session' = session
      /\ changed \subseteq changed' /\ changed' \subseteq Proposals
      /\ \/ status' = status
         \/ status[q] = None /\ status' = [status EXCEPT ![q] = "submitted"]
    BY DEF GovInv, ActorsOK, Propose, SourceChanges, vaultVars
<1>2. VaultOK' /\ Forward /\ \A r \in Proposals : Left(r)
  <2>1. CASE status' = status
    BY <1>1, <2>1 DEF GovInv, VaultOK, NoSecondIdentity, Forward, Left
  <2>2. CASE status[q] = None /\ status' = [status EXCEPT ![q] = "submitted"]
    <3>1. VaultOK'
        BY <1>1, <2>2 DEF GovInv, VaultOK, NoSecondIdentity, Statuses, Actionable, Open
    <3>2. Rank(status[q]) < Rank("submitted")
        BY <2>2 DEF Rank, Decisions, None
    <3> QED
        BY <1>1, <2>2, <3>1, <3>2 DEF GovInv, VaultOK, Forward, Left, None
  <2> QED
    BY <1>1, <2>1, <2>2
<1>3. \A c \in Calls : CallOK(c)'
    BY <1>1, <1>2, CallKept DEF GovInv, CallOK, ViewOK, At
<1>4. \A s \in Sessions : PageOK(s)'
    BY <1>1, <1>2, PageKept DEF GovInv, PageOK, ViewOK
<1> QED
    BY <1>1, <1>2, <1>3, <1>4 DEF GovInv, ActorsOK, Publishers, CallsFor, PagesFor, At

LEMMA CallStepOK ==
    ASSUME GovInv, NEW c \in Calls, CallStep(c)
    PROVE  GovInv'
<1>1. /\ VaultOK /\ ActorsOK /\ CallOK(c) /\ call[c] \in CallType
      /\ NoCall \in CallType
      /\ ~At(c, "idle") => call[c].view.proposal \in Proposals
    BY VoidTypes DEF GovInv, ActorsOK, CallOK, ViewOK
<1>2. CASE NoConsent(c) \/ Refuse(c)
    <2>1. /\ call' = [call EXCEPT ![c] = NoCall] /\ UNCHANGED <<delegated, changed, session>>
          /\ UNCHANGED vaultVars
        BY <1>2 DEF NoConsent, Refuse, Step
    <2>2. CallOK(c)' /\ NoCall.step # "publishing"
        BY <1>1, <2>1 DEF ActorsOK, CallOK, At, NoCall
    <2> QED
        BY <1>1, <2>1, <2>2, NothingWritten, CallStepKeeps
<1>3. CASE Answer(c)
    <2> DEFINE r == [call[c] EXCEPT !.step = "answered",
                                    !.held = call[c].view.proposal \notin changed]
    <2>1. /\ call' = [call EXCEPT ![c] = r] /\ UNCHANGED <<delegated, changed, session>>
          /\ UNCHANGED vaultVars /\ At(c, "asking")
        BY <1>3 DEF Answer, Step
    <2>2. /\ r \in CallType /\ r.step = "answered" /\ r.view = call[c].view /\ r.op = call[c].op
          /\ r.held <=> call[c].view.proposal \notin changed
        BY <1>1 DEF CallType, Steps
    <2> HIDE DEF r
    <2>3. VaultOK' /\ Forward /\ \A q \in Proposals : Left(q)
        BY <1>1, <2>1, NothingWritten
    <2> PICK v \in Views : v = call[c].view
        BY <1>1 DEF CallType
    <2>4. ViewOK(v)'
        BY <1>1, <2>1, <2>3, ViewKept DEF CallOK, At
    <2>5. call'[c] = r
        BY <1>1, <2>1 DEF ActorsOK
    <2>6. call[c].op # "approve_and_publish"
        BY <1>1, <2>1 DEF CallOK, At, ByAgent
    <2>7. CallOK(c)'
        BY <1>1, <2>1, <2>2, <2>4, <2>5, <2>6 DEF CallOK, At, ByAgent, ViewOK
    <2> QED
        BY <2>1, <2>2, <2>3, <2>7, CallStepKeeps
<1>4. CASE \E op \in Operations, q \in Proposals : Begin(c, op, q)
    <2>1. PICK op \in Operations, q \in Proposals : Begin(c, op, q)
        BY <1>4
    <2> DEFINE r == [step |-> IF op = "approve_and_publish" THEN "answered" ELSE "asking",
                     op |-> op, held |-> op = "approve_and_publish", view |-> View(q)]
    <2>2. /\ call' = [call EXCEPT ![c] = r] /\ UNCHANGED <<delegated, changed, session>>
          /\ UNCHANGED vaultVars
          /\ op = "review" => status[q] = "submitted"
        BY <2>1 DEF Begin, Step
    <2>3. View(q) \in Views /\ ViewOK(View(q)) /\ View(q).status = status[q]
        BY <1>1, ViewType DEF View
    <2>4. r \in CallType /\ r.step # "publishing"
        BY <2>3 DEF CallType, Steps
    <2> PICK v \in Views : v = View(q)
        BY <2>3
    <2>5. VaultOK' /\ Forward /\ \A p \in Proposals : Left(p)
        BY <1>1, <2>2, NothingWritten
    <2>6. ViewOK(v)'
        BY <2>3, <2>5, ViewKept
    <2>7. /\ call'[c].view = v /\ call'[c].op = op /\ call'[c].step \in {"asking", "answered"}
          /\ call'[c].held <=> op = "approve_and_publish"
          /\ call'[c].step = "answered" <=> op = "approve_and_publish"
        BY <1>1, <2>2 DEF ActorsOK
    <2>8. CallOK(c)'
        BY <2>2, <2>3, <2>6, <2>7 DEF CallOK, At, ByAgent, ViewOK
    <2> QED
        BY <2>2, <2>4, <2>5, <2>8, CallStepKeeps
<1>5. CASE Decide(c)
    <2>1. PICK d \in Decisions : ReviewExact(call[c].view, "elicitation", d)
        BY <1>5 DEF Decide
    <2>2. /\ call' = [call EXCEPT ![c] = NoCall] /\ UNCHANGED <<delegated, changed, session>>
          /\ At(c, "answered") /\ call[c].op = "review"
        BY <1>5 DEF Decide, Step, Cleared
    <2>3. ViewOK(call[c].view) /\ call[c].view.status = "submitted" /\ "elicitation" \in Surfaces
        BY <1>1, <2>2 DEF CallOK, At, Surfaces
    <2> PICK v \in Views : v = call[c].view
        BY <1>1 DEF CallType
    <2>4. VaultOK' /\ Forward /\ \A q \in Proposals : Left(q)
        BY <1>1, <2>1, <2>3, ReviewTransaction
    <2>5. CallOK(c)' /\ NoCall.step # "publishing"
        BY <1>1, <2>2 DEF ActorsOK, CallOK, At, NoCall
    <2> QED
        BY <1>1, <2>2, <2>4, <2>5, CallStepKeeps
<1>6. CASE StartPublication(c)
    <2> DEFINE r == [call[c] EXCEPT !.step = "publishing"]
    <2>1. /\ call' = [call EXCEPT ![c] = r] /\ UNCHANGED <<delegated, changed, session>>
          /\ Cleared(c) /\ call[c].op # "review" /\ Reserve(call[c].view, ByAgent(c))
        BY <1>6 DEF StartPublication, Step
    <2>2. /\ r \in CallType /\ r.step = "publishing" /\ r.view = call[c].view
          /\ r.op = call[c].op /\ r.held = call[c].held
        BY <1>1 DEF CallType, Steps
    <2> HIDE DEF r
    <2>3. call[c].held
        BY <1>1, <2>1 DEF CallOK, Cleared, Revalidates, At
    <2> PICK v \in Views, a \in BOOLEAN : v = call[c].view /\ a = ByAgent(c)
        BY <1>1 DEF CallType, ByAgent
    <2>4. ViewOK(v) /\ Reserve(v, a)
        BY <1>1, <2>1 DEF CallOK, Cleared, At
    <2>5. /\ VaultOK' /\ Forward /\ reserved[v.proposal] = NoNumber /\ Publishing(v, a)'
          /\ \A q \in Proposals : reserved[q] # NoNumber => Left(q)
        BY <1>1, <2>4, ReserveTransaction
    <2>6. ViewOK(v)'
        BY <2>4, <2>5, ViewKept
    <2>7. call'[c] = r
        BY <1>1, <2>1 DEF ActorsOK
    <2>8. CallOK(c)'
        BY <2>1, <2>2, <2>3, <2>5, <2>6, <2>7 DEF CallOK, At, ByAgent, ViewOK, Publishing
    <2>9. \A q \in Proposals : Publishers(q) # {} => reserved[q] # NoNumber
        BY PublishersReserved
    <2> QED
        BY <2>1, <2>2, <2>5, <2>8, <2>9, CallStepKeeps
<1>7. CASE FinishPublication(c)
    <2>1. /\ call' = [call EXCEPT ![c] = NoCall] /\ UNCHANGED <<delegated, changed, session>>
          /\ At(c, "publishing")
          /\ CommitEdition(call[c].view, ByAgent(c)) \/ PublicationFails(call[c].view)
        BY <1>7 DEF FinishPublication, Step
    <2> PICK v \in Views, a \in BOOLEAN : v = call[c].view /\ a = ByAgent(c)
        BY <1>1 DEF CallType, ByAgent
    <2>2. ViewOK(v) /\ Publishing(v, a)
        BY <1>1, <2>1 DEF CallOK, At
    <2>3. VaultOK' /\ Forward /\ \A q \in Proposals \ {v.proposal} : Left(q)
        BY <1>1, <2>1, <2>2, FinishTransaction
    <2>4. CallOK(c)' /\ NoCall.step # "publishing"
        BY <1>1, <2>1 DEF ActorsOK, CallOK, At, NoCall
    <2>5. v.proposal \in Proposals /\ c \in Publishers(v.proposal)
        BY <2>1, <2>2 DEF ViewOK, Publishers, CallsFor
    <2>6. Publishers(v.proposal) \ {c} = {}
        BY <2>5 DEF GovInv
    <2> QED
        BY <1>1, <2>1, <2>3, <2>4, <2>6, CallStepKeeps
<1> QED
    BY <1>2, <1>3, <1>4, <1>5, <1>6, <1>7 DEF CallStep

LEMMA PageStepOK ==
    ASSUME GovInv, NEW s \in Sessions, PageStep(s)
    PROVE  GovInv'
<1>1. /\ VaultOK /\ ActorsOK /\ PageOK(s) /\ session[s] \in SessionType
      /\ NoSession \in SessionType /\ NoView \in Views /\ NoView.proposal = None
    BY VoidTypes DEF GovInv, ActorsOK, NoView
<1> PICK v \in Views : v = session[s].shown
    BY <1>1 DEF SessionType
<1>2. \A q \in Proposals : Publishers(q) # {} => reserved[q] # NoNumber
    BY PublishersReserved
(* Steps that write nothing in the vault and leave no publication          *)
<1>3. CASE Expire(s)
    <2> DEFINE r == [session[s] EXCEPT !.open = FALSE]
    <2>1. /\ session' = [session EXCEPT ![s] = r] /\ UNCHANGED <<delegated, changed, call>>
          /\ UNCHANGED vaultVars
        BY <1>3 DEF Expire
    <2>2. r \in SessionType /\ r.step = session[s].step /\ r.shown = session[s].shown
        BY <1>1 DEF SessionType
    <2> HIDE DEF r
    <2>3. VaultOK' /\ Forward /\ \A q \in Proposals : Left(q)
        BY <1>1, <2>1, NothingWritten
    <2>4. session'[s] = r
        BY <1>1, <2>1 DEF ActorsOK
    <2>5. PageOK(s)'
        BY <1>1, <2>2, <2>3, <2>4, PageKept DEF PageOK, ViewOK
    <2>6. \A q \in Proposals :
              Publishers(q) \ {s} # {} => ~(r.step = "publishing" /\ r.shown.proposal = q)
        BY <2>2 DEF GovInv, Publishers, PagesFor
    <2> QED
        BY <1>1, <2>1, <2>2, <2>3, <2>5, <2>6, PageStepKeeps DEF ActorsOK
<1>4. CASE \/ OpenSession(s, "settings", {})
           \/ \E allowed \in Readable : OpenSession(s, "pending", allowed)
    <2>1. PICK view \in {"settings", "pending"}, allowed \in SUBSET Proposals :
              OpenSession(s, view, allowed)
        BY <1>4 DEF Readable
    <2> DEFINE r == [NoSession EXCEPT !.open = TRUE, !.view = view, !.allowed = allowed]
    <2>2. /\ session' = [session EXCEPT ![s] = r] /\ UNCHANGED <<delegated, changed, call>>
          /\ UNCHANGED vaultVars
        BY <2>1 DEF OpenSession
    <2>3. r \in SessionType /\ r.step = "idle" /\ r.shown = NoView
        BY <1>1 DEF SessionType, NoSession
    <2> HIDE DEF r
    <2>4. VaultOK' /\ Forward /\ \A q \in Proposals : Left(q)
        BY <1>1, <2>2, NothingWritten
    <2>5. PageOK(s)'
        BY <1>1, <2>2, <2>3 DEF ActorsOK, PageOK
    <2> QED
        BY <1>1, <2>2, <2>3, <2>4, <2>5, PageStepKeeps DEF ActorsOK
<1>5. CASE \E q \in Proposals : Show(s, q)
    <2>1. PICK q \in Proposals : Show(s, q)
        BY <1>5
    <2> PICK w \in Views : w = View(q)
        BY <1>1, ViewType
    <2> DEFINE r == [session[s] EXCEPT !.shown = w]
    <2>2. /\ session' = [session EXCEPT ![s] = r] /\ UNCHANGED <<delegated, changed, call>>
          /\ UNCHANGED vaultVars /\ session[s].step = "idle"
        BY <2>1 DEF Show
    <2>3. r \in SessionType /\ r.step = "idle" /\ r.shown = w
        BY <1>1, <2>2 DEF SessionType
    <2> HIDE DEF r
    <2>4. VaultOK' /\ Forward /\ \A p \in Proposals : Left(p)
        BY <1>1, <2>2, NothingWritten
    <2>5. ViewOK(w)'
        BY <1>1, <2>4, ViewType, ViewKept
    <2>6. session'[s] = r
        BY <1>1, <2>2 DEF ActorsOK
    <2>7. PageOK(s)'
        BY <2>3, <2>5, <2>6 DEF PageOK, ViewOK
    <2> QED
        BY <1>1, <2>2, <2>3, <2>4, <2>7, PageStepKeeps DEF ActorsOK
<1>6. CASE \E mode \in BOOLEAN : UpdateDelegation(s, mode)
    <2>1. /\ UNCHANGED vaultVars /\ UNCHANGED <<changed, call, session>> /\ delegated' \in BOOLEAN
        BY <1>6 DEF UpdateDelegation
    <2>2. VaultOK' /\ Forward /\ \A q \in Proposals : Left(q)
        BY <1>1, <2>1, NothingWritten
    <2>3. \A c \in Calls : CallOK(c)'
        BY <2>1, <2>2, CallKept DEF GovInv, CallOK, ViewOK, At
    <2>4. \A t \in Sessions : PageOK(t)'
        BY <2>1, <2>2, PageKept DEF GovInv, PageOK, ViewOK
    <2> QED
        BY <2>1, <2>2, <2>3, <2>4 DEF GovInv, ActorsOK, Publishers, CallsFor, PagesFor, At
(* Steps that close the detail                                             *)
<1> DEFINE closed == [session[s] EXCEPT !.shown = NoView, !.step = "idle"]
<1>7. closed \in SessionType /\ closed.step = "idle" /\ closed.shown = NoView
    BY <1>1 DEF SessionType
<1>8. Close(s) => session' = [session EXCEPT ![s] = closed] /\ PageOK(s)'
    BY <1>1, <1>7 DEF Close, PageOK, ActorsOK, SessionType
<1> HIDE DEF closed
<1>9. CASE PageConflict(s)
    <2>1. Close(s) /\ UNCHANGED <<delegated, changed, call>> /\ UNCHANGED vaultVars
        BY <1>9 DEF PageConflict
    <2>2. VaultOK' /\ Forward /\ \A q \in Proposals : Left(q)
        BY <1>1, <2>1, NothingWritten
    <2> QED
        BY <1>1, <1>7, <1>8, <2>1, <2>2, PageStepKeeps DEF ActorsOK
<1>10. CASE PageReview(s)
    <2>1. PICK d \in AllowedDecisions(s) : ReviewExact(v, "page", d)
        BY <1>10 DEF PageReview
    <2>2. Close(s) /\ UNCHANGED <<delegated, changed, call>>
        BY <1>10 DEF PageReview
    <2>3. /\ d \in Decisions /\ v.status \in Open
          /\ v.status = "submitted" \/ d = "declined"
        BY <2>1 DEF AllowedDecisions, Decisions, Open
    <2>4. ViewOK(v) /\ "page" \in Surfaces
        BY <1>1, <2>3 DEF PageOK, NoView, Open, None, Surfaces
    <2>5. VaultOK' /\ Forward /\ \A q \in Proposals : Left(q)
        BY <1>1, <2>1, <2>3, <2>4, ReviewTransaction
    <2> QED
        BY <1>1, <1>7, <1>8, <2>2, <2>5, PageStepKeeps DEF ActorsOK
<1>11. CASE PagePublish(s)
    <2> DEFINE r == [session[s] EXCEPT !.step = "publishing"]
    <2>1. /\ session' = [session EXCEPT ![s] = r] /\ UNCHANGED <<delegated, changed, call>>
          /\ v.status = "approved" /\ Reserve(v, FALSE)
        BY <1>11 DEF PagePublish
    <2>2. r \in SessionType /\ r.step = "publishing" /\ r.shown = v
        BY <1>1 DEF SessionType
    <2> HIDE DEF r
    <2>3. ViewOK(v)
        BY <1>1, <2>1 DEF PageOK, NoView, None
    <2>4. /\ VaultOK' /\ Forward /\ reserved[v.proposal] = NoNumber /\ Publishing(v, FALSE)'
          /\ \A q \in Proposals : reserved[q] # NoNumber => Left(q)
        BY <1>1, <2>1, <2>3, ReserveTransaction
    <2>5. ViewOK(v)'
        BY <2>3, <2>4, ViewKept
    <2>6. session'[s] = r
        BY <1>1, <2>1 DEF ActorsOK
    <2>7. PageOK(s)'
        BY <2>2, <2>4, <2>5, <2>6 DEF PageOK, ViewOK, Publishing
    <2> QED
        BY <1>1, <1>2, <2>1, <2>2, <2>4, <2>7, PageStepKeeps DEF ActorsOK
<1>12. CASE PagePublished(s)
    <2>1. /\ Close(s) /\ UNCHANGED <<delegated, changed, call>>
          /\ session[s].step = "publishing"
          /\ CommitEdition(v, FALSE) \/ PublicationFails(v)
        BY <1>12 DEF PagePublished
    <2>2. ViewOK(v) /\ Publishing(v, FALSE)
        BY <1>1, <2>1 DEF PageOK
    <2>3. VaultOK' /\ Forward /\ \A q \in Proposals \ {v.proposal} : Left(q)
        BY <1>1, <2>1, <2>2, FinishTransaction
    <2>4. v.proposal \in Proposals /\ s \in Publishers(v.proposal)
        BY <2>1, <2>2 DEF ViewOK, Publishers, PagesFor
    <2>5. Publishers(v.proposal) \ {s} = {}
        BY <2>4 DEF GovInv
    <2> QED
        BY <1>1, <1>7, <1>8, <2>1, <2>3, <2>5, PageStepKeeps DEF ActorsOK
<1> QED
    BY <1>3, <1>4, <1>5, <1>6, <1>9, <1>10, <1>11, <1>12 DEF PageStep

LEMMA GovNext == GovInv /\ [Next]_vars => GovInv'
<1> SUFFICES ASSUME GovInv, [Next]_vars PROVE GovInv'
    OBVIOUS
<1>1. CASE UNCHANGED vars
    <2>1. UNCHANGED <<status, reviews, reserved, delegated, changed, call, session>>
        BY <1>1 DEF vars, vaultVars
    <2> QED
        BY <2>1 DEF GovInv, VaultOK, ActorsOK, NoSecondIdentity, CallOK, PageOK, ViewOK, Publishing,
                    ByAgent, At, Publishers, CallsFor, PagesFor
<1>2. CASE Next
    BY <1>2, LaneStep, CallStepOK, PageStepOK DEF Next
<1> QED
    BY <1>1, <1>2

-----------------------------------------------------------------------------
(* Who writes in the vault                                                 *)
LEMMA CallWrites ==
    ASSUME GovInv, Next, Writes, NEW c \in Calls, Acts(c)
    PROVE  Decide(c) \/ StartPublication(c) \/ FinishPublication(c)
<1>1. PICK d \in Calls : CallStep(d)
    BY DEF Next, Acts, Propose, SourceChanges, PageStep, Expire, PageReview, PagePublish,
           PagePublished, PageConflict, OpenSession, Show, UpdateDelegation
<1>2. d = c
    BY <1>1 DEF CallStep, Step, Acts, Answer, NoConsent, Decide, Refuse, StartPublication,
                FinishPublication, Begin, GovInv, ActorsOK
<1> QED
    BY <1>1, <1>2 DEF CallStep, Writes, Answer, NoConsent, Refuse, Begin

LEMMA PageWrites ==
    ASSUME GovInv, Next, Writes, NEW s \in Sessions, PageActs(s)
    PROVE  PageReview(s) \/ PagePublish(s) \/ PagePublished(s)
<1>1. PICK t \in Sessions : PageStep(t)
    BY DEF Next, PageActs, Propose, SourceChanges, CallStep, Answer, NoConsent, Decide, Refuse,
           StartPublication, FinishPublication, Begin
<1>2. PageReview(t) \/ PagePublish(t) \/ PagePublished(t)
    BY <1>1 DEF PageStep, Writes, Expire, PageConflict, OpenSession, Show, UpdateDelegation
<1>3. t = s
    BY <1>2 DEF PageActs, PageReview, PagePublish, PagePublished, Close, GovInv, ActorsOK
<1> QED
    BY <1>2, <1>3

(* The status of a proposal that is written moves on from what was shown.  *)
LEMMA WrittenAsShown ==
    ASSUME GovInv, Next, Writes
    PROVE  /\ \A c \in Calls : Acts(c) /\ ~ByAgent(c) =>
                  call[c].view.rows = reviews[call[c].view.proposal]
           /\ \A s \in Sessions : PageActs(s) =>
                  session[s].shown.rows = reviews[session[s].shown.proposal]
<1>1. ASSUME NEW c \in Calls, Acts(c), ~ByAgent(c)
      PROVE  call[c].view.rows = reviews[call[c].view.proposal]
    <2>1. CallOK(c) /\ VaultOK /\ call[c] \in CallType
        BY DEF GovInv, ActorsOK
    <2> PICK v \in Views : v = call[c].view
        BY <2>1 DEF CallType
    <2>2. CASE Decide(c)
        <3>1. PICK d \in Decisions : ReviewExact(v, "elicitation", d)
            BY <2>2 DEF Decide
        <3>2. ViewOK(v) /\ v.status = "submitted" /\ "elicitation" \in Surfaces
            BY <2>1, <2>2 DEF Decide, Cleared, CallOK, At, Surfaces
        <3> QED
            BY <2>1, <3>1, <3>2, ReviewTransaction
    <2>3. CASE StartPublication(c)
        <3>1. ViewOK(v) /\ Reserve(v, FALSE)
            BY <1>1, <2>1, <2>3 DEF StartPublication, Cleared, CallOK, At, Reserve, CanPublish
        <3> QED
            BY <2>1, <3>1, ReserveTransaction
    <2>4. CASE FinishPublication(c)
        <3>1. ViewOK(v) /\ v.status = "approved" /\ status[v.proposal] = "approved"
            BY <1>1, <2>1, <2>4 DEF FinishPublication, CallOK, At, Publishing
        <3> QED
            BY <3>1, RankType DEF ViewOK
    <2> QED
        BY <1>1, <2>2, <2>3, <2>4, CallWrites
<1>2. ASSUME NEW s \in Sessions, PageActs(s)
      PROVE  session[s].shown.rows = reviews[session[s].shown.proposal]
    <2>1. PageOK(s) /\ VaultOK /\ session[s] \in SessionType
        BY DEF GovInv, ActorsOK
    <2> PICK v \in Views : v = session[s].shown
        BY <2>1 DEF SessionType
    <2>2. CASE PageReview(s)
        <3>1. PICK d \in AllowedDecisions(s) : ReviewExact(v, "page", d)
            BY <2>2 DEF PageReview
        <3>2. /\ d \in Decisions /\ v.status \in Open
              /\ v.status = "submitted" \/ d = "declined"
            BY <3>1 DEF AllowedDecisions, Decisions, Open
        <3>3. ViewOK(v) /\ "page" \in Surfaces
            BY <2>1, <3>2 DEF PageOK, NoView, Open, None, Surfaces
        <3> QED
            BY <2>1, <3>1, <3>2, <3>3, ReviewTransaction
    <2>3. CASE PagePublish(s)
        <3>1. v.status = "approved" /\ Reserve(v, FALSE)
            BY <2>3 DEF PagePublish
        <3>2. ViewOK(v)
            BY <2>1, <3>1 DEF PageOK, NoView, None
        <3> QED
            BY <2>1, <3>1, <3>2, ReserveTransaction
    <2>4. CASE PagePublished(s)
        <3>1. ViewOK(v) /\ v.status = "approved" /\ status[v.proposal] = "approved"
            BY <2>1, <2>4 DEF PagePublished, PageOK, Publishing
        <3> QED
            BY <3>1, RankType DEF ViewOK
    <2> QED
        BY <1>2, <2>2, <2>3, <2>4, PageWrites
<1> QED
    BY <1>1, <1>2

-----------------------------------------------------------------------------
(* What is shown is what there is, or the proposal has moved on and will   *)
(* not come back; publications have their numbers to themselves.           *)
THEOREM GovernanceInvariant == Spec => []GovInv
<1> QED
    BY GovInit, GovNext, PTL DEF Spec

(* Every variable holds what the code can put there, for any number of     *)
(* proposals, calls and pages.                                             *)
THEOREM TypeCorrect == Spec => []TypeOK
<1>1. GovInv => TypeOK
    BY DEF GovInv, VaultOK, ActorsOK, TypeOK, Rows, CallType, SessionType
<1> QED
    BY <1>1, GovernanceInvariant, PTL

(* A publication is of the number that the human confirmed, alone for its  *)
(* proposal and alone with the number (publish_exact).                     *)
THEOREM PublishesAsConfirmedHolds == Spec => []PublishesAsConfirmed
<1>1. GovInv => PublishesAsConfirmed
    <2> SUFFICES ASSUME GovInv PROVE PublishesAsConfirmed
        OBVIOUS
    <2> DEFINE calls == {c \in Calls : At(c, "publishing")}
               pages == {s \in Sessions : session[s].step = "publishing"}
               Shown(p) == IF p \in calls THEN call[p].view ELSE session[p].shown
    <2>1. \A p \in calls \cup pages :
              /\ Shown(p).proposal \in Proposals
              /\ p \in Publishers(Shown(p).proposal)
        BY ConstantsAssumption DEF GovInv, CallOK, PageOK, ViewOK, Publishers, CallsFor, PagesFor, At
    <2>2. \A p, r \in calls \cup pages : Shown(p).proposal = Shown(r).proposal => p = r
        BY <2>1 DEF GovInv
    <2>3. \A p \in calls : ~ByAgent(p) => reserved[call[p].view.proposal] = call[p].view.number
        BY DEF GovInv, CallOK, Publishing, At
    <2>4. \A p \in pages : p \notin calls /\ reserved[session[p].shown.proposal] = session[p].shown.number
        BY ConstantsAssumption DEF GovInv, PageOK, Publishing
    <2>5. \A p \in calls \cup pages : p \in pages \/ ~ByAgent(p) =>
              reserved[Shown(p).proposal] = Shown(p).number
        BY <2>3, <2>4, ConstantsAssumption
    <2> QED
        BY <2>2, <2>5 DEF PublishesAsConfirmed, GovInv, VaultOK
<1> QED
    BY <1>1, GovernanceInvariant, PTL

(* The two surfaces never add up to the second human that an elevated      *)
(* proposal needs (review_guarded).                                        *)
THEOREM NoSecondIdentityHolds == Spec => []NoSecondIdentity
<1>1. GovInv => NoSecondIdentity
    BY DEF GovInv, VaultOK
<1> QED
    BY <1>1, GovernanceInvariant, PTL

(* What a human answers is recorded on what the human was shown            *)
(* (review_exact, publish_exact).                                          *)
THEOREM RecordedAsShownHolds == Spec => RecordedAsShown
<1>1. GovInv /\ [Next]_vars =>
          [Writes => /\ \A c \in Calls : Acts(c) /\ ~ByAgent(c) =>
                            call[c].view.rows = reviews[call[c].view.proposal]
                     /\ \A s \in Sessions : PageActs(s) =>
                            session[s].shown.rows = reviews[session[s].shown.proposal]]_vars
    BY WrittenAsShown
<1> QED
    BY <1>1, GovernanceInvariant, PTL DEF Spec, RecordedAsShown

(* No tool call writes whose sources had changed when it was answered      *)
(* (revalidate_governance_sources).                                        *)
THEOREM SourcesHeldAtAnswerHolds == Spec => SourcesHeldAtAnswer
<1>1. GovInv /\ [Next]_vars => [Writes => \A c \in Calls : Acts(c) => call[c].held]_vars
    <2> SUFFICES ASSUME GovInv, Next, Writes, NEW c \in Calls, Acts(c) PROVE call[c].held
        OBVIOUS
    <2>1. CallOK(c)
        BY DEF GovInv
    <2>2. At(c, "publishing") \/ Cleared(c)
        BY CallWrites DEF Decide, StartPublication, FinishPublication
    <2> QED
        BY <2>1, <2>2 DEF CallOK, Cleared, Revalidates, At
<1> QED
    BY <1>1, GovernanceInvariant, PTL DEF Spec, SourcesHeldAtAnswer

(* What a human has declined on one surface is not approved on the other,  *)
(* and a publication of it that is under way does not commit               *)
(* (GovernanceSnapshot, review_guarded, the second transaction of          *)
(* publish_guarded).                                                       *)
THEOREM DeclinedIsFinalHolds == Spec => DeclinedIsFinal
<1>1. GovInv /\ [Next]_vars =>
          [\A q \in Proposals : status[q] = "declined" => status'[q] = "declined"]_vars
    <2> SUFFICES ASSUME GovInv, Next, NEW q \in Proposals, status[q] = "declined",
                        status'[q] # "declined"
                 PROVE  FALSE
        OBVIOUS
    <2>1. CASE \E r \in Proposals : Propose(r) \/ SourceChanges(r)
        BY <2>1 DEF Propose, SourceChanges, vaultVars, None, GovInv, VaultOK
    <2>2. ASSUME NEW view, NEW actor, NEW d, ReviewExact(view, actor, d) PROVE FALSE
        BY <2>2 DEF ReviewExact, CanReview, Open, GovInv, VaultOK
    <2>3. ASSUME NEW view, NEW a, Reserve(view, a) PROVE FALSE
        BY <2>3 DEF Reserve
    <2>4. ASSUME NEW view, NEW a, Publishing(view, a), CommitEdition(view, a) \/ PublicationFails(view)
          PROVE  FALSE
        BY <2>4 DEF CommitEdition, StillAllowed, Unchanged, PublicationFails, Publishing, GovInv, VaultOK
    <2>5. CASE \E c \in Calls : CallStep(c)
        <3> PICK c \in Calls : CallStep(c)
            BY <2>5
        <3>1. At(c, "publishing") => Publishing(call[c].view, ByAgent(c))
            BY DEF GovInv, CallOK, At
        <3>2. ~FinishPublication(c)
            BY <2>4, <3>1 DEF FinishPublication
        <3> QED
            BY <2>2, <2>3, <3>2 DEF CallStep, Answer, NoConsent, Decide, Refuse, StartPublication,
                                    Begin, vaultVars
    <2>6. CASE \E s \in Sessions : PageStep(s)
        <3> PICK s \in Sessions : PageStep(s)
            BY <2>6
        <3>1. ~PagePublished(s)
            BY <2>4 DEF PagePublished, GovInv, PageOK
        <3> QED
            BY <2>2, <2>3, <3>1 DEF PageStep, Expire, PageReview, PagePublish, PageConflict,
                                    OpenSession, Show, UpdateDelegation, vaultVars
    <2> QED
        BY <2>1, <2>5, <2>6 DEF Next
<1> QED
    BY <1>1, GovernanceInvariant, PTL DEF Spec, DeclinedIsFinal

-----------------------------------------------------------------------------
(* Refinement: the governed vault is the ledger of EditionLedger           *)

(* A proposal that is materialized remains so, under the same number.      *)
LEMMA MaterializedStays ==
    ASSUME GovInv, [Next]_vars, NEW q \in Proposals, status[q] = "materialized"
    PROVE  status'[q] = "materialized" /\ reserved'[q] = reserved[q]
<1>1. q \in Proposals /\ reserved[q] # NoNumber /\ VaultOK
    BY DEF GovInv, VaultOK
<1> DEFINE Kept == status'[q] = "materialized" /\ reserved'[q] = reserved[q]
<1>2. CASE UNCHANGED <<status, reserved>>
    BY <1>2
<1>3. ASSUME NEW view, NEW actor, NEW d, ReviewExact(view, actor, d) PROVE Kept
    BY <1>1, <1>3 DEF ReviewExact, CanReview, Open, VaultOK
<1>4. ASSUME NEW view, NEW a, Reserve(view, a) PROVE Kept
    BY <1>1, <1>4 DEF Reserve, CanPublish, VaultOK
<1>5. ASSUME NEW view, NEW a, Publishing(view, a), CommitEdition(view, a) \/ PublicationFails(view)
      PROVE  Kept
    BY <1>1, <1>5 DEF CommitEdition, PublicationFails, Publishing, VaultOK
<1>6. CASE \E r \in Proposals : Propose(r) \/ SourceChanges(r)
    BY <1>1, <1>6 DEF Propose, SourceChanges, vaultVars, None, VaultOK
<1>7. CASE \E c \in Calls : CallStep(c)
    <2> PICK c \in Calls : CallStep(c)
        BY <1>7
    <2>1. At(c, "publishing") => Publishing(call[c].view, ByAgent(c))
        BY DEF GovInv, CallOK, At
    <2>2. FinishPublication(c) => Kept
        BY <1>5, <2>1 DEF FinishPublication
    <2>3. Decide(c) => Kept
        BY <1>3 DEF Decide
    <2>4. StartPublication(c) => Kept
        BY <1>4 DEF StartPublication
    <2>5. \/ FinishPublication(c) \/ Decide(c) \/ StartPublication(c)
          \/ UNCHANGED <<status, reserved>>
        BY DEF CallStep, Answer, NoConsent, Refuse, Begin, vaultVars
    <2> QED
        BY <1>2, <2>2, <2>3, <2>4, <2>5
<1>8. CASE \E s \in Sessions : PageStep(s)
    <2> PICK s \in Sessions : PageStep(s)
        BY <1>8
    <2>1. PagePublished(s) => Kept
        BY <1>5 DEF PagePublished, GovInv, PageOK
    <2>2. PageReview(s) => Kept
        BY <1>3 DEF PageReview
    <2>3. PagePublish(s) => Kept
        BY <1>4 DEF PagePublish
    <2>4. \/ PagePublished(s) \/ PageReview(s) \/ PagePublish(s) \/ UNCHANGED <<status, reserved>>
        BY DEF PageStep, Expire, PageConflict, OpenSession, Show, UpdateDelegation, vaultVars
    <2> QED
        BY <1>2, <2>1, <2>2, <2>3, <2>4
<1>9. CASE UNCHANGED vars
    BY <1>9, <1>2 DEF vars, vaultVars
<1> QED
    BY <1>6, <1>7, <1>8, <1>9 DEF Next

(* Numbers are not shared (VaultOK), and NoNumber is none of them.         *)
LEMMA LedgerState ==
    ASSUME VaultOK
    PROVE  /\ Ledger!OneNumberPerKey(Published)
           /\ Ledger!OneEntryPerProposal(Published)
           /\ Newest = Ledger!NewestOf(Published)
<1>1. Ledger!OneNumberPerKey(Published)
    BY DEF VaultOK, Ledger!OneNumberPerKey, Published, Entry
<1>2. Ledger!OneEntryPerProposal(Published)
    BY DEF Ledger!OneEntryPerProposal, Published, Entry
<1>3. \A a \in Published : a.key = "one"
    BY DEF Published, Entry
<1>4. Newest = Ledger!NewestOf(Published)
    BY <1>3 DEF Ledger!NewestOf, Newest
<1> QED
    BY <1>1, <1>2, <1>4

(* Whatever the two surfaces and the Agent do, with any number of          *)
(* proposals, calls and pages, the vault is an append-only ledger, as it   *)
(* is when its publications are taken apart in KnowledgePublish            *)
(* (publish_exact, approve_and_publish_delegated_exact).                   *)
THEOREM GovernanceImplementsLedger == Spec => LedgerSpec
<1>1. Init => Ledger!Init
    BY DEF Init, Ledger!Init, Published, Newest, None
<1>2. GovInv /\ GovInv' /\ [Next]_vars => Ledger!Publish
    <2> SUFFICES ASSUME GovInv, GovInv', [Next]_vars PROVE Ledger!Publish
        OBVIOUS
    <2>1. Published \subseteq Published'
        BY MaterializedStays DEF Published, Entry
    <2>2. /\ Ledger!OneNumberPerKey(Published)'
          /\ Ledger!OneEntryPerProposal(Published)'
          /\ (Newest = Ledger!NewestOf(Published))'
        <3>1. VaultOK'
            BY DEF GovInv
        <3> QED
            BY <3>1, LedgerState, PTL
    <2> QED
        BY <2>1, <2>2 DEF Ledger!Publish, Ledger!OneNumberPerKey, Ledger!OneEntryPerProposal,
                          Ledger!NewestOf
<1> QED
    BY <1>1, <1>2, GovernanceInvariant, PTL DEF Spec, LedgerSpec, Ledger!Spec, Ledger!ledgerVars
=============================================================================
