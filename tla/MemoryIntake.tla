---------------------------- MODULE MemoryIntake ----------------------------
(***************************************************************************)
(* How much one Agent's vault takes in as private memory                   *)
(* (crates/art-agent-store: intake.rs, and the trigger claims in lib.rs).  *)
(* Hook claims and automatic submissions share one budget of admissions    *)
(* per session.  A claim reserves an admission, a later submission of the  *)
(* same turn may use it, an exact duplicate gives it back.                 *)
(*                                                                         *)
(* Every operation is one immediate transaction, so it is one step here.   *)
(* The switch and the lock that orders its changes with these transactions *)
(* are in module AutoMemoryGate.  What a memory says and what becomes of   *)
(* it is left out: no table here depends on it, except that a submission   *)
(* may be sensitive, repeat a memory, conflict with one or revise one that *)
(* has changed, which is for the step to choose.                           *)
(***************************************************************************)
EXTENDS Integers, Sequences, FiniteSets

CONSTANTS
    Sessions,     \* sessions known by the host: a bucket of the budget each
    Days,         \* the buckets of what comes from no known session
    Turns,        \* turns known by the host, of known sessions
    NoTurn,       \* no turn known
    Events,       \* Stop events of the host; also the receipts of their claims
    Origin,       \* [Events -> Attributions]: where an event comes from
    Keys,         \* idempotency keys; also the receipts of their submissions
    None,         \* no event or admission
    Cap,          \* admissions per bucket
    MaxVersion    \* bound: changes of the switch

Attributions ==
    [bucket : Sessions, turn : Turns \cup {NoTurn}] \cup [bucket : Days, turn : {NoTurn}]

ASSUME ConstantsAssumption ==
    /\ Sessions \cap Days = {}
    /\ NoTurn \notin Turns
    /\ Origin \in [Events -> Attributions]
    /\ Events \cap Keys = {} /\ None \notin Events \cup Keys
    /\ Cap \in Nat /\ MaxVersion \in Nat

VARIABLES
    audit,     \* the changes of the switch: on or off
    trigger,   \* auto_memory_trigger_receipts
    budget,    \* admission ids in memory_intake_budget
    recent,    \* those within the cooldown
    receipt    \* memory_intake_receipts

vars == <<audit, trigger, budget, recent, receipt>>

Enabled == audit # <<>> /\ audit[Len(audit)]
Version == Len(audit)
WasOn == \E i \in 1..Len(audit) : audit[i]

Outcomes == {"accepted", "turn_already_handled", "limited", "global_disabled"}
NoClaim == [outcome |-> "none", version |-> 0]
Claims == [outcome : Outcomes, version : Nat] \cup {NoClaim}

Dispositions == {"disabled", "rejected", "duplicate", "rate_limited",
                 "activated", "pending_review"}
Nowhere == [bucket |-> None, turn |-> NoTurn]
NoReceipt == [disposition |-> "none", automatic |-> FALSE, at |-> Nowhere,
              trigger |-> None, association |-> None]
Receipts == [disposition : Dispositions, automatic : BOOLEAN, at : Attributions \cup {Nowhere},
             trigger : Events \cup {None}, association : Events \cup Keys \cup {None}]

Init ==
    /\ audit = <<>>
    /\ trigger = [h \in Events |-> NoClaim]
    /\ budget = {} /\ recent = {}
    /\ receipt = [k \in Keys |-> NoReceipt]

-----------------------------------------------------------------------------
(* The budget *)

(* Where an admission was made: by a claim, or by a submission itself      *)
At(a) == IF a \in Events THEN Origin[a] ELSE receipt[a].at

Accepted(k) == receipt[k].disposition \in {"activated", "pending_review"}
Claimed(h) == trigger[h] # NoClaim
Used(h) == \E k \in Keys : receipt[k].trigger = h

LinkedAdmission_Unseen(at) == {}
LinkedAdmission(at) == {a \in budget : at.turn # NoTurn /\ At(a) = at}

Consumed(a) == \E k \in Keys : receipt[k].association = a /\ Accepted(k)

(* A claim of this turn, accepted by the switch as it is and not used yet  *)
UnusedHookAdmission(at) ==
    {h \in LinkedAdmission(at) \cap Events :
        trigger[h] = [outcome |-> "accepted", version |-> Version] /\ ~Consumed(h)}

InBucket(S, b) == {a \in S : At(a).bucket = b}
HasRoom_OneMore(b) == Cardinality(InBucket(budget, b)) <= Cap /\ InBucket(recent, b) = {}
HasRoom(b) == Cardinality(InBucket(budget, b)) < Cap /\ InBucket(recent, b) = {}

CoolDown(a) ==
    /\ a \in recent
    /\ recent' = recent \ {a}
    /\ UNCHANGED <<audit, trigger, budget, receipt>>

-----------------------------------------------------------------------------
(* The switch *)

SetEnabled(b) ==
    /\ Version < MaxVersion
    /\ audit' = Append(audit, b)
    /\ UNCHANGED <<trigger, budget, recent, receipt>>

-----------------------------------------------------------------------------
(* claim_auto_memory_trigger_with_attribution                              *)

(* A turn is claimed once; without a turn, an event is.  A second claim    *)
(* gets the receipt of the first one, or an error.                         *)
FirstClaim(h) ==
    /\ ~Claimed(h)
    /\ \A g \in Events : Claimed(g) => Origin[g] # Origin[h] \/ Origin[h].turn = NoTurn

ClaimReceipt(h, outcome) ==
    trigger' = [trigger EXCEPT ![h] = [outcome |-> outcome, version |-> Version]]

Claim(h) ==
    /\ FirstClaim(h)
    /\ Enabled
    /\ \/ /\ LinkedAdmission(Origin[h]) # {}
          /\ ClaimReceipt(h, "turn_already_handled")
          /\ UNCHANGED <<budget, recent>>
       \/ /\ LinkedAdmission(Origin[h]) = {} /\ ~HasRoom(Origin[h].bucket)
          /\ ClaimReceipt(h, "limited")
          /\ UNCHANGED <<budget, recent>>
       \/ /\ LinkedAdmission(Origin[h]) = {} /\ HasRoom(Origin[h].bucket)
          /\ ClaimReceipt(h, "accepted")
          /\ budget' = budget \cup {h} /\ recent' = recent \cup {h}
    /\ UNCHANGED <<audit, receipt>>

(* The switch was on when the hook asked, and is off behind the lock.      *)
ClaimDisabled(h) ==
    /\ FirstClaim(h)
    /\ WasOn /\ ~Enabled
    /\ ClaimReceipt(h, "global_disabled")
    /\ UNCHANGED <<audit, budget, recent, receipt>>

-----------------------------------------------------------------------------
(* intake: a request is [origin, at, trigger, revises].  Where a request   *)
(* of the user comes from makes no difference.  What the hook submits is   *)
(* of the session of its claim; if that is not known, it is of the day it  *)
(* is submitted on, which need not be the day of the claim.                *)
Places(h) == IF Origin[h].bucket \in Sessions THEN {Origin[h]} ELSE [bucket : Days, turn : {NoTurn}]

Requests ==
    [origin : {"user"}, at : {Nowhere}, trigger : {None}, revises : BOOLEAN]
    \cup [origin : {"agent"}, at : Attributions, trigger : {None}, revises : BOOLEAN]
    \cup UNION {[origin : {"hook"}, at : Places(h), trigger : {h}, revises : BOOLEAN] :
                    h \in {h \in Events : Claimed(h)}}

Automatic(q) == q.origin # "user"

(* A key is used once: a repeated request gets its receipt, another one    *)
(* with its key an error.  The place is kept where an admission is.        *)
Record(k, q, disposition, association) ==
    /\ receipt[k] = NoReceipt
    /\ receipt' = [receipt EXCEPT ![k] =
           [disposition |-> disposition, automatic |-> Automatic(q),
            at |-> IF association = None THEN Nowhere ELSE q.at,
            trigger |-> q.trigger, association |-> association]]

(* Off at the call or behind the lock.  A second receipt for one trigger   *)
(* violates a UNIQUE constraint of the table.                              *)
IntakeDisabled(k, q) ==
    /\ Automatic(q)
    /\ q.origin = "hook" => ~Used(q.trigger)
    /\ Record(k, q, "disabled", None)
    /\ UNCHANGED <<audit, trigger, budget, recent>>

Admissible(q) ==
    /\ Automatic(q) => Enabled
    /\ q.origin = "hook" => /\ trigger[q.trigger] = [outcome |-> "accepted", version |-> Version]
                            /\ ~Used(q.trigger)

IntakeRejected(k, q) ==
    /\ Admissible(q)
    /\ Record(k, q, "rejected", q.trigger)
    /\ UNCHANGED <<audit, trigger, budget, recent>>

(* Gives the admission of its claim back, unless something used it.  The   *)
(* receipt names the admission of the memory it found, for display only:   *)
(* here it names none.                                                     *)
IntakeDuplicate(k, q) ==
    /\ Admissible(q)
    /\ Record(k, q, "duplicate", None)
    /\ LET refund == {h \in {q.trigger} \cap budget : ~Consumed(h)}
       IN  budget' = budget \ refund /\ recent' = recent \ refund
    /\ UNCHANGED <<audit, trigger>>

(* The claim's own admission, or another one reserved for the turn         *)
Reserved_Unchecked(q) ==
    IF q.origin = "hook" THEN {q.trigger} ELSE UnusedHookAdmission(q.at)
Reserved(q) ==
    IF q.origin = "hook" /\ ~Consumed(q.trigger) THEN {q.trigger} ELSE UnusedHookAdmission(q.at)

IntakeLimited(k, q) ==
    /\ Admissible(q) /\ Automatic(q)
    /\ Reserved(q) = {} /\ ~HasRoom(q.at.bucket)
    /\ Record(k, q, "rate_limited", None)
    /\ UNCHANGED <<audit, trigger, budget, recent>>

(* Something new, or a revision: what the user asked for needs no          *)
(* admission, the rest uses a reserved one or makes its own.  The evidence *)
(* decides whether it is active at once, but an automatic revision always  *)
(* waits for a human.                                                      *)
IntakeAccepted(k, q) ==
    /\ Admissible(q)
    /\ \E d \in {"activated", "pending_review"}, a \in Events \cup {k, None} :
        /\ q.revises /\ Automatic(q) => d = "pending_review"
        /\ Record(k, q, d, a)
        /\ \/ /\ ~Automatic(q) /\ a = None
              /\ UNCHANGED <<budget, recent>>
           \/ /\ Automatic(q) /\ a \in Reserved(q)
              /\ UNCHANGED <<budget, recent>>
           \/ /\ Automatic(q) /\ Reserved(q) = {} /\ HasRoom(q.at.bucket) /\ a = k
              /\ budget' = budget \cup {k} /\ recent' = recent \cup {k}
    /\ UNCHANGED <<audit, trigger>>

Intake(k, q) ==
    \/ IntakeDisabled(k, q) \/ IntakeRejected(k, q) \/ IntakeDuplicate(k, q)
    \/ IntakeLimited(k, q) \/ IntakeAccepted(k, q)

-----------------------------------------------------------------------------
(* open, migrate_intake: accepted claims are in the budget unless a        *)
(* duplicate gave them back.                                               *)
Migrated_All == {h \in Events : trigger[h].outcome = "accepted"}
Migrated ==
    {h \in Events : /\ trigger[h].outcome = "accepted"
                    /\ \A k \in Keys : ~(receipt[k].trigger = h /\ receipt[k].disposition = "duplicate")}
Open ==
    /\ budget' = budget \cup Migrated
    /\ UNCHANGED <<audit, trigger, recent, receipt>>

-----------------------------------------------------------------------------
Next ==
    \/ \E b \in BOOLEAN : SetEnabled(b)
    \/ \E a \in recent : CoolDown(a)
    \/ \E h \in Events : Claim(h) \/ ClaimDisabled(h)
    \/ \E k \in Keys, q \in Requests : Intake(k, q)
    \/ Open

Spec == Init /\ [][Next]_vars
-----------------------------------------------------------------------------
(* Properties *)

(* Types; an admission within the cooldown is in the budget; and so is the *)
(* admission of whatever was accepted without being asked for: a refund    *)
(* never takes one that is in use (intake.rs:413-416).                     *)
TypeOK ==
    /\ audit \in Seq(BOOLEAN)
    /\ trigger \in [Events -> Claims]
    /\ receipt \in [Keys -> Receipts \cup {NoReceipt}]
    /\ budget \subseteq Events \cup Keys /\ recent \subseteq budget
    /\ \A k \in Keys : receipt[k].automatic /\ Accepted(k) => receipt[k].association \in budget

(* An admission is spent at most once, also when the hook, which made the  *)
(* claim, and an ordinary submission of the same turn both arrive, in      *)
(* either order (intake.rs:427-461).                                       *)
SpentOnce ==
    \A j, k \in Keys :
        /\ Accepted(j) /\ Accepted(k)
        /\ receipt[j].association = receipt[k].association /\ receipt[k].association # None
        => j = k

AutomaticIn(b) ==
    {k \in Keys : receipt[k].automatic /\ Accepted(k) /\ At(receipt[k].association).bucket = b}

(* What is taken in without being asked for on the admissions of a session *)
(* or a day is within its limit, whatever was claimed, refunded and        *)
(* reopened in between (budget_limit).  A memory counts for the day that   *)
(* admitted it: a claim may be spent on the next day, beside the limit of  *)
(* that one.                                                               *)
AutomaticWithinBudget == \A b \in Sessions \cup Days : Cardinality(AutomaticIn(b)) <= Cap

(* While the claim of a turn can still be used, it is all the budget the   *)
(* turn takes: the claim and a submission of the same turn are not counted *)
(* twice (linked_admission, unused_hook_admission).                        *)
NoDoubleCount ==
    \A h \in budget \cap Events :
        /\ Origin[h].turn # NoTurn /\ trigger[h].version = Version /\ ~Consumed(h)
        => LinkedAdmission(Origin[h]) = {h}

(* Reopening the vault gives no refunded claim its admission again         *)
(* (migrate_intake, its last statement).                                   *)
RefundsSurvive == [][Open => UNCHANGED budget]_vars
=============================================================================
