------------------------ MODULE MemoryIntake_proofs ------------------------
(***************************************************************************)
(* Theorems about MemoryIntake, for every number of sessions, days, turns, *)
(* events and submissions, every limit and every number of changes of the  *)
(* switch.                                                                 *)
(***************************************************************************)
EXTENDS MemoryIntake, FiniteSetTheorems, TLAPS

-----------------------------------------------------------------------------
(* The invariant *)

(* A row of the budget belongs to an accepted claim, or to the submission  *)
(* that made it and was accepted.                                          *)
RowsOwned ==
    /\ \A h \in budget \cap Events : trigger[h].outcome = "accepted"
    /\ \A k \in budget \cap Keys : Accepted(k) /\ receipt[k].association = k

(* A submission spends its own admission or that of a claim.               *)
SpentOwn == \A k \in Keys : receipt[k].association \in Keys => receipt[k].association = k

(* Claims are made by a version of the switch that has been.               *)
ClaimsPast == \A h \in Events : trigger[h].version <= Version

(* The budget is within the limit.                                         *)
BudgetWithin ==
    /\ IsFiniteSet(budget)
    /\ \A b \in Sessions \cup Days : Cardinality(InBucket(budget, b)) <= Cap

IntakeInv ==
    /\ TypeOK
    /\ RowsOwned
    /\ SpentOwn
    /\ ClaimsPast
    /\ Migrated \subseteq budget
    /\ BudgetWithin
    /\ SpentOnce
    /\ NoDoubleCount

-----------------------------------------------------------------------------
(* Facts about the data *)

(* What tells no receipt and no claim from one *)
LEMMA DataFacts ==
    /\ NoReceipt.disposition = "none" /\ NoReceipt.association = None /\ NoReceipt.trigger = None
    /\ NoReceipt.automatic = FALSE
    /\ NoClaim.outcome = "none" /\ NoClaim.version = 0
    /\ \A r \in Receipts : /\ r.disposition \in Dispositions /\ r.automatic \in BOOLEAN
                           /\ r.trigger \in Events \cup {None}
                           /\ r.association \in Events \cup Keys \cup {None}
    /\ \A c \in Claims : c.version \in Nat
    /\ \A o \in Outcomes, v \in Nat : /\ [outcome |-> o, version |-> v] \in Claims
                                      /\ [outcome |-> o, version |-> v] # NoClaim
<1>1. /\ NoReceipt.disposition = "none" /\ NoReceipt.association = None /\ NoReceipt.trigger = None
      /\ NoReceipt.automatic = FALSE
    BY DEF NoReceipt
<1>2. NoClaim.outcome = "none" /\ NoClaim.version = 0
    BY DEF NoClaim
<1>3. \A r \in Receipts : /\ r.disposition \in Dispositions /\ r.automatic \in BOOLEAN
                          /\ r.trigger \in Events \cup {None}
                          /\ r.association \in Events \cup Keys \cup {None}
    BY DEF Receipts
<1>4. \A c \in Claims : c.version \in Nat
    BY <1>2 DEF Claims
<1>5. \A o \in Outcomes, v \in Nat : /\ [outcome |-> o, version |-> v] \in Claims
                                     /\ [outcome |-> o, version |-> v] # NoClaim
    BY DEF Claims, NoClaim, Outcomes
<1> QED
    BY <1>1, <1>2, <1>3, <1>4, <1>5

(* What a request of each origin carries *)
LEMMA RequestFacts ==
    ASSUME NEW q \in Requests
    PROVE  /\ q.origin \in {"user", "agent", "hook"}
           /\ q.trigger \in Events \cup {None}
           /\ q.at \in Attributions \cup {Nowhere}
           /\ Automatic(q) \in BOOLEAN
           /\ q.origin = "hook" => q.trigger \in Events
           /\ q.origin # "hook" => q.trigger = None
           /\ Automatic(q) => q.at \in Attributions
<1> USE ConstantsAssumption DEF Automatic
<1>1. CASE q \in [origin : {"user"}, at : {Nowhere}, trigger : {None}, revises : BOOLEAN]
    BY <1>1
<1>2. CASE q \in [origin : {"agent"}, at : Attributions, trigger : {None}, revises : BOOLEAN]
    BY <1>2
<1>3. ASSUME NEW h \in Events, q \in [origin : {"hook"}, at : Places(h), trigger : {h}, revises : BOOLEAN]
      PROVE  /\ q.origin = "hook" /\ q.trigger = h /\ q.at \in Attributions
             /\ Automatic(q) \in BOOLEAN
  <2>1. Places(h) \subseteq Attributions
    BY DEF Places, Attributions
  <2> QED
    BY <1>3, <2>1
<1> QED
    BY <1>1, <1>2, <1>3 DEF Requests

(* A place known at all is in a bucket.                                    *)
LEMMA AttributionFacts == \A at \in Attributions : at.bucket \in Sessions \cup Days
BY DEF Attributions

(* A new receipt leaves the others, and the rows of the budget, alone.     *)
LEMMA RecordFacts ==
    ASSUME IntakeInv, NEW k \in Keys, NEW q \in Requests, NEW d \in Dispositions,
           NEW a \in Events \cup Keys \cup {None}, Record(k, q, d, a)
    PROVE  /\ receipt' \in [Keys -> Receipts \cup {NoReceipt}]
           /\ receipt'[k].disposition = d /\ receipt'[k].association = a
           /\ receipt'[k].trigger = q.trigger /\ receipt'[k].automatic = Automatic(q)
           /\ a # None => receipt'[k].at = q.at
           /\ \A j \in Keys \ {k} : receipt'[j] = receipt[j]
           /\ receipt[k] = NoReceipt /\ ~Accepted(k) /\ k \notin budget
           /\ \A x \in budget : At(x)' = At(x)
<1> DEFINE new == [disposition |-> d, automatic |-> Automatic(q),
                   at |-> IF a = None THEN Nowhere ELSE q.at,
                   trigger |-> q.trigger, association |-> a]
<1>1. new \in Receipts
    BY RequestFacts DEF Receipts
<1>2. receipt[k] = NoReceipt /\ receipt' = [receipt EXCEPT ![k] = new]
    BY DEF Record
<1>3. receipt' \in [Keys -> Receipts \cup {NoReceipt}] /\ receipt'[k] = new
      /\ \A j \in Keys \ {k} : receipt'[j] = receipt[j]
    BY <1>1, <1>2 DEF IntakeInv, TypeOK
<1>4. ~Accepted(k)
    BY <1>2, DataFacts DEF Accepted
<1>5. k \notin budget
    BY <1>4 DEF IntakeInv, RowsOwned
<1>6. \A x \in budget : At(x)' = At(x)
    BY <1>3, <1>5 DEF IntakeInv, TypeOK, At
<1> HIDE DEF new
<1> QED
    BY <1>2, <1>3, <1>4, <1>5, <1>6 DEF new

(* Taking rows out of the budget keeps it within its limit.                *)
LEMMA FewerRows ==
    ASSUME BudgetWithin, budget' \subseteq budget, \A x \in budget : At(x)' = At(x)
    PROVE  BudgetWithin'
<1>1. IsFiniteSet(budget')
    BY FS_Subset DEF BudgetWithin
<1>2. ASSUME NEW b \in Sessions \cup Days
      PROVE  Cardinality(InBucket(budget, b)') <= Cap
  <2>1. InBucket(budget, b)' \subseteq InBucket(budget, b)
    BY DEF InBucket
  <2>2. IsFiniteSet(InBucket(budget, b))
    BY FS_Subset DEF BudgetWithin, InBucket
  <2>3. /\ Cardinality(InBucket(budget, b)') <= Cardinality(InBucket(budget, b))
        /\ IsFiniteSet(InBucket(budget, b)')
    BY <2>1, <2>2, FS_Subset
  <2>4. Cardinality(InBucket(budget, b)) \in Nat /\ Cardinality(InBucket(budget, b)') \in Nat
    BY <2>2, <2>3, FS_CardinalityType
  <2> QED
    BY <2>3, <2>4, ConstantsAssumption DEF BudgetWithin
<1> QED
    BY <1>1, <1>2 DEF BudgetWithin

(* So does a new row, where there was room for it.                         *)
LEMMA OneMoreRow ==
    ASSUME BudgetWithin, NEW a, a \notin budget, budget' = budget \cup {a}, HasRoom(At(a)'.bucket),
           \A x \in budget : At(x)' = At(x)
    PROVE  BudgetWithin'
<1>1. IsFiniteSet(budget')
    BY FS_AddElement DEF BudgetWithin
<1>2. ASSUME NEW b \in Sessions \cup Days
      PROVE  Cardinality(InBucket(budget, b)') <= Cap
  <2> DEFINE rows == InBucket(budget, b)
  <2>1. IsFiniteSet(rows) /\ Cardinality(rows) \in Nat
    BY FS_Subset, FS_CardinalityType DEF BudgetWithin, InBucket
  <2>2. a \notin rows
    BY DEF InBucket
  <2>3. CASE At(a)'.bucket # b
    <3>1. rows' = rows
      BY <2>3 DEF InBucket
    <3> QED
      BY <3>1 DEF BudgetWithin
  <2>4. CASE At(a)'.bucket = b
    <3>1. rows' = rows \cup {a}
      BY <2>4 DEF InBucket
    <3>2. Cardinality(rows \cup {a}) = Cardinality(rows) + 1
      BY <2>1, <2>2, FS_AddElement
    <3>3. Cardinality(rows) < Cap
      BY <2>4 DEF HasRoom
    <3> QED
      BY <2>1, <3>1, <3>2, <3>3, ConstantsAssumption
  <2> QED
    BY <2>3, <2>4
<1> QED
    BY <1>1, <1>2 DEF BudgetWithin

-----------------------------------------------------------------------------
(* The steps *)

LEMMA IntakeInit == Init => IntakeInv
<1> SUFFICES ASSUME Init PROVE IntakeInv
    OBVIOUS
<1> USE ConstantsAssumption, DataFacts DEF Init
<1>1. \A k \in Keys : receipt[k] = NoReceipt /\ ~Accepted(k)
    BY DEF Accepted
<1>2. \A h \in Events : trigger[h] = NoClaim
    OBVIOUS
<1>3. TypeOK
  <2>1. audit \in Seq(BOOLEAN)
    OBVIOUS
  <2>2. trigger \in [Events -> Claims] /\ receipt \in [Keys -> Receipts \cup {NoReceipt}]
    BY DEF Claims
  <2> QED
    BY <1>1, <2>1, <2>2 DEF TypeOK
<1>4. RowsOwned /\ SpentOwn
    BY <1>1 DEF RowsOwned, SpentOwn
<1>5. ClaimsPast
    BY <1>2 DEF ClaimsPast, Version
<1>6. Migrated \subseteq budget
    BY <1>2 DEF Migrated
<1>7. BudgetWithin
  <2>1. budget = {} /\ \A b \in Sessions \cup Days : InBucket(budget, b) = {}
    BY DEF InBucket
  <2>2. IsFiniteSet({}) /\ Cardinality({}) = 0 /\ 0 <= Cap
    BY FS_EmptySet
  <2> HIDE DEF Init
  <2> QED
    BY <2>1, <2>2 DEF BudgetWithin
<1>8. SpentOnce /\ NoDoubleCount
    BY <1>1 DEF SpentOnce, NoDoubleCount
<1> QED
    BY <1>3, <1>4, <1>5, <1>6, <1>7, <1>8 DEF IntakeInv

(* A submission that is not accepted spends nothing; at most it takes the  *)
(* unspent row of its claim out of the budget.                             *)
LEMMA Declined ==
    ASSUME IntakeInv, NEW k \in Keys, NEW q \in Requests,
           NEW d \in {"disabled", "rejected", "duplicate", "rate_limited"},
           NEW a \in Events \cup {None}, Record(k, q, d, a),
           NEW refund \in SUBSET {h \in {q.trigger} \cap budget : ~Consumed(h)},
           d = "duplicate" \/ refund = {},
           budget' = budget \ refund, recent' = recent \ refund, UNCHANGED <<audit, trigger>>
    PROVE  IntakeInv'
<1> USE ConstantsAssumption
<1>1. /\ receipt' \in [Keys -> Receipts \cup {NoReceipt}]
      /\ receipt'[k].disposition = d /\ receipt'[k].association = a
      /\ receipt'[k].trigger = q.trigger /\ receipt'[k].automatic = Automatic(q)
      /\ \A j \in Keys \ {k} : receipt'[j] = receipt[j]
      /\ receipt[k] = NoReceipt /\ ~Accepted(k)
      /\ \A x \in budget : At(x)' = At(x)
    BY RecordFacts DEF Dispositions
<1>2. \A j \in Keys : /\ Accepted(j)' <=> Accepted(j)
                      /\ Accepted(j) => receipt'[j] = receipt[j]
    BY <1>1 DEF Accepted
<1>3. \A x : Consumed(x)' <=> Consumed(x)
    BY <1>2 DEF Consumed
<1>4. q.trigger \in Events \cup {None} /\ refund \subseteq Events /\ budget' \subseteq budget
    BY RequestFacts DEF IntakeInv, TypeOK
<1>5. \A j \in Keys : receipt[j].automatic /\ Accepted(j) =>
          /\ receipt[j].association \in budget /\ receipt[j].association \notin refund
    BY DEF IntakeInv, TypeOK, Consumed
<1>6. TypeOK'
    BY <1>1, <1>2, <1>5 DEF IntakeInv, TypeOK
<1>7. RowsOwned'
    BY <1>2, <1>4 DEF IntakeInv, RowsOwned
<1>8. SpentOwn'
    BY <1>1, <1>2, <1>5 DEF IntakeInv, SpentOwn
<1>9. ClaimsPast'
    BY DEF IntakeInv, ClaimsPast, Version
<1>10. (Migrated \subseteq budget)'
  <2>1. Migrated' \subseteq Migrated
    BY <1>1, DataFacts DEF Migrated
  <2>2. Migrated' \cap refund = {}
    BY <1>1 DEF Migrated
  <2> QED
    BY <2>1, <2>2 DEF IntakeInv
<1>11. BudgetWithin'
    BY <1>1, <1>4, FewerRows DEF IntakeInv
<1>12. SpentOnce'
    BY <1>2 DEF IntakeInv, SpentOnce
<1>13. NoDoubleCount'
  <2> SUFFICES ASSUME NEW h \in budget' \cap Events, Origin[h].turn # NoTurn,
                      trigger[h].version = Version, ~Consumed(h)
               PROVE  LinkedAdmission(Origin[h])' = {h}
    BY <1>3 DEF NoDoubleCount, Version
  <2>1. LinkedAdmission(Origin[h]) = {h}
    BY <1>4 DEF IntakeInv, NoDoubleCount
  <2>2. LinkedAdmission(Origin[h])' \subseteq LinkedAdmission(Origin[h])
    BY <1>1, <1>4 DEF LinkedAdmission
  <2>3. h \in LinkedAdmission(Origin[h])'
    BY DEF LinkedAdmission, At
  <2> QED
    BY <2>1, <2>2, <2>3
<1> QED
    BY <1>6, <1>7, <1>8, <1>9, <1>10, <1>11, <1>12, <1>13 DEF IntakeInv

(* A claim writes a receipt for its event; accepted, it adds a row.        *)
LEMMA ClaimStep ==
    ASSUME IntakeInv, NEW h \in Events, Claim(h) \/ ClaimDisabled(h)
    PROVE  IntakeInv'
<1> USE ConstantsAssumption
<1>1. PICK o \in Outcomes : ClaimReceipt(h, o) /\ (o = "accepted" => /\ Claim(h)
                                                                  /\ budget' = budget \cup {h}
                                                                  /\ recent' = recent \cup {h}
                                                                  /\ LinkedAdmission(Origin[h]) = {}
                                                                  /\ HasRoom(Origin[h].bucket))
                                              /\ (o # "accepted" => UNCHANGED <<budget, recent>>)
    BY DEF Claim, ClaimDisabled, Outcomes
<1>2. UNCHANGED <<audit, receipt>> /\ trigger[h] = NoClaim /\ Version \in Nat
  <2>1. UNCHANGED <<audit, receipt>> /\ ~Claimed(h)
    BY DEF Claim, ClaimDisabled, FirstClaim
  <2>2. Version \in Nat
    BY DEF IntakeInv, TypeOK, Version
  <2> QED
    BY <2>1, <2>2 DEF Claimed
<1>3. /\ trigger' \in [Events -> Claims] /\ trigger'[h].outcome = o /\ trigger'[h].version = Version
      /\ \A g \in Events \ {h} : trigger'[g] = trigger[g]
    BY <1>1, <1>2, DataFacts DEF ClaimReceipt, IntakeInv, TypeOK
<1>4. h \notin budget
    BY <1>2, DataFacts DEF IntakeInv, RowsOwned
<1>5. \A x : At(x)' = At(x) /\ (Accepted(x)' <=> Accepted(x)) /\ (Consumed(x)' <=> Consumed(x))
    BY <1>2 DEF At, Accepted, Consumed
<1>6. TypeOK'
    BY <1>1, <1>2, <1>3 DEF IntakeInv, TypeOK, Accepted
<1>7. RowsOwned'
    BY <1>1, <1>2, <1>3, <1>4, <1>5 DEF IntakeInv, RowsOwned
<1>8. SpentOwn'
    BY <1>2, <1>5 DEF IntakeInv, SpentOwn
<1>9. ClaimsPast'
    BY <1>2, <1>3 DEF IntakeInv, ClaimsPast, Version
<1>10. (Migrated \subseteq budget)'
    BY <1>1, <1>2, <1>3 DEF IntakeInv, Migrated
<1>11. BudgetWithin'
  <2>1. CASE o = "accepted"
    <3>1. At(h)'.bucket = Origin[h].bucket
      BY DEF At
    <3> QED
      BY <1>1, <1>4, <1>5, <2>1, <3>1, OneMoreRow DEF IntakeInv
  <2>2. CASE o # "accepted"
    BY <1>1, <1>5, <2>2, FewerRows DEF IntakeInv
  <2> QED
    BY <2>1, <2>2
<1>12. SpentOnce'
    BY <1>2, <1>5 DEF IntakeInv, SpentOnce
<1>13. NoDoubleCount'
  <2> SUFFICES ASSUME NEW g \in budget' \cap Events, Origin[g].turn # NoTurn,
                      trigger'[g].version = Version, ~Consumed(g)
               PROVE  LinkedAdmission(Origin[g])' = {g}
    BY <1>2, <1>5 DEF NoDoubleCount, Version
  <2>1. CASE g = h
    <3>1. o = "accepted"
      BY <1>1, <1>4, <2>1
    <3> QED
      BY <1>1, <1>5, <2>1, <3>1 DEF LinkedAdmission, At
  <2>2. CASE g # h
    <3>1. g \in budget /\ LinkedAdmission(Origin[g]) = {g}
      BY <1>1, <1>3, <2>2 DEF IntakeInv, NoDoubleCount
    <3>2. budget' # budget => Origin[h] # Origin[g]
      BY <1>1, <3>1 DEF LinkedAdmission, At
    <3> QED
      BY <1>1, <1>5, <3>1, <3>2 DEF LinkedAdmission, At
  <2> QED
    BY <2>1, <2>2
<1> QED
    BY <1>6, <1>7, <1>8, <1>9, <1>10, <1>11, <1>12, <1>13 DEF IntakeInv

(* What a submission may use is in the budget and unspent.                 *)
LEMMA ReservedFacts ==
    ASSUME IntakeInv, NEW q \in Requests, Admissible(q), NEW a \in Reserved(q)
    PROVE  a \in budget \cap Events /\ ~Consumed(a)
<1>1. CASE q.origin = "hook" /\ ~Consumed(q.trigger)
  <2>1. a = q.trigger /\ a \in Events
    BY <1>1, RequestFacts DEF Reserved
  <2>2. trigger[a].outcome = "accepted" /\ ~Used(a)
    BY <1>1, <2>1 DEF Admissible
  <2>3. a \in Migrated
    BY <2>1, <2>2 DEF Migrated, Used
  <2> QED
    BY <1>1, <2>1, <2>3 DEF IntakeInv
<1>2. CASE ~(q.origin = "hook" /\ ~Consumed(q.trigger))
  <2>1. a \in UnusedHookAdmission(q.at)
    BY <1>2 DEF Reserved
  <2> QED
    BY <2>1 DEF UnusedHookAdmission, LinkedAdmission
<1> QED
    BY <1>1, <1>2

(* A claim that can still be used is reserved for every submission of its  *)
(* turn.                                                                   *)
LEMMA ClaimReserved ==
    ASSUME IntakeInv, NEW q \in Requests, NEW h \in budget \cap Events, Origin[h] = q.at,
           Origin[h].turn # NoTurn, trigger[h].version = Version, ~Consumed(h)
    PROVE  Reserved(q) # {}
<1>1. trigger[h] = [outcome |-> "accepted", version |-> Version]
  <2>1. trigger[h] \in Claims /\ trigger[h].outcome = "accepted"
    BY DEF IntakeInv, TypeOK, RowsOwned
  <2>2. trigger[h] \in [outcome : Outcomes, version : Nat]
    BY <2>1, DataFacts DEF Claims
  <2> QED
    BY <2>1, <2>2
<1>2. h \in UnusedHookAdmission(q.at)
    BY <1>1 DEF UnusedHookAdmission, LinkedAdmission, At
<1> QED
    BY <1>2 DEF Reserved

(* An accepted submission spends nothing, a reserved row or a new one.     *)
LEMMA AcceptedStep ==
    ASSUME IntakeInv, NEW k \in Keys, NEW q \in Requests, IntakeAccepted(k, q)
    PROVE  IntakeInv'
<1> USE ConstantsAssumption
<1>1. PICK d \in {"activated", "pending_review"}, a \in Events \cup {k, None} :
          /\ Record(k, q, d, a)
          /\ \/ /\ ~Automatic(q) /\ a = None
                /\ UNCHANGED <<budget, recent>>
             \/ /\ Automatic(q) /\ a \in Reserved(q)
                /\ UNCHANGED <<budget, recent>>
             \/ /\ Automatic(q) /\ Reserved(q) = {} /\ HasRoom(q.at.bucket) /\ a = k
                /\ budget' = budget \cup {k} /\ recent' = recent \cup {k}
    BY DEF IntakeAccepted
<1>2. Admissible(q) /\ UNCHANGED <<audit, trigger>>
    BY DEF IntakeAccepted
<1>3. /\ receipt' \in [Keys -> Receipts \cup {NoReceipt}]
      /\ receipt'[k].disposition = d /\ receipt'[k].association = a
      /\ receipt'[k].automatic = Automatic(q)
      /\ a # None => receipt'[k].at = q.at
      /\ \A j \in Keys \ {k} : receipt'[j] = receipt[j]
      /\ receipt[k] = NoReceipt /\ ~Accepted(k) /\ k \notin budget
      /\ \A x \in budget : At(x)' = At(x)
    BY <1>1, RecordFacts DEF Dispositions
<1>4. Accepted(k)' /\ \A j \in Keys \ {k} : Accepted(j)' <=> Accepted(j)
    BY <1>3 DEF Accepted
<1>5. \A x : Consumed(x) => Consumed(x)'
    BY <1>3, <1>4 DEF Consumed
<1>6. a \in Reserved(q) => a \in budget \cap Events /\ ~Consumed(a)
    BY <1>2, ReservedFacts
<1>7. At(k)' = receipt'[k].at
    BY DEF At
<1>8. TypeOK'
  <2>1. budget' \subseteq Events \cup Keys /\ recent' \subseteq budget' /\ budget \subseteq budget'
    BY <1>1 DEF IntakeInv, TypeOK
  <2>2. receipt'[k].automatic => a \in budget'
    BY <1>1, <1>3, <1>6
  <2> QED
    BY <1>2, <1>3, <1>4, <2>1, <2>2 DEF IntakeInv, TypeOK
<1>9. RowsOwned'
    BY <1>1, <1>2, <1>3, <1>4 DEF IntakeInv, RowsOwned
<1>10. SpentOwn'
  <2>1. receipt'[k].association \in Keys => receipt'[k].association = k
    BY <1>1, <1>3
  <2> QED
    BY <1>3, <2>1 DEF IntakeInv, SpentOwn
<1>11. ClaimsPast'
    BY <1>2 DEF IntakeInv, ClaimsPast, Version
<1>12. (Migrated \subseteq budget)'
  <2>1. Migrated' \subseteq Migrated
    BY <1>2, <1>3, DataFacts DEF Migrated
  <2> QED
    BY <1>1, <2>1 DEF IntakeInv
<1>13. BudgetWithin'
  <2>1. CASE budget' = budget
    BY <1>3, <2>1, FewerRows DEF IntakeInv
  <2>2. CASE a = k /\ budget' = budget \cup {k} /\ HasRoom(q.at.bucket)
    BY <1>3, <1>7, <2>2, OneMoreRow DEF IntakeInv
  <2> QED
    BY <1>1, <2>1, <2>2
<1>14. SpentOnce'
  <2> SUFFICES ASSUME NEW j \in Keys \ {k}, Accepted(j), receipt[j].association = a, a # None
               PROVE  FALSE
    BY <1>3, <1>4 DEF IntakeInv, SpentOnce
  <2>1. Consumed(a)
    BY DEF Consumed
  <2>2. a = k
    BY <1>1, <1>6, <2>1
  <2> QED
    BY <2>2 DEF IntakeInv, SpentOwn
<1>15. NoDoubleCount'
  <2> SUFFICES ASSUME NEW h \in budget' \cap Events, Origin[h].turn # NoTurn,
                      trigger[h].version = Version, ~Consumed(h)
               PROVE  LinkedAdmission(Origin[h])' = {h}
    BY <1>2, <1>5 DEF NoDoubleCount, Version
  <2>1. h \in budget /\ LinkedAdmission(Origin[h]) = {h}
    BY <1>1 DEF IntakeInv, NoDoubleCount
  <2>2. budget' # budget => budget' = budget \cup {k} /\ At(k)' # Origin[h]
    BY <1>1, <1>3, <1>7, <2>1, ClaimReserved
  <2> QED
    BY <1>3, <2>1, <2>2 DEF LinkedAdmission
<1> QED
    BY <1>8, <1>9, <1>10, <1>11, <1>12, <1>13, <1>14, <1>15 DEF IntakeInv

LEMMA IntakeStep == IntakeInv /\ [Next]_vars => IntakeInv'
<1> SUFFICES ASSUME IntakeInv, [Next]_vars PROVE IntakeInv'
    OBVIOUS
<1> USE ConstantsAssumption
<1>1. ASSUME NEW b \in BOOLEAN, SetEnabled(b) PROVE IntakeInv'
  <2>1. /\ audit' \in Seq(BOOLEAN) /\ Version \in Nat /\ Version' = Version + 1
        /\ UNCHANGED <<trigger, budget, recent, receipt>>
    BY <1>1 DEF SetEnabled, Version, IntakeInv, TypeOK
  <2>2. \A x : At(x)' = At(x) /\ (Accepted(x)' <=> Accepted(x))
    BY <2>1 DEF At, Accepted
  <2>3. TypeOK' /\ RowsOwned' /\ SpentOwn' /\ SpentOnce'
    BY <2>1, <2>2 DEF IntakeInv, TypeOK, RowsOwned, SpentOwn, SpentOnce
  <2>4. \A h \in Events : trigger'[h].version < Version'
    BY <2>1, DataFacts DEF IntakeInv, TypeOK, ClaimsPast
  <2>5. ClaimsPast' /\ NoDoubleCount'
    BY <2>1, <2>4, DataFacts DEF ClaimsPast, NoDoubleCount, IntakeInv, TypeOK
  <2>6. (Migrated \subseteq budget)'
    BY <2>1 DEF IntakeInv, Migrated
  <2>7. BudgetWithin'
    BY <2>1, <2>2, FewerRows DEF IntakeInv
  <2> QED
    BY <2>3, <2>5, <2>6, <2>7 DEF IntakeInv
<1>2. ASSUME budget' = budget, recent' \subseteq recent, UNCHANGED <<audit, trigger, receipt>>
      PROVE  IntakeInv'
  <2>1. \A x : At(x)' = At(x) /\ (Accepted(x)' <=> Accepted(x)) /\ (Consumed(x)' <=> Consumed(x))
    BY <1>2 DEF At, Accepted, Consumed
  <2>2. TypeOK' /\ RowsOwned' /\ SpentOwn' /\ SpentOnce'
    BY <1>2, <2>1 DEF IntakeInv, TypeOK, RowsOwned, SpentOwn, SpentOnce
  <2>3. ClaimsPast' /\ (Migrated \subseteq budget)'
    BY <1>2 DEF IntakeInv, ClaimsPast, Migrated, Version
  <2>4. NoDoubleCount'
    BY <1>2, <2>1 DEF IntakeInv, NoDoubleCount, Version, LinkedAdmission
  <2>5. BudgetWithin'
    BY <1>2, <2>1, FewerRows DEF IntakeInv
  <2> QED
    BY <2>2, <2>3, <2>4, <2>5 DEF IntakeInv
<1>3. ASSUME NEW x \in recent, CoolDown(x) PROVE IntakeInv'
    BY <1>2, <1>3 DEF CoolDown
<1>4. CASE Open
    BY <1>2, <1>4 DEF Open, IntakeInv
<1>5. CASE UNCHANGED vars
    BY <1>2, <1>5 DEF vars
<1>6. ASSUME NEW h \in Events, Claim(h) \/ ClaimDisabled(h) PROVE IntakeInv'
    BY <1>6, ClaimStep
<1>7. ASSUME NEW k \in Keys, NEW q \in Requests, Intake(k, q) PROVE IntakeInv'
  <2> USE DEF IntakeInv
  <2>1. {} \in SUBSET {h \in {q.trigger} \cap budget : ~Consumed(h)} /\ budget \ {} = budget
        /\ recent \ {} = recent
    OBVIOUS
  <2> HIDE DEF IntakeInv
  <2>2. CASE IntakeDisabled(k, q)
    BY <2>1, <2>2, Declined DEF IntakeDisabled
  <2>3. CASE IntakeRejected(k, q)
    BY <2>1, <2>3, Declined, RequestFacts DEF IntakeRejected
  <2>4. CASE IntakeLimited(k, q)
    BY <2>1, <2>4, Declined DEF IntakeLimited
  <2>5. CASE IntakeDuplicate(k, q)
    BY <2>5, Declined DEF IntakeDuplicate
  <2>6. CASE IntakeAccepted(k, q)
    BY <2>6, AcceptedStep
  <2> QED
    BY <1>7, <2>2, <2>3, <2>4, <2>5, <2>6 DEF Intake
<1> QED
    BY <1>1, <1>3, <1>4, <1>5, <1>6, <1>7 DEF Next

(* The invariant holds throughout.                                         *)
THEOREM IntakeInvariant == Spec => []IntakeInv
BY IntakeInit, IntakeStep, PTL DEF Spec

-----------------------------------------------------------------------------
(* What follows *)

(* Every accepted automatic submission names an admission of its own: no   *)
(* bucket has more of them than rows.                                      *)
LEMMA WithinBudget == IntakeInv => AutomaticWithinBudget
<1> SUFFICES ASSUME IntakeInv, NEW b \in Sessions \cup Days
             PROVE  Cardinality(AutomaticIn(b)) <= Cap
    BY DEF AutomaticWithinBudget
<1> DEFINE rows == InBucket(budget, b)
           f == [k \in AutomaticIn(b) |-> receipt[k].association]
<1>1. IsFiniteSet(rows) /\ Cardinality(rows) \in Nat /\ Cardinality(rows) <= Cap
    BY FS_Subset, FS_CardinalityType DEF IntakeInv, BudgetWithin, InBucket
<1>2. \A k \in AutomaticIn(b) : /\ receipt[k].association \in rows
                                /\ receipt[k].association # None
    BY ConstantsAssumption DEF AutomaticIn, IntakeInv, TypeOK, SpentOwn, InBucket
<1>3. \A j, k \in AutomaticIn(b) : receipt[j].association = receipt[k].association => j = k
    BY <1>2 DEF AutomaticIn, IntakeInv, SpentOnce
<1>4. f \in Injection(AutomaticIn(b), rows)
  <2>1. f \in [AutomaticIn(b) -> rows]
    BY <1>2
  <2> QED
    BY <2>1, <1>3 DEF Injection, IsInjective
<1>5. IsFiniteSet(AutomaticIn(b)) /\ Cardinality(AutomaticIn(b)) <= Cardinality(rows)
    BY <1>1, <1>4, FS_Injection
<1>6. Cardinality(AutomaticIn(b)) \in Nat
    BY <1>5, FS_CardinalityType
<1> QED
    BY <1>1, <1>5, <1>6, ConstantsAssumption

(* Types, and whatever was accepted without being asked for has its        *)
(* admission in the budget (intake.rs:404-461).                            *)
THEOREM TypeCorrect == Spec => []TypeOK
BY IntakeInvariant, PTL DEF IntakeInv

(* No admission is spent twice, whichever of the claim's own submission    *)
(* and another one of its turn comes first.                                *)
THEOREM SpentOnceHolds == Spec => []SpentOnce
BY IntakeInvariant, PTL DEF IntakeInv

(* What is accepted without being asked for on the admissions of a session *)
(* or a day is within its limit.                                           *)
THEOREM AutomaticWithinBudgetHolds == Spec => []AutomaticWithinBudget
BY IntakeInvariant, WithinBudget, PTL

(* A claim that can still be used is all the budget its turn takes.        *)
THEOREM NoDoubleCountHolds == Spec => []NoDoubleCount
BY IntakeInvariant, PTL DEF IntakeInv

(* Reopening the vault returns no refunded admission to the budget.        *)
THEOREM RefundsSurviveHolds == Spec => RefundsSurvive
<1>1. IntakeInv /\ [Next]_vars => [Open => UNCHANGED budget]_vars
    BY DEF IntakeInv, Open
<1> QED
    BY IntakeInvariant, <1>1, PTL DEF Spec, RefundsSurvive
=============================================================================
