-------------------------- MODULE Retrieval_proofs --------------------------
(***************************************************************************)
(* What the modules Navigation, Recall and SemanticProjection promise,     *)
(* proved for any number of memories, editions, requests, documents,       *)
(* endpoints and processes.                                                *)
(***************************************************************************)
EXTENDS Recall, SemanticProjection, TLAPS

-----------------------------------------------------------------------------
(* The maps.  Every row in the lane, and in anything that has been read of *)
(* it, is dated by the clock, so that contents once left never come back.  *)
Dated(C) == \A i \in LaneItems : C[i].at =< clock

(* What was listed after contents were read is what is live, if those are  *)
(* what the lane contains.                                                 *)
Honest(C, L) == C = Contents(focus) => L = LiveRows(focus)

MapOK(M) == M.label # None => Dated(M.label[1]) /\ Honest(M.label[1], M.entries)

Calls == [op : {"none", "route", "art_health"}, step : Steps, rebuilt : BOOLEAN, map : Maps,
          part : {None} \cup [LaneItems -> Rows] \cup Entries, epoch : Epochs \cup {None},
          list : Entries, lapsed : SUBSET Memories]

CallOK(r) ==
    /\ MapOK(r.map)
    /\ r.epoch # None => Dated(r.epoch[1])
    /\ r.part # None /\ r.step \in EpochSteps => r.part \in [LaneItems -> Rows] /\ Dated(r.part)
    /\ r.part # None /\ r.step \notin EpochSteps => r.part \in Entries
    /\ r.step \in {"list", "collect", "after", "replace"} => r.epoch # None
    /\ r.part # None /\ r.step \in {"list", "collect"} => Honest(r.epoch[1], r.part)
    /\ r.step \in {"after", "replace"} => Honest(r.epoch[1], r.list)

LanesOK ==
    /\ focus \in Focuses /\ clock \in Nat
    /\ rows \in [Items -> Rows]
    /\ events \in [Lanes -> Nat]
    /\ expired \subseteq Memories
    /\ \A i \in Items : rows[i].at =< clock /\ (rows[i].at = 0 => rows[i] = FirstRows[i])

NavInv ==
    /\ LanesOK
    /\ map \in Maps /\ MapOK(map)
    /\ call \in [Routers -> Calls]
    /\ \A c \in Routers : CallOK(call[c])

-----------------------------------------------------------------------------
(* A request for recall.  What is read keeps its shape until it is used.   *)
RefSets == SUBSET (Memories \X Nat)
EpochPairs == (SUBSET (Memories \X Rows)) \X [Editions -> Rows]
Parts == {None} \cup (SUBSET Editions) \cup EpochPairs
Recalls == [step : RecallSteps, asked : Modes \cup {"none"}, mode : Modes \cup {"none"},
            candidates : BOOLEAN, part : Parts,
            lapsed : SUBSET Memories, admitted : RefSets, hits : RefSets, ranked : SUBSET Editions,
            memories : RefSets, extras : RefSets, editions : SUBSET Editions,
            retired : SUBSET Items, since : {"nothing", "changed", "revoked"}]

ShapeInv ==
    /\ recall \in Recalls
    /\ recall.lapsed \subseteq expired
    /\ recall.part # None =>
           recall.step \in {"first", "second", "third", "rank", "hydrate", "read", "failed"}
    /\ recall.part # None /\ recall.step \in {"first", "second", "third"} =>
           recall.part \in EpochPairs
    /\ recall.step \in {"rank", "hydrate", "read"} => recall.part \in SUBSET Editions
    /\ recall.step \in {"memories", "editions"} => recall.mode \notin Vectors

(* What is as it was when the vectors were made                            *)
Standing == {<<m, FirstRows[m].revision>> :
                m \in {n \in Memories : FirstRows[n].state = "active" /\ rows[n] = FirstRows[n]
                                        /\ n \notin expired}}
SharedStands == \A e \in Editions : rows[e] = FirstRows[e]

(* A reference to a memory that was active when it was read                *)
WasActive(h) ==
    /\ rows[h[1]].state \in {"active", "retired"}
    /\ rows[h[1]].at = 0 => h[2] = FirstRows[h[1]].revision

Semantic == recall.mode \in Vectors
ModeInv ==
    recall.step \in {"first", "ids", "rank", "second", "hits", "read", "third"} => Semantic

MemoriesInv ==
    /\ \A h \in recall.admitted \cup recall.hits \cup recall.memories : WasActive(h)
    /\ recall.step \in {"ids", "rank"} => Standing \subseteq recall.admitted
    /\ recall.step \in {"second", "hits"} => Standing \subseteq recall.hits
    /\ \/ recall.step \in {"hydrate", "retain"} /\ Semantic
       \/ recall.step \in {"read", "third"}
       => Standing \subseteq recall.memories
    /\ \/ On("third") /\ recall.part # None /\ recall.part[1] = RuntimePrivate
       \/ On("done") /\ Semantic
       => /\ RuntimeMemories \subseteq recall.memories
          /\ \A h \in recall.memories \ RuntimeMemories : ~Live(h[1]) \/ h[1] \in expired

EditionsInv ==
    /\ SharedStands =>
           /\ recall.step \in {"rank", "read"} => recall.part = RuntimeEditions
           /\ \/ recall.step \in {"second", "hits"}
              \/ recall.step \in {"hydrate", "retain"} /\ Semantic
              => recall.ranked = RuntimeEditions
           /\ On("hydrate") /\ Semantic => recall.part \subseteq RuntimeEditions
           /\ (On("retain") /\ Semantic) \/ On("read") => recall.editions \subseteq RuntimeEditions
           /\ On("third") => recall.editions = RuntimeEditions
    /\ \/ On("third") /\ recall.part # None /\ recall.part[2] = RuntimeShared[1]
       \/ On("done") /\ Semantic
       => recall.editions = RuntimeEditions

RetiredInv ==
    /\ \A i \in recall.retired : rows[i].state = "retired"
    /\ \A h \in recall.admitted \cup recall.hits \cup recall.memories \cup recall.extras :
           h[1] \notin recall.retired
    /\ \A e \in recall.editions \cup recall.ranked : e \notin recall.retired
    /\ recall.step \in {"rank", "hydrate", "read"} => \A e \in recall.part : e \notin recall.retired

FailInv ==
    /\ recall.step \in {"rank", "hydrate", "read"} /\ recall.since # "revoked"
           => CanRead(recall.part)
    /\ On("failed") => recall.since = "revoked"

Plain == recall.mode \notin Vectors
UndisturbedInv ==
    recall.since = "nothing" /\ recall.step # "none" =>
        /\ recall.lapsed = expired
        /\ recall.step \in {"ids", "rank"} => recall.admitted \subseteq Refs("active", expired)
        /\ recall.step \in {"second", "hits"} => recall.hits \subseteq Refs("active", expired)
        /\ \/ recall.step \in {"hits", "read", "third"}
           \/ recall.step \in {"hydrate", "retain"} /\ Semantic
           => recall.memories \subseteq Refs("active", expired)
        /\ \/ On("editions")
           \/ recall.step \in {"hydrate", "retain"} /\ Plain
           \/ On("done")
           => recall.memories = Refs("active", expired)
        /\ recall.step \in {"hits", "editions", "hydrate", "retain", "read", "third", "done"}
           => recall.extras = CandidatesFound(expired)
        /\ On("hydrate") /\ Plain => recall.part = Current
        /\ On("retain") /\ Plain => recall.editions = Current
        /\ On("third") /\ recall.part # None =>
               recall.part = <<SemanticContents, Contents("shared")>>
        /\ On("done") => recall.editions = Current

-----------------------------------------------------------------------------
(* What a change of a lane does to its rows: it dates what it touches, and *)
(* what is retired stays so.                                               *)
Moved ==
    /\ focus' = focus /\ clock' = clock + 1
    /\ rows' \in [Items -> Rows] /\ events' \in [Lanes -> Nat]
    /\ expired \subseteq expired' /\ expired' \subseteq Memories
    /\ \A i \in Items :
           /\ rows'[i] = rows[i] \/ rows'[i].at = clock + 1
           /\ rows[i].state = "retired" => rows'[i].state = "retired"
    /\ \A m \in Memories : rows[m].state = "active" => rows'[m].state \in {"active", "retired"}

LEMMA Alteration ==
    ASSUME LanesOK, NEW i \in Items, NEW s \in States, NEW r \in Nat, Alter(i, s, r)
    PROVE  /\ clock' = clock + 1
           /\ rows' \in [Items -> Rows]
           /\ rows'[i] = Row(s, r, clock + 1)
           /\ \A j \in Items \ {i} : rows'[j] = rows[j]
<1>1. Row(s, r, clock + 1) \in Rows
    BY DEF LanesOK, Row, Rows
<1> QED
    BY <1>1 DEF Alter, LanesOK

LEMMA MemoryMoves ==
    ASSUME LanesOK, NEW m \in Memories, ChangeMemory(m)
    PROVE  /\ clock' = clock + 1
           /\ rows' \in [Items -> Rows]
           /\ rows'[m].at = clock + 1
           /\ rows[m].state # "retired"
           /\ rows[m].state = "active" => rows'[m].state \in {"active", "retired"}
           /\ \A j \in Items \ {m} : rows'[j] = rows[j]
<1>1. /\ m \in Items
      /\ rows[m].revision \in Nat /\ rows[m].revision + 1 \in Nat
      /\ {"candidate", "active", "retired"} \subseteq States
    BY DEF LanesOK, Items, Rows, States
<1>2. PICK s \in {"candidate", "active", "retired"}, r \in Nat :
          /\ Alter(m, s, r)
          /\ rows[m].state # "retired"
          /\ rows[m].state = "active" => s \in {"active", "retired"}
    BY <1>1 DEF ChangeMemory
<1>3. /\ clock' = clock + 1
      /\ rows' \in [Items -> Rows]
      /\ rows'[m] = Row(s, r, clock + 1)
      /\ \A j \in Items \ {m} : rows'[j] = rows[j]
    BY <1>1, <1>2, Alteration
<1> QED
    BY <1>2, <1>3 DEF Row

LEMMA Reflagged ==
    ASSUME LanesOK, NEW C \in SUBSET Editions, NEW P \in SUBSET Editions, Reflag(C, P),
           \A i \in C \cup P : rows[i].state # "retired"
    PROVE  /\ clock' = clock + 1
           /\ rows' \in [Items -> Rows]
           /\ \A m \in Memories : rows'[m] = rows[m]
           /\ \A i \in Items :
                  /\ rows'[i] = rows[i] \/ rows'[i].at = clock + 1
                  /\ rows[i].state = "retired" => rows'[i].state = "retired"
<1>1. Row("active", 1, clock + 1) \in Rows /\ Row("past", 1, clock + 1) \in Rows
    BY DEF LanesOK, Row, Rows, States
<1>2. \A i \in Items : rows'[i] = IF i \in C /\ ~Live(i) THEN Row("active", 1, clock + 1)
                                  ELSE IF i \in P /\ rows[i].state # "past" THEN Row("past", 1, clock + 1)
                                  ELSE rows[i]
    BY DEF Reflag
<1>3. rows' \in [Items -> Rows] /\ clock' = clock + 1
    BY <1>1 DEF Reflag, LanesOK
<1>4. \A m \in Memories : m \in Items /\ m \notin C \cup P
    BY NavigationAssumption DEF Items
<1> QED
    BY <1>2, <1>3, <1>4 DEF Row

LEMMA EditionMoves ==
    ASSUME LanesOK, ChangeEditions
    PROVE  /\ clock' = clock + 1 /\ expired' = expired
           /\ rows' \in [Items -> Rows] /\ events' \in [Lanes -> Nat]
           /\ \A m \in Memories : rows'[m] = rows[m]
           /\ \A i \in Items :
                  /\ rows'[i] = rows[i] \/ rows'[i].at = clock + 1
                  /\ rows[i].state = "retired" => rows'[i].state = "retired"
<1>1. events \in [Lanes -> Nat] /\ [events EXCEPT !["shared"] = @ + 1] \in [Lanes -> Nat]
    BY DEF LanesOK, Lanes
<1>2. \A S : Newest(S) \subseteq S /\ Unrevoked(S) \subseteq S /\ \A i \in Unrevoked(S) : rows[i].state # "retired"
    BY DEF Newest, Unrevoked
<1>3. CASE RebuildProjection
    <2> DEFINE S == Unrevoked(Editions)
    <2>1. S \subseteq Editions /\ \A i \in S : rows[i].state # "retired"
        BY <1>2
    <2>2. Reflag(Newest(S), S \ Newest(S)) /\ events' = events /\ expired' = expired
        BY <1>3 DEF RebuildProjection
    <2> HIDE DEF S
    <2>3. /\ Newest(S) \in SUBSET Editions /\ S \ Newest(S) \in SUBSET Editions
          /\ \A i \in Newest(S) \cup (S \ Newest(S)) : rows[i].state # "retired"
        BY <1>2, <2>1
    <2> QED
        BY <1>1, <2>2, <2>3, Reflagged
<1>4. ASSUME NEW e \in Editions, Publish(e)
      PROVE  /\ clock' = clock + 1 /\ expired' = expired
             /\ rows' \in [Items -> Rows] /\ events' \in [Lanes -> Nat]
             /\ \A m \in Memories : rows'[m] = rows[m]
             /\ \A i \in Items :
                    /\ rows'[i] = rows[i] \/ rows'[i].at = clock + 1
                    /\ rows[i].state = "retired" => rows'[i].state = "retired"
    <2> DEFINE S == {e} \cup Unrevoked({i \in Editions : KeyOf[i] = KeyOf[e]})
    <2>1. /\ rows[e].state = "none" /\ Reflag(Newest(S), S \ Newest(S))
          /\ UNCHANGED <<events, expired>>
        BY <1>4 DEF Publish
    <2>2. S \subseteq Editions /\ \A i \in S : rows[i].state # "retired"
        BY <1>2, <2>1
    <2> HIDE DEF S
    <2>3. /\ Newest(S) \in SUBSET Editions /\ S \ Newest(S) \in SUBSET Editions
          /\ \A i \in Newest(S) \cup (S \ Newest(S)) : rows[i].state # "retired"
        BY <1>2, <2>2
    <2> QED
        BY <1>1, <2>1, <2>3, Reflagged
<1>5. ASSUME NEW e \in Editions, Revoke(e)
      PROVE  /\ clock' = clock + 1 /\ expired' = expired
             /\ rows' \in [Items -> Rows] /\ events' \in [Lanes -> Nat]
             /\ \A m \in Memories : rows'[m] = rows[m]
             /\ \A i \in Items :
                    /\ rows'[i] = rows[i] \/ rows'[i].at = clock + 1
                    /\ rows[i].state = "retired" => rows'[i].state = "retired"
    <2>1. /\ Alter(e, "retired", 1) /\ "retired" \in States /\ 1 \in Nat
          /\ expired' = expired /\ events' \in [Lanes -> Nat]
        BY <1>1, <1>5 DEF Revoke, States
    <2>2. e \in Items /\ e \notin Memories
        BY NavigationAssumption DEF Items
    <2>3. /\ clock' = clock + 1 /\ rows' \in [Items -> Rows]
          /\ rows'[e] = Row("retired", 1, clock + 1)
          /\ \A j \in Items \ {e} : rows'[j] = rows[j]
        BY <2>1, <2>2, Alteration
    <2> QED
        BY <2>1, <2>2, <2>3 DEF Items, Row
<1>6. ASSUME NEW e \in Editions, NEW with \in Editions, Supersede(e, with)
      PROVE  /\ clock' = clock + 1 /\ expired' = expired
             /\ rows' \in [Items -> Rows] /\ events' \in [Lanes -> Nat]
             /\ \A m \in Memories : rows'[m] = rows[m]
             /\ \A i \in Items :
                    /\ rows'[i] = rows[i] \/ rows'[i].at = clock + 1
                    /\ rows[i].state = "retired" => rows'[i].state = "retired"
    <2>1. /\ Reflag({with}, Unrevoked({e})) /\ expired' = expired /\ events' \in [Lanes -> Nat]
          /\ {with} \in SUBSET Editions /\ Unrevoked({e}) \in SUBSET Editions
        BY <1>1, <1>2, <1>6 DEF Supersede
    <2>2. rows[with].state # "retired"
        BY <1>2, <1>6 DEF Supersede
    <2>3. \A i \in {with} \cup Unrevoked({e}) : rows[i].state # "retired"
        BY <1>2, <2>2
    <2> QED
        BY <2>1, <2>3, Reflagged
<1> QED
    BY <1>3, <1>4, <1>5, <1>6 DEF ChangeEditions

LEMMA LaneMoves ==
    ASSUME LanesOK, Change
    PROVE  Moved /\ LanesOK'
<1>1. CASE \E m \in Memories : ChangeMemory(m)
    <2>1. PICK m \in Memories : ChangeMemory(m)
        BY <1>1
    <2>2. events' = events /\ expired' = expired /\ focus' = focus
        BY <2>1 DEF ChangeMemory, Change
    <2>3. m \in Items /\ m \notin Editions
        BY NavigationAssumption DEF Items
    <2> QED
        BY <2>1, <2>2, <2>3, MemoryMoves DEF Moved, LanesOK, Items, Rows
<1>2. CASE \E m \in Memories : Expire(m)
    BY <1>2 DEF Expire, Change, Moved, LanesOK, Items, Rows
<1>3. CASE ChangeEditions
    <2>1. focus' = focus
        BY DEF Change
    <2> QED
        BY <1>3, <2>1, EditionMoves DEF Moved, LanesOK, Items, Rows
<1>4. \/ \E m \in Memories : ChangeMemory(m)
      \/ \E m \in Memories : Expire(m)
      \/ ChangeEditions
    BY DEF Change
<1> QED
    BY <1>1, <1>2, <1>3, <1>4

-----------------------------------------------------------------------------
(* Honesty outlives every change: new contents have a date that nothing    *)
(* that was read before has.                                               *)
LEMMA StillHonest ==
    ASSUME LanesOK, Moved, NEW C \in [LaneItems -> Rows], Dated(C)
    PROVE  Dated(C)' /\ \A L : Honest(C, L) => Honest(C, L)'
<1>1. LaneItems' = LaneItems /\ LaneItems = ItemsOf(focus) /\ LaneItems \subseteq Items
    BY DEF Moved, LaneItems, ItemsOf, Items
<1>2. Dated(C)'
    BY <1>1 DEF Dated, Moved, LanesOK, Rows
<1>3. ASSUME C = Contents(focus)' PROVE C = Contents(focus) /\ LiveRows(focus)' = LiveRows(focus)
    <2>1. \A i \in LaneItems : C[i] = rows'[i]
        BY <1>1, <1>3 DEF Contents, Moved
    <2>2. \A i \in LaneItems : rows'[i] = rows[i]
        BY <1>1, <2>1 DEF Dated, Moved, LanesOK
    <2>3. C = Contents(focus)
        BY <1>1, <2>1, <2>2 DEF Contents
    <2>4. LiveRows(focus)' = LiveRows(focus)
        BY <1>1, <2>2 DEF LiveRows, Live, Moved
    <2> QED
        BY <2>3, <2>4
<1> QED
    BY <1>2, <1>3 DEF Honest

LEMMA MapStands ==
    ASSUME LanesOK, Moved, NEW M \in Maps, MapOK(M)
    PROVE  MapOK(M)'
<1>1. M.label # None => M.label[1] \in [LaneItems -> Rows]
    BY DEF Maps, Epochs
<1> QED
    BY <1>1, StillHonest DEF MapOK

LEMMA CallStands ==
    ASSUME LanesOK, Moved, NEW r \in Calls, CallOK(r)
    PROVE  CallOK(r)'
<1>1. MapOK(r.map)'
    BY MapStands DEF Calls, CallOK
<1>2. r.epoch # None => r.epoch[1] \in [LaneItems -> Rows]
    BY DEF Calls, Epochs
<1>3. LaneItems' = LaneItems /\ Entries' = Entries
    BY DEF Moved, LaneItems, Entries, ItemsOf
<1>4. r.part # None /\ r.step \in EpochSteps => Dated(r.part)'
    BY StillHonest DEF CallOK
<1>5. r.epoch # None => Dated(r.epoch[1])'
    BY <1>2, StillHonest DEF CallOK
<1>6. r.part # None /\ r.step \in {"list", "collect"} => Honest(r.epoch[1], r.part)'
    BY <1>2, StillHonest DEF CallOK
<1>7. r.step \in {"after", "replace"} => Honest(r.epoch[1], r.list)'
    BY <1>2, StillHonest DEF CallOK
<1> QED
    BY <1>1, <1>3, <1>4, <1>5, <1>6, <1>7 DEF CallOK

LEMMA NavMoves ==
    ASSUME NavInv, Change, UNCHANGED mapVars
    PROVE  NavInv'
<1>1. LanesOK' /\ Moved
    BY LaneMoves DEF NavInv
<1>2. Maps' = Maps /\ Calls' = Calls
    BY <1>1 DEF Moved, Maps, Calls, Epochs, Entries, LaneItems, ItemsOf
<1>3. \A r \in Calls : CallOK(r) => CallOK(r)'
    BY <1>1, CallStands DEF NavInv
<1>4. \A M \in Maps : MapOK(M) => MapOK(M)'
    BY <1>1, MapStands DEF NavInv
<1>5. map' = map /\ call' = call
    BY DEF mapVars
<1> QED
    BY <1>1, <1>2, <1>3, <1>4, <1>5 DEF NavInv

-----------------------------------------------------------------------------
(* What a request has read when it goes on                                 *)
LEMMA LaneRead ==
    ASSUME NavInv
    PROVE  /\ LiveRows(focus) \in Entries
           /\ Contents(focus) \in [LaneItems -> Rows] /\ Dated(Contents(focus))
           /\ Private => focus = "private"
           /\ ~Private => LiveRows("shared") = LiveRows(focus)
                          /\ Contents("shared") = Contents(focus)
           /\ None \notin Epochs
<1>1. LaneItems = ItemsOf(focus) /\ LaneItems \subseteq Items
    BY DEF LaneItems, ItemsOf, Items
<1>2. LiveRows(focus) \in Entries
    BY <1>1 DEF LiveRows, Entries, NavInv, LanesOK, Rows
<1>3. Contents(focus) \in [LaneItems -> Rows] /\ Dated(Contents(focus))
    BY <1>1 DEF Contents, Dated, NavInv, LanesOK
<1>4. ~Private => ItemsOf("shared") = ItemsOf(focus)
    BY DEF Private, ItemsOf
<1>5. ~Private => LiveRows("shared") = LiveRows(focus) /\ Contents("shared") = Contents(focus)
    BY <1>4 DEF LiveRows, Contents
<1>6. None \notin Epochs
    BY <1>1, FirstRowsAssumption DEF Epochs, Lanes, ItemsOf
<1> QED
    BY <1>2, <1>3, <1>5, <1>6 DEF Private

LEMMA Completed ==
    ASSUME NavInv, NEW c \in Routers, ReadComplete(c)
    PROVE  /\ call[c].step \in EpochSteps =>
                  /\ EpochRead(c) \in Epochs /\ EpochRead(c) # None
                  /\ Dated(EpochRead(c)[1])
           /\ call[c].step \in ListSteps => ListRead(c) \in Entries
           /\ call[c].step \in {"list", "collect"} => Honest(call[c].epoch[1], ListRead(c))
<1>1. call[c] \in Calls /\ CallOK(call[c])
    BY DEF NavInv
<1>2. events["private"] \in Nat /\ events["shared"] \in Nat
    BY DEF NavInv, LanesOK, Lanes
<1>3. ListSteps \cap EpochSteps = {} /\ {"list", "collect"} \subseteq ListSteps
    BY DEF ListSteps, EpochSteps
<1>4. CASE Private
    <2>1. EpochRead(c) = <<Contents(focus), events["private"]>> /\ ListRead(c) = LiveRows(focus)
        BY <1>4, LaneRead DEF EpochRead, ListRead, Epoch
    <2>2. EpochRead(c) \in Epochs
        BY <1>2, <2>1, LaneRead DEF Epochs
    <2> QED
        BY <2>1, <2>2, LaneRead DEF Honest
<1>5. CASE ~Private
    <2>1. call[c].part # None
        BY <1>5 DEF ReadComplete
    <2>2. EpochRead(c) = <<call[c].part, events["shared"]>> /\ ListRead(c) = call[c].part
        BY <1>5 DEF EpochRead, ListRead
    <2>3. call[c].step \in EpochSteps => EpochRead(c) \in Epochs
        BY <1>1, <1>2, <2>1, <2>2 DEF Epochs, CallOK
    <2> QED
        BY <1>1, <1>3, <2>1, <2>2, <2>3, LaneRead DEF CallOK
<1> QED
    BY <1>4, <1>5

-----------------------------------------------------------------------------
(* The requests.  It is enough to see to the record one of them goes on    *)
(* with.                                                                   *)
LEMMA GoesOn ==
    ASSUME NavInv, NEW c \in Routers, NEW r \in Calls, CallOK(r), Becomes(c, r),
           UNCHANGED <<laneVars, map>>
    PROVE  NavInv'
<1>1. UNCHANGED <<focus, clock, rows, events, expired, map>>
    BY DEF laneVars
<1>2. call' = [call EXCEPT ![c] = r] /\ call' \in [Routers -> Calls]
    BY DEF Becomes, NavInv
<1>3. \A d \in Routers : call'[d] \in Calls /\ CallOK(call'[d])
    BY <1>2 DEF NavInv
<1>4. LanesOK' /\ Maps' = Maps /\ Calls' = Calls
    BY <1>1 DEF NavInv, LanesOK, Maps, Calls, Epochs, Entries, LaneItems, ItemsOf
<1>5. LaneItems' = LaneItems /\ Entries' = Entries /\ Contents(focus)' = Contents(focus)
      /\ LiveRows(focus)' = LiveRows(focus)
    BY <1>1 DEF LaneItems, Entries, Contents, LiveRows, Live, ItemsOf
<1>6. \A M : MapOK(M) => MapOK(M)'
    BY <1>1, <1>5 DEF MapOK, Dated, Honest
<1>7. \A s : CallOK(s) => CallOK(s)'
    BY <1>1, <1>5, <1>6 DEF CallOK, Dated, Honest
<1> QED
    BY <1>1, <1>2, <1>3, <1>4, <1>6, <1>7 DEF NavInv

LEMMA Blank ==
    /\ NoMap \in Maps /\ MapOK(NoMap)
    /\ NoCall \in Calls /\ CallOK(NoCall)
<1>1. NoMap \in Maps /\ MapOK(NoMap)
    BY DEF NoMap, Maps, Entries, MapOK
<1> QED
    BY <1>1 DEF NoCall, Calls, CallOK, Entries, Steps, EpochSteps

LEMMA Restarts ==
    ASSUME NavInv, NEW c \in Routers, NEW s \in {"label", "canonical", "map"}
    PROVE  Restart(c, s) \in Calls /\ CallOK(Restart(c, s))
<1>1. call[c].op \in {"none", "route", "art_health"} /\ call[c].rebuilt \in BOOLEAN
    BY DEF NavInv, Calls
<1>2. s \in Steps
    BY DEF Steps, EpochSteps, ListSteps
<1>3. Restart(c, s) \in Calls
    BY <1>1, <1>2, Blank DEF Restart, NoCall, Calls, Entries
<1>4. /\ Restart(c, s).map = NoMap /\ Restart(c, s).part = None
      /\ Restart(c, s).epoch = None /\ Restart(c, s).step = s
    BY DEF Restart, NoCall
<1> QED
    BY <1>3, <1>4, Blank DEF CallOK

LEMMA Otherwises ==
    ASSUME NavInv, NEW c \in Routers
    PROVE  Otherwise(c) \in Calls /\ CallOK(Otherwise(c))
<1>1. Restart(c, "label") \in Calls /\ CallOK(Restart(c, "label"))
    BY Restarts
<1>2. [Restart(c, "label") EXCEPT !.rebuilt = TRUE] \in Calls
    BY <1>1 DEF Calls
<1>3. CallOK([Restart(c, "label") EXCEPT !.rebuilt = TRUE])
    BY <1>1 DEF Calls, CallOK
<1>4. Restart(c, "canonical") \in Calls /\ CallOK(Restart(c, "canonical"))
    BY Restarts
<1> QED
    BY <1>2, <1>3, <1>4, Blank DEF Otherwise

LEMMA GoesTo ==
    ASSUME NavInv, NEW c \in Routers, NEW s \in Steps
    PROVE  /\ Goto(c, s) \in Calls
           /\ Goto(c, s) = [call[c] EXCEPT !.step = s, !.part = None]
           /\ Goto(c, s).step = s /\ Goto(c, s).part = None
           /\ Goto(c, s).map = call[c].map /\ Goto(c, s).epoch = call[c].epoch
           /\ Goto(c, s).list = call[c].list
BY DEF NavInv, Goto, Calls

LEMMA EpochsKept ==
    ASSUME NavInv, NEW c \in Routers, NEW s \in {"list", "collect"},
           ReadComplete(c), call[c].step \in EpochSteps,
           Becomes(c, [Goto(c, s) EXCEPT !.epoch = EpochRead(c)]),
           UNCHANGED <<laneVars, map>>
    PROVE  NavInv'
<1> DEFINE r == [Goto(c, s) EXCEPT !.epoch = EpochRead(c)]
<1>1. EpochRead(c) \in Epochs /\ EpochRead(c) # None /\ Dated(EpochRead(c)[1])
    BY Completed
<1>2. s \in Steps /\ s \notin EpochSteps
    BY DEF Steps, ListSteps, EpochSteps
<1>3. CallOK(call[c])
    BY DEF NavInv
<1>4. /\ Goto(c, s) \in Calls
      /\ Goto(c, s).step = s /\ Goto(c, s).part = None /\ Goto(c, s).map = call[c].map
    BY <1>2, GoesTo
<1>5. r \in Calls
    BY <1>1, <1>4 DEF Calls
<1>6. r.map = call[c].map /\ r.part = None /\ r.epoch = EpochRead(c) /\ r.step = s
    BY <1>1, <1>4 DEF Calls
<1>7. CallOK(r)
    BY <1>1, <1>3, <1>6 DEF CallOK
<1> QED
    BY <1>5, <1>7, GoesOn

LEMMA FirstRead ==
    ASSUME NavInv, NEW c \in Routers, ReadFirst(c), UNCHANGED laneVars
    PROVE  NavInv'
<1> DEFINE p == IF call[c].step \in EpochSteps THEN Contents("shared") ELSE LiveRows("shared")
           r == [call[c] EXCEPT !.part = p]
<1>1. call[c] \in Calls /\ CallOK(call[c])
    BY DEF NavInv
<1>2. /\ call[c].step \in EpochSteps => p \in [LaneItems -> Rows] /\ Dated(p)
      /\ call[c].step \notin EpochSteps => p \in Entries /\ p = LiveRows(focus)
    BY LaneRead DEF ReadFirst
<1> HIDE DEF p
<1>3. r \in Calls
    BY <1>1, <1>2 DEF Calls
<1>4. /\ r.map = call[c].map /\ r.part = p /\ r.epoch = call[c].epoch
      /\ r.step = call[c].step /\ r.list = call[c].list
    BY <1>1 DEF Calls
<1>5. "list" \notin EpochSteps /\ "collect" \notin EpochSteps
    BY DEF EpochSteps
<1>6. CallOK(r)
    BY <1>1, <1>2, <1>4, <1>5 DEF CallOK, Honest
<1>7. Becomes(c, r) /\ UNCHANGED map
    BY DEF ReadFirst, p
<1> QED
    BY <1>3, <1>6, <1>7, GoesOn

LEMMA MapRead ==
    ASSUME NavInv, NEW c \in Routers, ReadMap(c), UNCHANGED laneVars
    PROVE  NavInv'
<1>1. PICK s \in {"before", "aligned"} : Becomes(c, [Goto(c, s) EXCEPT !.map = map])
    BY DEF ReadMap
<1> DEFINE r == [Goto(c, s) EXCEPT !.map = map]
<1>2. s \in Steps
    BY DEF Steps, EpochSteps
<1>3. map \in Maps /\ MapOK(map) /\ CallOK(call[c])
    BY DEF NavInv
<1>4. /\ Goto(c, s) \in Calls /\ Goto(c, s).step = s
      /\ Goto(c, s).part = None /\ Goto(c, s).epoch = call[c].epoch
    BY <1>2, GoesTo
<1>5. r \in Calls
    BY <1>3, <1>4 DEF Calls
<1>6. r.map = map /\ r.part = None /\ r.epoch = call[c].epoch /\ r.step = s
    BY <1>4 DEF Calls
<1>7. CallOK(r)
    BY <1>3, <1>6 DEF CallOK
<1> QED
    BY <1>1, <1>5, <1>7, GoesOn DEF ReadMap

LEMMA ListKept ==
    ASSUME NavInv, NEW c \in Routers, UNCHANGED <<laneVars, map>>, ReadComplete(c),
           \/ /\ At(c, "list")
              /\ Becomes(c, [Goto(c, "after") EXCEPT !.list = ListRead(c), !.lapsed = expired])
           \/ /\ At(c, "collect")
              /\ Becomes(c, [Goto(c, "replace") EXCEPT !.list = ListRead(c)])
    PROVE  NavInv'
<1>1. CallOK(call[c]) /\ expired \in SUBSET Memories
    BY DEF NavInv, LanesOK
<1>2. call[c].step \in {"list", "collect"} /\ call[c].step \in ListSteps
    BY DEF At, ListSteps
<1>3. ListRead(c) \in Entries /\ Honest(call[c].epoch[1], ListRead(c)) /\ call[c].epoch # None
    BY <1>1, <1>2, Completed DEF CallOK
<1>4. "after" \in Steps /\ "replace" \in Steps
    BY DEF Steps, EpochSteps
<1>5. PICK r \in Calls : /\ Becomes(c, r)
                         /\ r.map = call[c].map /\ r.part = None /\ r.epoch = call[c].epoch
                         /\ r.list = ListRead(c) /\ r.step \in {"after", "replace"}
    <2>1. CASE At(c, "list")
        <3> DEFINE r == [Goto(c, "after") EXCEPT !.list = ListRead(c), !.lapsed = expired]
        <3>1. Becomes(c, r)
            BY <2>1 DEF At
        <3>2. /\ Goto(c, "after") \in Calls /\ Goto(c, "after").step = "after"
              /\ Goto(c, "after").part = None /\ Goto(c, "after").map = call[c].map
              /\ Goto(c, "after").epoch = call[c].epoch
            BY <1>4, GoesTo
        <3>3. r \in Calls
            BY <1>1, <1>3, <3>2 DEF Calls
        <3>4. r.map = call[c].map /\ r.part = None /\ r.epoch = call[c].epoch
              /\ r.list = ListRead(c) /\ r.step = "after"
            BY <3>2 DEF Calls
        <3> QED
            BY <3>1, <3>3, <3>4
    <2>2. CASE At(c, "collect")
        <3> DEFINE r == [Goto(c, "replace") EXCEPT !.list = ListRead(c)]
        <3>1. Becomes(c, r)
            BY <2>2 DEF At
        <3>2. /\ Goto(c, "replace") \in Calls /\ Goto(c, "replace").step = "replace"
              /\ Goto(c, "replace").part = None /\ Goto(c, "replace").map = call[c].map
              /\ Goto(c, "replace").epoch = call[c].epoch
            BY <1>4, GoesTo
        <3>3. r \in Calls
            BY <1>1, <1>3, <3>2 DEF Calls
        <3>4. r.map = call[c].map /\ r.part = None /\ r.epoch = call[c].epoch
              /\ r.list = ListRead(c) /\ r.step = "replace"
            BY <3>2 DEF Calls
        <3> QED
            BY <3>1, <3>3, <3>4
    <2> QED
        BY <2>1, <2>2
<1>6. CallOK(r)
    BY <1>1, <1>3, <1>5 DEF CallOK
<1> QED
    BY <1>5, <1>6, GoesOn

LEMMA MapReplaced ==
    ASSUME NavInv, NEW c \in Routers, ReplaceMap(c), UNCHANGED laneVars
    PROVE  NavInv'
<1> DEFINE N == [label |-> call[c].epoch, entries |-> call[c].list]
           r == Restart(c, "map")
<1>1. call[c] \in Calls /\ CallOK(call[c]) /\ call[c].step = "replace"
    BY DEF NavInv, ReplaceMap, At
<1>2. N \in Maps
    BY <1>1 DEF Maps, Calls
<1>3. MapOK(N)
    BY <1>1 DEF MapOK, CallOK
<1>4. map' = N /\ Becomes(c, r)
    BY DEF ReplaceMap, NewMap
<1>5. r \in Calls /\ CallOK(r)
    BY Restarts
<1> HIDE DEF N, r
<1>6. UNCHANGED <<focus, clock, rows, events, expired>>
    BY DEF laneVars
<1>7. call' = [call EXCEPT ![c] = r] /\ call' \in [Routers -> Calls]
    BY <1>4, <1>5 DEF Becomes, NavInv
<1>8. \A d \in Routers : CallOK(call'[d])
    BY <1>5, <1>7 DEF NavInv
<1>9. LanesOK' /\ Maps' = Maps /\ Calls' = Calls
    BY <1>6 DEF NavInv, LanesOK, Maps, Calls, Epochs, Entries, LaneItems, ItemsOf
<1>10. LaneItems' = LaneItems /\ Entries' = Entries /\ Contents(focus)' = Contents(focus)
       /\ LiveRows(focus)' = LiveRows(focus)
    BY <1>6 DEF LaneItems, Entries, Contents, LiveRows, Live, ItemsOf
<1>11. \A M : MapOK(M) => MapOK(M)'
    BY <1>6, <1>10 DEF MapOK, Dated, Honest
<1>12. \A s : CallOK(s) => CallOK(s)'
    BY <1>6, <1>10, <1>11 DEF CallOK, Dated, Honest
<1> QED
    BY <1>2, <1>3, <1>4, <1>7, <1>8, <1>9, <1>11, <1>12 DEF NavInv

LEMMA NavServes ==
    ASSUME NavInv, NEW c \in Routers, RouterStep(c), UNCHANGED laneVars
    PROVE  NavInv'
<1>1. CASE ReadFirst(c)
    BY <1>1, FirstRead
<1>2. CASE ReadMap(c)
    BY <1>2, MapRead
<1>3. CASE ReadBefore(c) \/ ReadLabel(c)
    BY <1>3, EpochsKept DEF ReadBefore, ReadLabel, At, EpochSteps
<1>4. CASE ReadList(c)
    BY <1>4, ListKept, Otherwises, GoesOn DEF ReadList
<1>5. CASE Collect(c)
    BY <1>5, ListKept, Restarts, Blank, GoesOn DEF Collect
<1>6. CASE ReadAfter(c) \/ ReadCanonical(c) \/ ReadAligned(c)
    BY <1>6, Otherwises, Blank, GoesOn DEF ReadAfter, ReadCanonical, ReadAligned
<1>7. CASE ReplaceMap(c)
    BY <1>7, MapReplaced
<1> QED
    BY <1>1, <1>2, <1>3, <1>4, <1>5, <1>6, <1>7 DEF RouterStep

LEMMA NavAsked ==
    ASSUME NavInv, NEW c \in Routers, NEW op \in {"route", "art_health"}, Request(c, op),
           UNCHANGED laneVars
    PROVE  NavInv'
<1> DEFINE r == [NoCall EXCEPT !.op = op, !.step = "map"]
<1>1. r \in Calls
    BY Blank DEF Calls, Steps
<1>2. r.map = NoMap /\ r.part = None /\ r.epoch = None /\ r.step = "map"
    BY DEF NoCall
<1>3. CallOK(r)
    BY <1>2, Blank DEF CallOK
<1> QED
    BY <1>1, <1>3, GoesOn DEF Request

LEMMA NavInit == Init => NavInv
<1> SUFFICES ASSUME Init PROVE NavInv
    OBVIOUS
<1>1. LanesOK
    BY FirstRowsAssumption DEF Init, NavigationInit, LanesOK
<1> QED
    BY <1>1, Blank DEF Init, NavigationInit, NavInv

LEMMA NavNext == NavInv /\ [Next]_vars => NavInv'
<1> SUFFICES ASSUME NavInv, [Next]_vars PROVE NavInv'
    OBVIOUS
<1>1. ASSUME UNCHANGED <<laneVars, mapVars>> PROVE NavInv'
    <2>1. UNCHANGED <<focus, clock, rows, events, expired, map, call>>
        BY <1>1 DEF laneVars, mapVars
    <2> QED
        BY <2>1 DEF NavInv, LanesOK, Maps, Calls, Epochs, Entries, LaneItems, MapOK, CallOK,
                    Dated, Honest, Contents, LiveRows, Live, ItemsOf
<1>2. CASE ChangeLane
    BY <1>2, NavMoves DEF ChangeLane
<1>3. CASE \E c \in Routers : Asked(c)
    BY <1>3, NavAsked DEF Asked
<1>4. CASE \E c \in Routers : Serve(c)
    BY <1>4, NavServes DEF Serve
<1>5. CASE AskRecall \/ ServeRecall \/ UNCHANGED vars
    BY <1>1, <1>5 DEF AskRecall, ServeRecall, vars
<1> QED
    BY <1>2, <1>3, <1>4, <1>5 DEF Next

-----------------------------------------------------------------------------
(* What requests for a map have read, and what any of them may put in its  *)
(* place, is honest about the epoch it carries.                            *)
THEOREM NavigationInvariant == Spec => []NavInv
<1> QED
    BY NavInit, NavNext, PTL DEF Spec

(* A navigation map that carries the epoch the lane is at names exactly    *)
(* what is live, however many processes rebuild it without a lock.         *)
THEOREM LabelHonestHolds == Spec => []LabelHonest
<1>1. NavInv => LabelHonest
    <2> SUFFICES ASSUME NavInv, focus \in Lanes,
                        NEW M \in {map} \cup {call[c].map : c \in Routers},
                        M.label = Epoch(focus)
                 PROVE  M.entries = LiveRows(focus)
        BY DEF LabelHonest
    <2>1. MapOK(M)
        BY DEF NavInv, CallOK
    <2>2. Epoch(focus) \in Epochs
        BY LaneRead DEF Epoch, Epochs, NavInv, LanesOK
    <2>3. M.label # None
        BY <2>2, LaneRead
    <2> QED
        BY <2>1, <2>3 DEF MapOK, Honest, Epoch
<1> QED
    BY <1>1, NavigationInvariant, PTL

(* What `route' gives as ready is exactly what is live.                    *)
THEOREM RouteExactHolds == Spec => []RouteExact
<1>1. NavInv => RouteExact
    <2> SUFFICES ASSUME NavInv, NEW c \in Routers, At(c, "after"), ReadComplete(c),
                        Fits(c, EpochRead(c)), EpochRead(c)[1] = Contents(focus)
                 PROVE  Routed(c) = {r \in LiveRows(focus) : r[1] \notin call[c].lapsed}
        BY DEF RouteExact
    <2>1. call[c] \in Calls /\ CallOK(call[c])
        BY DEF NavInv
    <2>2. call[c].list = LiveRows(focus)
        BY <2>1 DEF CallOK, Fits, Honest, At
    <2>3. EpochRead(c) # None
        BY Completed DEF At, EpochSteps
    <2>4. call[c].map.entries # {} => call[c].map.entries = LiveRows(focus)
        BY <2>1, <2>3 DEF CallOK, MapOK, Fits, Honest
    <2>5. call[c].map.entries = {} => call[c].list = {}
        BY DEF Fits, Ids
    <2> QED
        BY <2>2, <2>4, <2>5 DEF Routed
<1> QED
    BY <1>1, NavigationInvariant, PTL

-----------------------------------------------------------------------------
(* Recall: what can be read of the lanes                                   *)
LEMMA Readings ==
    ASSUME LanesOK
    PROVE  /\ Current \in SUBSET Editions
           /\ \A s, l : Refs(s, l) \in RefSets
           /\ \A l : CandidatesFound(l) \in RefSets
           /\ <<SemanticContents, Contents("shared")>> \in EpochPairs
           /\ RuntimeMemories \in RefSets /\ RuntimeEditions \in SUBSET Editions
           /\ expired \in SUBSET Memories
           /\ \A A, B \in RefSets : A \cup B \in RefSets /\ A \cap B \in RefSets
           /\ {} \in RefSets
           /\ None \in Parts /\ SUBSET Editions \subseteq Parts /\ EpochPairs \subseteq Parts
<1>1. /\ \A i \in Items : rows[i].revision \in Nat /\ FirstRows[i].revision \in Nat
      /\ Memories \subseteq Items /\ Editions \subseteq Items
    BY FirstRowsAssumption DEF LanesOK, Items, Rows
<1>2. \A s, l : Refs(s, l) \in RefSets
    BY <1>1 DEF Refs, Ref, RefSets
<1>3. \A l : CandidatesFound(l) \in RefSets
    BY <1>2 DEF CandidatesFound, RefSets
<1>4. SemanticContents \in SUBSET (Memories \X Rows)
    BY <1>1 DEF SemanticContents, LanesOK
<1>5. Contents("shared") \in [Editions -> Rows]
    BY <1>1 DEF Contents, ItemsOf, LanesOK
<1>6. RuntimeMemories \in RefSets
    BY <1>1 DEF RuntimeMemories, RuntimePrivate, RefSets
<1>7. Current \in SUBSET Editions /\ RuntimeEditions \in SUBSET Editions
    BY DEF Current, RuntimeEditions
<1>8. {} \in RefSets /\ \A A, B \in RefSets : A \cup B \in RefSets /\ A \cap B \in RefSets
    BY DEF RefSets
<1>9. None \in Parts /\ SUBSET Editions \subseteq Parts /\ EpochPairs \subseteq Parts
    BY DEF Parts
<1>10. <<SemanticContents, Contents("shared")>> \in EpochPairs
    BY <1>4, <1>5 DEF EpochPairs
<1>11. expired \in SUBSET Memories
    BY DEF LanesOK
<1> QED
    BY <1>2, <1>3, <1>6, <1>7, <1>8, <1>9, <1>10, <1>11

LEMMA Lexicals ==
    ASSUME LanesOK, ShapeInv
    PROVE  /\ Lexical \in Recalls
           /\ Lexical.step = "memories" /\ Lexical.mode = "lexical" /\ Lexical.part = None
           /\ Lexical.lapsed = expired /\ Lexical.since = recall.since
           /\ Lexical.retired = recall.retired /\ Lexical.admitted = recall.admitted
           /\ Lexical.hits = {} /\ Lexical.ranked = {}
           /\ Lexical.memories = {} /\ Lexical.extras = {} /\ Lexical.editions = {}
BY Readings DEF ShapeInv, Recalls, Lexical, RecallSteps, Modes

LEMMA ShapeServes ==
    ASSUME LanesOK, ShapeInv, RecallStep, UNCHANGED laneVars
    PROVE  ShapeInv'
<1>1. expired' = expired /\ Recalls' = Recalls
    BY DEF laneVars
<1>2. recall \in Recalls /\ recall.lapsed \subseteq expired
    BY DEF ShapeInv
<1>3. ASSUME recall' = Lexical PROVE ShapeInv'
    BY <1>1, <1>3, Lexicals DEF ShapeInv, Vectors
<1>4. CASE ReadEpochs
    <2>1. recall' \in Recalls
        BY <1>2, <1>4, Readings DEF ReadEpochs, Recalls
    <2> QED
        BY <1>1, <1>2, <1>4, <2>1, Readings DEF ReadEpochs, ShapeInv, Recalls
<1>5. CASE Admit
    <2>1. CASE ~EpochsMatch
        BY <1>3, <1>5, <2>1 DEF Admit
    <2>2. CASE EpochsMatch
        <3>1. recall' = [recall EXCEPT !.step = "ids", !.part = None, !.lapsed = expired,
                                       !.admitted = Refs("active", expired)]
            BY <1>5, <2>2 DEF Admit
        <3>2. recall' \in Recalls
            BY <1>2, <3>1, Readings DEF Recalls, RecallSteps
        <3> QED
            BY <1>1, <1>2, <3>1, <3>2 DEF ShapeInv, Recalls
    <2> QED
        BY <2>1, <2>2
<1>6. CASE ReadIds
    <2>1. recall' \in Recalls
        BY <1>2, <1>6, Readings DEF ReadIds, Recalls, RecallSteps
    <2> QED
        BY <1>1, <1>2, <1>6, <2>1, Readings DEF ReadIds, ShapeInv, Recalls
<1>7. CASE Rank
    <2>1. recall.part \in SUBSET Editions
        BY <1>7 DEF Rank, On, ShapeInv
    <2>2. CASE recall' = [recall EXCEPT !.step = "failed"]
        BY <1>1, <1>2, <2>2 DEF ShapeInv, Recalls, RecallSteps
    <2>3. CASE recall' = [recall EXCEPT !.step = "second", !.part = None,
                              !.hits = RuntimeMemories \cap recall.admitted,
                              !.ranked = RuntimeEditions \cap recall.part]
        <3>1. RuntimeMemories \cap recall.admitted \in RefSets
            BY <1>2, Readings DEF Recalls
        <3>2. recall' \in Recalls
            BY <1>2, <2>1, <2>3, <3>1, Readings DEF Recalls, RecallSteps
        <3> QED
            BY <1>1, <1>2, <2>3, <3>2 DEF ShapeInv, Recalls
    <2> QED
        BY <1>3, <1>7, <2>2, <2>3 DEF Rank
<1>8. CASE SearchMemories
    <2> DEFINE M(mode) == IF mode = "semantic" THEN {} ELSE Refs("active", recall.lapsed)
               X == CandidatesFound(recall.lapsed)
    <2>1. X \in RefSets /\ \A mode : M(mode) \in RefSets
        BY Readings
    <2>2. \/ /\ recall.step = "memories"
             /\ recall' = [recall EXCEPT !.step = "editions", !.mode = recall.mode, !.part = None,
                               !.memories = M(recall.mode), !.extras = X]
          \/ recall' = [recall EXCEPT !.step = "hits", !.mode = recall.mode, !.part = None,
                            !.memories = M(recall.mode), !.extras = X]
          \/ recall' = [recall EXCEPT !.step = "editions", !.mode = "lexical", !.part = None,
                            !.memories = M("lexical"), !.extras = X, !.hits = {}, !.ranked = {}]
        BY <1>2, <1>8 DEF SearchMemories, Searched, Found, On, Recalls
    <2> HIDE DEF M, X
    <2>3. CASE /\ recall.step = "memories"
               /\ recall' = [recall EXCEPT !.step = "editions", !.mode = recall.mode, !.part = None,
                                 !.memories = M(recall.mode), !.extras = X]
        <3>1. recall' \in Recalls
            BY <1>2, <2>1, <2>3, Readings DEF Recalls, RecallSteps
        <3> QED
            BY <1>1, <1>2, <2>3, <3>1 DEF ShapeInv, Recalls
    <2>4. CASE recall' = [recall EXCEPT !.step = "hits", !.mode = recall.mode, !.part = None,
                              !.memories = M(recall.mode), !.extras = X]
        <3>1. recall' \in Recalls
            BY <1>2, <2>1, <2>4, Readings DEF Recalls, RecallSteps
        <3> QED
            BY <1>1, <1>2, <2>4, <3>1 DEF ShapeInv, Recalls
    <2>5. CASE recall' = [recall EXCEPT !.step = "editions", !.mode = "lexical", !.part = None,
                              !.memories = M("lexical"), !.extras = X, !.hits = {}, !.ranked = {}]
        <3>1. recall' \in Recalls
            BY <1>2, <2>1, <2>5, Readings DEF Recalls, RecallSteps, Modes
        <3> QED
            BY <1>1, <1>2, <2>5, <3>1 DEF ShapeInv, Recalls, Vectors
    <2> QED
        BY <2>2, <2>3, <2>4, <2>5
<1>9. CASE SearchEditions
    <2>1. HitsRead \in RefSets /\ recall.memories \cup HitsRead \in RefSets
        BY <1>2, Readings DEF HitsRead, Recalls
    <2>2. PICK M \in RefSets, P \in SUBSET Editions :
              recall' = [recall EXCEPT !.step = "hydrate", !.memories = M, !.part = P]
        <3>1. CASE On("hits")
            BY <1>2, <1>9, <2>1, <3>1, Readings DEF SearchEditions, On
        <3>2. CASE On("editions")
            <4>1. recall' = [recall EXCEPT !.step = "hydrate", !.memories = recall.memories,
                                           !.part = Current]
                BY <1>2, <1>9, <3>2 DEF SearchEditions, On, Recalls
            <4> QED
                BY <1>2, <4>1, Readings DEF Recalls
        <3> QED
            BY <1>9, <3>1, <3>2 DEF SearchEditions
    <2>3. recall' \in Recalls
        BY <1>2, <2>2, Readings DEF Recalls, RecallSteps
    <2> QED
        BY <1>1, <1>2, <2>2, <2>3 DEF ShapeInv, Recalls
<1>10. CASE Hydrate \/ ReadHits
    <2>1. recall.part \in SUBSET Editions
        BY <1>10 DEF Hydrate, ReadHits, On, ShapeInv
    <2>2. CASE recall' = [recall EXCEPT !.step = "failed"]
        BY <1>1, <1>2, <2>2 DEF ShapeInv, Recalls, RecallSteps
    <2>3. CASE \E s \in {"retain", "third"}, E \in SUBSET Editions :
                   recall' = [recall EXCEPT !.step = s, !.part = None, !.editions = E]
        <3>1. PICK s \in {"retain", "third"}, E \in SUBSET Editions :
                  recall' = [recall EXCEPT !.step = s, !.part = None, !.editions = E]
            BY <2>3
        <3>2. recall' \in Recalls
            BY <1>2, <3>1, Readings DEF Recalls, RecallSteps
        <3> QED
            BY <1>1, <1>2, <3>1, <3>2 DEF ShapeInv, Recalls
    <2> QED
        BY <1>2, <1>10, <2>1, <2>2, <2>3 DEF Hydrate, ReadHits, Recalls
<1>11. CASE Retain
    <2>1. PICK E \in SUBSET Editions, P \in SUBSET Editions, s \in {"done", "read"} :
              recall' = [recall EXCEPT !.editions = E, !.step = s,
                                       !.part = IF s = "done" THEN None ELSE P]
        <3>1. recall.editions \cap Current \in SUBSET Editions
              /\ recall.ranked \cap Current \in SUBSET Editions
            BY <1>2 DEF Recalls
        <3> QED
            BY <1>2, <1>11, <3>1 DEF Retain, Recalls
    <2>2. recall' \in Recalls
        BY <1>2, <2>1, Readings DEF Recalls, RecallSteps
    <2> QED
        BY <1>1, <1>2, <2>1, <2>2 DEF ShapeInv, Recalls
<1>12. CASE Conclude
    <2>1. CASE recall' = [recall EXCEPT !.step = "done", !.part = None]
        BY <1>1, <1>2, <2>1, Readings DEF ShapeInv, Recalls, RecallSteps
    <2> QED
        BY <1>3, <1>12, <2>1 DEF Conclude, Finish
<1> QED
    BY <1>4, <1>5, <1>6, <1>7, <1>8, <1>9, <1>10, <1>11, <1>12 DEF RecallStep

LEMMA ShapeNext ==
    ASSUME LanesOK, LanesOK', ShapeInv, [Next]_vars
    PROVE  ShapeInv'
<1>1. Recalls' = Recalls
    OBVIOUS
<1>2. CASE ChangeLane
    <2>1. Moved
        BY <1>2, LaneMoves DEF ChangeLane
    <2>2. recall' = recall \/ \E s \in {"nothing", "changed", "revoked"} :
                                  recall' = [recall EXCEPT !.since = s]
        BY <1>2 DEF ChangeLane, Disturb
    <2>3. expired \subseteq expired'
        BY <2>1 DEF Moved
    <2> QED
        BY <1>1, <2>2, <2>3 DEF ShapeInv, Recalls
<1>3. CASE AskRecall
    <2>1. PICK mode \in Modes, b \in BOOLEAN : Ask(mode, b)
        BY <1>3 DEF AskRecall
    <2> DEFINE s == IF mode \in Vectors THEN "first" ELSE "memories"
               R == {i \in Items : rows[i].state = "retired"}
    <2>2. /\ recall' = [NoRecall EXCEPT !.step = s, !.asked = mode, !.mode = mode,
                            !.candidates = b, !.lapsed = expired, !.retired = R]
          /\ expired' = expired
        BY <1>3, <2>1 DEF Ask, AskRecall, laneVars
    <2>3. s \in RecallSteps /\ s \in {"first", "memories"}
          /\ (s = "memories" => mode \notin Vectors)
          /\ R \in SUBSET Items /\ expired \in SUBSET Memories /\ {} \in RefSets /\ None \in Parts
        BY Readings DEF RecallSteps, LanesOK
    <2> HIDE DEF s, R
    <2>4. recall' \in Recalls
        BY <2>2, <2>3 DEF NoRecall, Recalls
    <2>5. recall'.step = s /\ recall'.mode = mode /\ recall'.part = None /\ recall'.lapsed = expired
        BY <2>2 DEF NoRecall
    <2> QED
        BY <1>1, <2>2, <2>3, <2>4, <2>5 DEF ShapeInv
<1>4. CASE ServeRecall
    BY <1>4, ShapeServes DEF ServeRecall
<1>5. CASE UNCHANGED <<laneVars, recall>>
    BY <1>1, <1>5 DEF ShapeInv, laneVars
<1> QED
    BY <1>2, <1>3, <1>4, <1>5 DEF Next, Asked, Serve, vars

LEMMA ShapeInit == Init => ShapeInv
<1> SUFFICES ASSUME Init PROVE ShapeInv
    OBVIOUS
<1>1. LanesOK
    BY NavInit DEF NavInv
<1> QED
    BY <1>1, Readings DEF Init, NoRecall, NavigationInit, ShapeInv, Recalls, RecallSteps

-----------------------------------------------------------------------------
(* What each step of a request makes of what it has                        *)
Goes(step, mode, part) ==
    /\ recall'.step = step /\ recall'.mode = mode /\ recall'.part = part
    /\ recall'.candidates = recall.candidates
    /\ recall'.retired = recall.retired /\ recall'.since = recall.since
Admits(lapsed, admitted) == recall'.lapsed = lapsed /\ recall'.admitted = admitted
Remembers(hits, memories, extras) ==
    recall'.hits = hits /\ recall'.memories = memories /\ recall'.extras = extras
Holds(ranked, editions) == recall'.ranked = ranked /\ recall'.editions = editions

SameAdmitted == Admits(recall.lapsed, recall.admitted)
SameMemories == Remembers(recall.hits, recall.memories, recall.extras)
SameEditions == Holds(recall.ranked, recall.editions)
Same == SameAdmitted /\ SameMemories /\ SameEditions

Wanted == IF recall.mode = "semantic" THEN {} ELSE Refs("active", recall.lapsed)
Extras == CandidatesFound(recall.lapsed)

LEMMA LexicalGoes ==
    ASSUME LanesOK, ShapeInv, recall' = Lexical
    PROVE  /\ Goes("memories", "lexical", None) /\ Admits(expired, recall.admitted)
           /\ Remembers({}, {}, {}) /\ Holds({}, {})
BY DEF Lexical, Goes, Admits, Remembers, Holds, ShapeInv, Recalls

LEMMA EpochsGo ==
    ASSUME ShapeInv, ReadEpochs
    PROVE  /\ recall.step \in {"first", "second", "third"}
           /\ Goes(recall.step, recall.mode, <<SemanticContents, Contents("shared")>>) /\ Same
BY DEF ReadEpochs, Goes, Same, SameAdmitted, SameMemories, SameEditions, Admits, Remembers, Holds,
       ShapeInv, Recalls

LEMMA AdmitGoes ==
    ASSUME ShapeInv, Admit
    PROVE  \/ recall' = Lexical
           \/ /\ Goes("ids", recall.mode, None) /\ Admits(expired, Refs("active", expired))
              /\ SameMemories /\ SameEditions
BY DEF Admit, Goes, Admits, SameMemories, SameEditions, Remembers, Holds, ShapeInv, Recalls

LEMMA IdsGo ==
    ASSUME ShapeInv, ReadIds
    PROVE  On("ids") /\ Goes("rank", recall.mode, Current) /\ Same
BY DEF ReadIds, Goes, Same, SameAdmitted, SameMemories, SameEditions, Admits, Remembers, Holds,
       ShapeInv, Recalls

LEMMA RankGoes ==
    ASSUME ShapeInv, Rank
    PROVE  /\ On("rank")
           /\ \/ recall' = Lexical
              \/ ~CanRead(recall.part) /\ Goes("failed", recall.mode, recall.part) /\ Same
              \/ /\ CanRead(recall.part) /\ Goes("second", recall.mode, None) /\ SameAdmitted
                 /\ Remembers(RuntimeMemories \cap recall.admitted, recall.memories, recall.extras)
                 /\ Holds(RuntimeEditions \cap recall.part, recall.editions)
<1> USE DEF Goes, Same, SameAdmitted, SameMemories, SameEditions, Admits, Remembers, Holds
<1>1. recall \in Recalls /\ On("rank")
    BY DEF ShapeInv, Rank
<1>2. CASE ~CanRead(recall.part)
    BY <1>1, <1>2 DEF Rank, Recalls
<1>3. CASE CanRead(recall.part)
    BY <1>1, <1>3 DEF Rank, Recalls
<1> QED
    BY <1>2, <1>3

LEMMA SearchGoes ==
    ASSUME ShapeInv, SearchMemories
    PROVE  /\ SameAdmitted
           /\ \/ /\ On("memories") /\ Goes("editions", recall.mode, None)
                 /\ Remembers(recall.hits, Wanted, Extras) /\ SameEditions
              \/ /\ On("second") /\ Goes("hits", recall.mode, None)
                 /\ Remembers(recall.hits, Wanted, Extras) /\ SameEditions
              \/ /\ On("second") /\ Goes("editions", "lexical", None)
                 /\ Remembers({}, Refs("active", recall.lapsed), Extras)
                 /\ Holds({}, recall.editions)
<1> USE DEF Goes, SameAdmitted, SameEditions, Admits, Remembers, Holds
<1>1. recall \in Recalls
    BY DEF ShapeInv
<1>2. CASE On("memories") /\ recall' = Searched(recall.mode, "editions")
    BY <1>1, <1>2 DEF Searched, Found, Wanted, Extras, Recalls
<1>3. CASE On("second") /\ recall' = Searched(recall.mode, "hits")
    BY <1>1, <1>3 DEF Searched, Found, Wanted, Extras, Recalls
<1>4. CASE /\ On("second")
           /\ recall' = [Searched("lexical", "editions") EXCEPT !.hits = {}, !.ranked = {}]
    BY <1>1, <1>4 DEF Searched, Found, Extras, Recalls
<1> QED
    BY <1>2, <1>3, <1>4 DEF SearchMemories, Compared

LEMMA EditionsGo ==
    ASSUME ShapeInv, SearchEditions
    PROVE  /\ SameAdmitted /\ SameEditions
           /\ \/ /\ On("hits")
                 /\ Goes("hydrate", recall.mode, IF recall.mode = "semantic" THEN {} ELSE Current)
                 /\ Remembers(recall.hits, recall.memories \cup HitsRead, recall.extras)
              \/ On("editions") /\ Goes("hydrate", recall.mode, Current) /\ SameMemories
<1> USE DEF Goes, SameAdmitted, SameMemories, SameEditions, Admits, Remembers, Holds
<1>1. recall \in Recalls
    BY DEF ShapeInv
<1>2. CASE On("hits") /\ recall' = [recall EXCEPT
               !.step = "hydrate", !.memories = @ \cup HitsRead,
               !.part = IF recall.mode = "semantic" THEN {} ELSE Current]
    BY <1>1, <1>2 DEF Recalls
<1>3. CASE On("editions") /\ recall' = [recall EXCEPT !.step = "hydrate", !.part = Current]
    BY <1>1, <1>3 DEF Recalls
<1> QED
    BY <1>2, <1>3 DEF SearchEditions

LEMMA HydrateGoes ==
    ASSUME ShapeInv, Hydrate
    PROVE  /\ On("hydrate") /\ SameAdmitted /\ SameMemories
           /\ \/ ~CanRead(recall.part) /\ Goes("failed", recall.mode, recall.part) /\ SameEditions
              \/ Goes("retain", recall.mode, None) /\ Holds(recall.ranked, recall.part)
BY DEF Hydrate, Goes, SameAdmitted, SameMemories, SameEditions, Admits, Remembers, Holds,
       ShapeInv, Recalls

LEMMA RetainGoes ==
    ASSUME ShapeInv, Retain
    PROVE  /\ On("retain") /\ SameAdmitted /\ SameMemories
           /\ Holds(recall.ranked, recall.editions \cap Current)
           /\ \/ Semantic /\ Goes("read", recall.mode, recall.ranked \cap Current)
              \/ ~Semantic /\ Goes("done", recall.mode, None)
BY DEF Retain, Goes, SameAdmitted, SameMemories, Admits, Remembers, Holds, Semantic,
       ShapeInv, Recalls

LEMMA HitsGo ==
    ASSUME ShapeInv, ReadHits
    PROVE  /\ On("read") /\ SameAdmitted /\ SameMemories
           /\ \/ ~CanRead(recall.part) /\ Goes("failed", recall.mode, recall.part) /\ SameEditions
              \/ /\ Goes("third", recall.mode, None)
                 /\ Holds(recall.ranked, recall.editions \cup recall.part)
BY DEF ReadHits, Goes, SameAdmitted, SameMemories, SameEditions, Admits, Remembers, Holds,
       ShapeInv, Recalls

LEMMA ConcludeGoes ==
    ASSUME ShapeInv, Conclude
    PROVE  /\ On("third") /\ recall.part # None
           /\ \/ recall' = Lexical
              \/ EpochsMatch /\ Goes("done", recall.mode, None) /\ Same
BY DEF Conclude, Compared, Finish, Goes, Same, SameAdmitted, SameMemories, SameEditions, Admits,
       Remembers, Holds, ShapeInv, Recalls

-----------------------------------------------------------------------------
(* Nothing that was retired before a request is read by it.                *)
LEMMA RetiredServes ==
    ASSUME LanesOK, ShapeInv, RetiredInv, RecallStep, UNCHANGED laneVars
    PROVE  RetiredInv'
<1> USE DEF Goes, Same, SameAdmitted, SameMemories, SameEditions, Admits, Remembers, Holds, On
<1>1. rows' = rows
    BY DEF laneVars
<1>2. /\ \A l : \A h \in Refs("active", l) \cup CandidatesFound(l) : h[1] \notin recall.retired
      /\ \A e \in Current : e \notin recall.retired
    BY DEF RetiredInv, Refs, Ref, CandidatesFound, Current, Live
<1>3. ASSUME recall' = Lexical PROVE RetiredInv'
    BY <1>1, <1>3, LexicalGoes DEF RetiredInv
<1>4. CASE ReadEpochs
    BY <1>1, <1>4, EpochsGo DEF RetiredInv
<1>5. CASE Admit
    BY <1>1, <1>2, <1>3, <1>5, AdmitGoes DEF RetiredInv
<1>6. CASE ReadIds
    BY <1>1, <1>2, <1>6, IdsGo DEF RetiredInv
<1>7. CASE Rank
    BY <1>1, <1>3, <1>7, RankGoes DEF RetiredInv
<1>8. CASE SearchMemories
    <2>1. \A h \in Wanted \cup Extras : h[1] \notin recall.retired
        BY <1>2 DEF Wanted, Extras
    <2>2. \A h \in recall'.admitted \cup recall'.hits \cup recall'.memories \cup recall'.extras :
              h[1] \notin recall'.retired
        BY <1>2, <1>8, <2>1, SearchGoes DEF RetiredInv
    <2> QED
        BY <1>1, <1>8, <2>2, SearchGoes DEF RetiredInv
<1>9. CASE SearchEditions
    BY <1>1, <1>2, <1>9, EditionsGo DEF RetiredInv, HitsRead
<1>10. CASE Hydrate
    BY <1>1, <1>10, HydrateGoes DEF RetiredInv
<1>11. CASE Retain
    BY <1>1, <1>2, <1>11, RetainGoes DEF RetiredInv
<1>12. CASE ReadHits
    BY <1>1, <1>12, HitsGo DEF RetiredInv
<1>13. CASE Conclude
    BY <1>1, <1>3, <1>13, ConcludeGoes DEF RetiredInv
<1> QED
    BY <1>4, <1>5, <1>6, <1>7, <1>8, <1>9, <1>10, <1>11, <1>12, <1>13 DEF RecallStep

(* An edition that was read is readable still, unless one was revoked.     *)
LEMMA FailServes ==
    ASSUME LanesOK, ShapeInv, FailInv, RecallStep, UNCHANGED laneVars
    PROVE  FailInv'
<1> USE DEF Goes, Same, SameAdmitted, SameMemories, SameEditions, Admits, Remembers, Holds, On
<1>1. rows' = rows
    BY DEF laneVars
<1>2. \A S : CanRead(S)' = CanRead(S)
    BY <1>1 DEF CanRead
<1>3. CanRead(Current) /\ CanRead({}) /\ \A S : CanRead(S \cap Current)
    BY DEF CanRead, Current, Live
<1>4. ASSUME recall' = Lexical PROVE FailInv'
    BY <1>4, LexicalGoes DEF FailInv
<1>5. CASE ReadEpochs
    BY <1>5, EpochsGo DEF FailInv
<1>6. CASE Admit
    BY <1>4, <1>6, AdmitGoes DEF FailInv
<1>7. CASE ReadIds
    BY <1>2, <1>3, <1>7, IdsGo DEF FailInv
<1>8. CASE Rank
    BY <1>4, <1>8, RankGoes DEF FailInv
<1>9. CASE SearchMemories
    BY <1>9, SearchGoes DEF FailInv
<1>10. CASE SearchEditions
    <2>1. recall'.part = {} \/ recall'.part = Current
        BY <1>10, EditionsGo
    <2>2. CanRead(recall.part)'
        BY <1>1, <1>3, <2>1 DEF CanRead
    <2> QED
        BY <1>10, <2>2, EditionsGo DEF FailInv
<1>11. CASE Hydrate
    BY <1>11, HydrateGoes DEF FailInv
<1>12. CASE Retain
    <2>1. recall'.part = recall.ranked \cap Current \/ recall'.step = "done"
        BY <1>12, RetainGoes
    <2>2. recall'.step = "done" \/ CanRead(recall.part)'
        BY <1>1, <1>3, <2>1 DEF CanRead
    <2> QED
        BY <1>12, <2>2, RetainGoes DEF FailInv
<1>13. CASE ReadHits
    BY <1>13, HitsGo DEF FailInv
<1>14. CASE Conclude
    BY <1>4, <1>14, ConcludeGoes DEF FailInv
<1> QED
    BY <1>5, <1>6, <1>7, <1>8, <1>9, <1>10, <1>11, <1>12, <1>13, <1>14 DEF RecallStep

-----------------------------------------------------------------------------
(* What the vectors were made from and is still as it was                  *)
LEMMA InRuntime ==
    ASSUME NEW m \in Memories, FirstRows[m].state = "active"
    PROVE  <<m, FirstRows[m].revision>> \in RuntimeMemories
<1> DEFINE x == <<m, FirstRows[m]>>
<1>1. x \in RuntimePrivate
    BY DEF RuntimePrivate
<1>2. <<x[1], x[2].revision>> \in RuntimeMemories
    BY <1>1 DEF RuntimeMemories
<1> QED
    BY <1>2

LEMMA Stands ==
    ASSUME LanesOK
    PROVE  /\ \A l : \A h \in Refs("active", l) : WasActive(h)
           /\ \A l : l \subseteq expired => Standing \subseteq Refs("active", l)
           /\ Standing \subseteq RuntimeMemories
           /\ SharedStands => Current = RuntimeEditions
           /\ SemanticContents = RuntimePrivate => RuntimeMemories \subseteq Standing
           /\ Contents("shared") = RuntimeShared[1] => SharedStands
<1>1. Memories \subseteq Items /\ Editions \subseteq Items /\ ItemsOf("shared") = Editions
    BY DEF Items, ItemsOf
<1>2. \A l : \A h \in Refs("active", l) : WasActive(h)
    BY <1>1 DEF LanesOK, Refs, Ref, WasActive
<1>3. \A l : l \subseteq expired => Standing \subseteq Refs("active", l)
    BY DEF Standing, Refs, Ref
<1>4. Standing \subseteq RuntimeMemories
    BY InRuntime DEF Standing
<1>5. SharedStands => Current = RuntimeEditions
    BY DEF SharedStands, Current, RuntimeEditions, Live
<1>6. ASSUME SemanticContents = RuntimePrivate PROVE RuntimeMemories \subseteq Standing
    <2> SUFFICES ASSUME NEW m \in Memories, FirstRows[m].state = "active"
                 PROVE  <<m, FirstRows[m].revision>> \in Standing
        BY DEF RuntimeMemories, RuntimePrivate
    <2>1. <<m, FirstRows[m]>> \in SemanticContents
        BY <1>6 DEF RuntimePrivate
    <2>2. rows[m] = FirstRows[m] /\ m \notin expired
        BY <2>1 DEF SemanticContents
    <2> QED
        BY <2>2 DEF Standing
<1>7. ASSUME Contents("shared") = RuntimeShared[1] PROVE SharedStands
    <2>1. [e \in Editions |-> rows[e]] = [e \in Editions |-> FirstRows[e]]
        BY <1>1, <1>7 DEF Contents, RuntimeShared
    <2> QED
        BY <2>1 DEF SharedStands
<1> QED
    BY <1>2, <1>3, <1>4, <1>5, <1>6, <1>7

(* A memory that was active once, and is so still when the private epoch   *)
(* is the one of the vectors, is one they were made from.                  *)
LEMMA Unchanged ==
    ASSUME LanesOK, SemanticContents = RuntimePrivate,
           NEW h \in Memories \X Nat, WasActive(h), Live(h[1]), h[1] \notin expired
    PROVE  h \in RuntimeMemories
<1>1. h[1] \in Memories /\ h[1] \in Items /\ h = <<h[1], h[2]>>
    BY DEF Items
<1>2. <<h[1], rows[h[1]]>> \in RuntimePrivate
    BY <1>1 DEF SemanticContents
<1>3. rows[h[1]] = FirstRows[h[1]] /\ FirstRows[h[1]].state = "active"
    BY <1>2 DEF RuntimePrivate
<1>4. h[2] = FirstRows[h[1]].revision
    BY <1>1, <1>3, FirstRowsAssumption DEF WasActive
<1> QED
    BY <1>1, <1>3, <1>4, InRuntime

LEMMA MemoriesServes ==
    ASSUME LanesOK, ShapeInv, MemoriesInv, RecallStep, UNCHANGED laneVars
    PROVE  MemoriesInv'
<1> USE DEF Goes, Same, SameAdmitted, SameMemories, SameEditions, Admits, Remembers, Holds, On,
            Semantic, Vectors
<1>1. rows' = rows /\ expired' = expired
    BY DEF laneVars
<1>2. /\ Standing' = Standing /\ \A h : WasActive(h)' = WasActive(h)
      /\ \A i : Live(i)' = Live(i)
    BY <1>1 DEF Standing, WasActive, Live
<1>3. recall.lapsed \subseteq expired
    BY DEF ShapeInv
<1>4. ASSUME recall' = Lexical PROVE MemoriesInv'
    BY <1>1, <1>2, <1>4, LexicalGoes DEF MemoriesInv
<1>5. CASE ReadEpochs
    <2>1. SemanticContents = RuntimePrivate /\ On("third") => Standing \subseteq recall.memories
        BY DEF MemoriesInv
    <2>2. recall.memories \subseteq Memories \X Nat
        BY DEF ShapeInv, Recalls, RefSets
    <2>3. SemanticContents = RuntimePrivate =>
              \A h \in recall.memories \ RuntimeMemories : ~Live(h[1]) \/ h[1] \in expired
        BY <2>2, Unchanged DEF MemoriesInv
    <2>4. recall'.part[1] = SemanticContents
        BY <1>5, EpochsGo
    <2> QED
        BY <1>1, <1>2, <1>5, <2>1, <2>3, <2>4, EpochsGo, Stands DEF MemoriesInv
<1>6. CASE Admit
    <2>1. Standing \subseteq Refs("active", expired)
          /\ \A h \in Refs("active", expired) : WasActive(h)
        BY Stands
    <2> QED
        BY <1>1, <1>2, <1>4, <1>6, <2>1, AdmitGoes DEF MemoriesInv
<1>7. CASE ReadIds
    BY <1>1, <1>2, <1>7, IdsGo DEF MemoriesInv
<1>8. CASE Rank
    BY <1>1, <1>2, <1>4, <1>8, RankGoes, Stands DEF MemoriesInv
<1>9. CASE SearchMemories
    <2>1. \A h \in Wanted \cup Refs("active", recall.lapsed) : WasActive(h)
        BY Stands DEF Wanted
    <2> QED
        BY <1>1, <1>2, <1>9, <2>1, SearchGoes DEF MemoriesInv
<1>10. CASE SearchEditions
    <2>1. Standing \subseteq Refs("active", recall.lapsed)
        BY <1>3, Stands
    <2>2. On("hits") => Standing \subseteq HitsRead
        BY <2>1 DEF HitsRead, MemoriesInv
    <2>3. HitsRead \subseteq recall.hits
        BY DEF HitsRead
    <2>4. On("editions") => ~Semantic
        BY DEF ShapeInv
    <2> QED
        BY <1>1, <1>2, <1>10, <2>2, <2>3, <2>4, EditionsGo DEF MemoriesInv
<1>11. CASE Hydrate
    BY <1>1, <1>2, <1>11, HydrateGoes DEF MemoriesInv
<1>12. CASE Retain
    BY <1>1, <1>2, <1>12, RetainGoes DEF MemoriesInv
<1>13. CASE ReadHits
    BY <1>1, <1>2, <1>13, HitsGo DEF MemoriesInv
<1>14. CASE Conclude
    BY <1>1, <1>2, <1>4, <1>14, ConcludeGoes DEF MemoriesInv, EpochsMatch
<1> QED
    BY <1>5, <1>6, <1>7, <1>8, <1>9, <1>10, <1>11, <1>12, <1>13, <1>14 DEF RecallStep

LEMMA EditionsServes ==
    ASSUME LanesOK, ShapeInv, EditionsInv, RecallStep, UNCHANGED laneVars
    PROVE  EditionsInv'
<1> USE DEF Goes, Same, SameAdmitted, SameMemories, SameEditions, Admits, Remembers, Holds, On,
            Semantic, Vectors
<1>1. SharedStands' = SharedStands
    BY DEF laneVars, SharedStands
<1>2. SharedStands => Current = RuntimeEditions
    BY Stands
<1>3. ASSUME recall' = Lexical PROVE EditionsInv'
    BY <1>1, <1>3, LexicalGoes DEF EditionsInv
<1>4. CASE ReadEpochs
    <2>1. recall'.part[2] = Contents("shared")
        BY <1>4, EpochsGo
    <2> QED
        BY <1>1, <1>4, <2>1, EpochsGo, Stands DEF EditionsInv
<1>5. CASE Admit
    BY <1>1, <1>3, <1>5, AdmitGoes DEF EditionsInv
<1>6. CASE ReadIds
    BY <1>1, <1>2, <1>6, IdsGo DEF EditionsInv
<1>7. CASE Rank
    BY <1>1, <1>3, <1>7, RankGoes DEF EditionsInv
<1>8. CASE SearchMemories
    BY <1>1, <1>8, SearchGoes DEF EditionsInv
<1>9. CASE SearchEditions
    <2>1. On("editions") => ~Semantic
        BY DEF ShapeInv
    <2> QED
        BY <1>1, <1>2, <1>9, <2>1, EditionsGo DEF EditionsInv
<1>10. CASE Hydrate
    BY <1>1, <1>10, HydrateGoes DEF EditionsInv
<1>11. CASE Retain
    BY <1>1, <1>2, <1>11, RetainGoes DEF EditionsInv
<1>12. CASE ReadHits
    BY <1>1, <1>12, HitsGo DEF EditionsInv
<1>13. CASE Conclude
    <2>1. EpochsMatch => recall.part[2] = RuntimeShared[1]
        BY DEF EpochsMatch, RuntimeShared
    <2> QED
        BY <1>1, <1>3, <1>13, <2>1, ConcludeGoes DEF EditionsInv
<1> QED
    BY <1>4, <1>5, <1>6, <1>7, <1>8, <1>9, <1>10, <1>11, <1>12, <1>13 DEF RecallStep

-----------------------------------------------------------------------------
LEMMA ModeServes ==
    ASSUME LanesOK, ShapeInv, ModeInv, RecallStep
    PROVE  ModeInv'
<1> USE DEF Goes, On, Semantic
<1>1. CASE ReadEpochs \/ ReadIds \/ SearchMemories \/ SearchEditions
    BY <1>1, EpochsGo, IdsGo, SearchGoes, EditionsGo DEF ModeInv
<1>2. CASE Hydrate \/ Retain \/ ReadHits
    BY <1>2, HydrateGoes, RetainGoes, HitsGo DEF ModeInv
<1>3. ASSUME recall' = Lexical PROVE ModeInv'
    BY <1>3, LexicalGoes DEF ModeInv
<1>4. CASE Rank \/ Conclude
    BY <1>3, <1>4, RankGoes, ConcludeGoes DEF ModeInv
<1>5. CASE Admit
    BY <1>3, <1>5, AdmitGoes DEF ModeInv, Admit, Compared
<1> QED
    BY <1>1, <1>2, <1>4, <1>5 DEF RecallStep

(* While nothing changes, what is read is what there is, and if that is    *)
(* what the vectors were made from they have it all.                       *)
LEMMA AtTheEnd ==
    ASSUME LanesOK, ShapeInv, ModeInv, MemoriesInv, EditionsInv, UndisturbedInv,
           Conclude, EpochsMatch, recall.since = "nothing"
    PROVE  /\ recall.memories = Refs("active", expired)
           /\ recall.editions = Current
<1>1. On("third") /\ recall.part # None
    BY ConcludeGoes
<1>2. SemanticContents = RuntimePrivate /\ Contents("shared") = RuntimeShared[1]
    BY <1>1 DEF UndisturbedInv, EpochsMatch, RuntimeShared, On
<1>3. recall.part[1] = RuntimePrivate /\ recall.part[2] = RuntimeShared[1]
    BY DEF EpochsMatch, RuntimeShared
<1>4. RuntimeMemories \subseteq recall.memories
    BY <1>1, <1>3 DEF MemoriesInv
<1>5. recall.memories \subseteq Refs("active", expired)
    BY <1>1 DEF UndisturbedInv, On
<1>6. Refs("active", expired) \subseteq RuntimeMemories
    <2> SUFFICES ASSUME NEW m \in Memories, rows[m].state = "active", m \notin expired
                 PROVE  Ref(m) \in RuntimeMemories
        BY DEF Refs
    <2>1. Ref(m) \in Refs("active", expired)
        BY DEF Refs
    <2>2. Ref(m) \in Memories \X Nat /\ WasActive(Ref(m))
        BY <2>1, Readings, Stands DEF RefSets
    <2> QED
        BY <1>2, <2>2, Unchanged DEF Ref, Live
<1>7. recall.editions = RuntimeEditions
    BY <1>1, <1>3 DEF EditionsInv
<1>8. Current = RuntimeEditions
    BY <1>2, Stands
<1> QED
    BY <1>4, <1>5, <1>6, <1>7, <1>8

LEMMA UndisturbedServes ==
    ASSUME LanesOK, ShapeInv, ModeInv, MemoriesInv, EditionsInv, UndisturbedInv, RecallStep,
           UNCHANGED laneVars
    PROVE  UndisturbedInv'
<1> USE DEF Goes, Same, SameAdmitted, SameMemories, SameEditions, Admits, Remembers, Holds, On,
            Semantic, Plain
<1>1. rows' = rows /\ expired' = expired /\ recall'.candidates = recall.candidates
      /\ recall'.since = recall.since /\ recall.step # "none"
    BY EpochsGo, AdmitGoes, IdsGo, RankGoes, SearchGoes, EditionsGo, HydrateGoes, RetainGoes,
       HitsGo, ConcludeGoes, LexicalGoes DEF RecallStep, laneVars, Admit, Compared
<1>2. Refs("active", expired)' = Refs("active", expired)
    BY <1>1 DEF Refs, Ref
<1>3. CandidatesFound(expired)' = CandidatesFound(expired)
    BY <1>1 DEF CandidatesFound, Refs, Ref
<1>4. Current' = Current /\ SemanticContents' = SemanticContents
      /\ Contents("shared")' = Contents("shared")
    BY <1>1 DEF Current, SemanticContents, Contents, Live
<1> HIDE DEF Plain
<1>5. SUFFICES ASSUME recall.since = "nothing" PROVE UndisturbedInv'
    BY <1>1 DEF UndisturbedInv
<1>6. recall.lapsed = expired
    BY <1>1, <1>5 DEF UndisturbedInv
<1>7. ASSUME recall' = Lexical PROVE UndisturbedInv'
    BY <1>1, <1>7, LexicalGoes DEF UndisturbedInv
<1>8. CASE ReadEpochs
    BY <1>1, <1>2, <1>3, <1>4, <1>5, <1>8, EpochsGo DEF UndisturbedInv, Plain
<1>9. CASE Admit
    BY <1>1, <1>2, <1>3, <1>4, <1>5, <1>7, <1>9, AdmitGoes DEF UndisturbedInv
<1>10. CASE ReadIds
    BY <1>1, <1>2, <1>3, <1>4, <1>5, <1>10, IdsGo DEF UndisturbedInv
<1>11. CASE Rank
    BY <1>1, <1>2, <1>3, <1>4, <1>5, <1>7, <1>11, RankGoes DEF UndisturbedInv
<1>12. CASE SearchMemories
    <2>1. On("memories") => Wanted = Refs("active", expired)
        BY <1>6 DEF Wanted, ShapeInv, Vectors
    <2>2. Wanted \subseteq Refs("active", expired) /\ Extras = CandidatesFound(expired)
        BY <1>6 DEF Wanted, Extras
    <2> QED
        BY <1>1, <1>2, <1>3, <1>4, <1>5, <1>6, <1>12, <2>1, <2>2, SearchGoes DEF UndisturbedInv
<1>13. CASE SearchEditions
    <2>1. On("hits") => HitsRead \subseteq Refs("active", expired)
        BY <1>1, <1>5 DEF HitsRead, UndisturbedInv
    <2>2. On("hits") => Semantic /\ ~Plain
        BY DEF ModeInv, Plain
    <2>3. On("editions") => ~Semantic /\ Plain
        BY DEF ShapeInv, Plain
    <2>4. Plain' = Plain
        BY <1>13, EditionsGo DEF Plain
    <2> QED
        BY <1>1, <1>2, <1>3, <1>4, <1>5, <1>13, <2>1, <2>2, <2>3, <2>4, EditionsGo
           DEF UndisturbedInv
<1>14. CASE Hydrate
    <2>1. Plain' = Plain
        BY <1>14, HydrateGoes DEF Plain
    <2> QED
        BY <1>1, <1>2, <1>3, <1>4, <1>5, <1>14, <2>1, HydrateGoes DEF UndisturbedInv
<1>15. CASE Retain
    <2>1. Plain' = Plain /\ (Plain <=> ~Semantic)
        BY <1>15, RetainGoes DEF Plain
    <2> QED
        BY <1>1, <1>2, <1>3, <1>4, <1>5, <1>15, <2>1, RetainGoes DEF UndisturbedInv
<1>16. CASE ReadHits
    BY <1>1, <1>2, <1>3, <1>4, <1>5, <1>16, HitsGo DEF UndisturbedInv
<1>17. CASE Conclude
    <2>1. CASE recall' = Lexical
        BY <1>7, <2>1
    <2>2. CASE EpochsMatch /\ Goes("done", recall.mode, None) /\ Same
        <3>1. recall.memories = Refs("active", expired) /\ recall.editions = Current
            BY <1>5, <1>17, <2>2, AtTheEnd
        <3>2. recall.extras = CandidatesFound(expired)
            BY <1>1, <1>5, <1>17, ConcludeGoes DEF UndisturbedInv
        <3> QED
            BY <1>1, <1>2, <1>3, <1>4, <1>6, <2>2, <3>1, <3>2 DEF UndisturbedInv
    <2> QED
        BY <1>17, <2>1, <2>2, ConcludeGoes
<1> QED
    BY <1>8, <1>9, <1>10, <1>11, <1>12, <1>13, <1>14, <1>15, <1>16, <1>17 DEF RecallStep

-----------------------------------------------------------------------------
RecallInv ==
    /\ ShapeInv /\ ModeInv
    /\ MemoriesInv /\ EditionsInv
    /\ RetiredInv /\ FailInv /\ UndisturbedInv

(* A change of a lane: what was read is kept, what has changed never again *)
(* is what the vectors were made from, and the request knows it has been   *)
(* disturbed.                                                              *)
LEMMA Disturbed ==
    ASSUME ShapeInv, Disturb
    PROVE  /\ On("none") => recall' = recall
           /\ ~On("none") => recall'.since # "nothing"
           /\ recall'.since # "revoked" => recall.since # "revoked"
           /\ ~On("none") /\ recall'.since # "revoked" => ~Revoking
           /\ recall.since = "revoked" => recall'.since = "revoked"
           /\ recall'.step = recall.step /\ recall'.mode = recall.mode /\ recall'.part = recall.part
           /\ recall'.retired = recall.retired /\ recall'.candidates = recall.candidates
           /\ Same
<1> USE DEF Same, SameAdmitted, SameMemories, SameEditions, Admits, Remembers, Holds
<1>1. CASE On("none")
    BY <1>1 DEF Disturb, On
<1>2. CASE ~On("none")
    <2>1. recall' = [recall EXCEPT !.since =
              IF Revoking \/ recall.since = "revoked" THEN "revoked" ELSE "changed"]
        BY <1>2 DEF Disturb, ShapeInv, Recalls
    <2> QED
        BY <1>2, <2>1 DEF On, ShapeInv, Recalls
<1> QED
    BY <1>1, <1>2

LEMMA RecallMoves ==
    ASSUME LanesOK, RecallInv, ChangeLane
    PROVE  MemoriesInv' /\ EditionsInv' /\ RetiredInv' /\ FailInv' /\ UndisturbedInv' /\ ModeInv'
<1> USE DEF Same, SameAdmitted, SameMemories, SameEditions, Admits, Remembers, Holds, On
<1>1. Moved /\ ShapeInv
    BY LaneMoves DEF ChangeLane, RecallInv
<1>2. Disturb /\ recall \in Recalls
    BY DEF ChangeLane, RecallInv, ShapeInv
<1>3. /\ recall.admitted \cup recall.hits \cup recall.memories \subseteq Memories \X Nat
      /\ recall.retired \subseteq Items
    BY <1>2 DEF Recalls, RefSets
<1>4. /\ \A m \in Memories : m \in Items /\ (rows'[m] = FirstRows[m] => rows[m] = FirstRows[m])
      /\ \A e \in Editions : e \in Items /\ (rows'[e] = FirstRows[e] => rows[e] = FirstRows[e])
    BY <1>1, FirstRowsAssumption DEF Moved, LanesOK, Items
<1>5. Standing' \subseteq Standing
    BY <1>1, <1>4 DEF Standing, Moved
<1>6. SharedStands' => SharedStands
    BY <1>4 DEF SharedStands
<1>7. \A h \in Memories \X Nat : WasActive(h) => WasActive(h)'
    <2> SUFFICES ASSUME NEW h \in Memories \X Nat, WasActive(h) PROVE WasActive(h)'
        OBVIOUS
    <2>1. h[1] \in Memories /\ h[1] \in Items
        BY <1>4
    <2>2. rows'[h[1]].state \in {"active", "retired"}
        BY <1>1, <2>1 DEF WasActive, Moved
    <2>3. rows'[h[1]].at = 0 => rows'[h[1]] = rows[h[1]]
        BY <1>1, <2>1 DEF Moved, LanesOK
    <2> QED
        BY <2>2, <2>3 DEF WasActive
<1>8. \A h \in Memories \X Nat :
          WasActive(h) /\ (~Live(h[1]) \/ h[1] \in expired) => (~Live(h[1]) \/ h[1] \in expired)'
    <2> SUFFICES ASSUME NEW h \in Memories \X Nat, WasActive(h), ~Live(h[1]) \/ h[1] \in expired
                 PROVE  (~Live(h[1]) \/ h[1] \in expired)'
        OBVIOUS
    <2>1. h[1] \in Items
        BY <1>4
    <2>2. CASE ~Live(h[1])
        BY <1>1, <2>1, <2>2 DEF WasActive, Live, Moved
    <2>3. CASE h[1] \in expired
        BY <1>1, <2>3 DEF Moved
    <2> QED
        BY <2>2, <2>3
<1>9. MemoriesInv'
    BY <1>1, <1>2, <1>3, <1>5, <1>7, <1>8, Disturbed DEF RecallInv, MemoriesInv, Semantic
<1>10. EditionsInv'
    BY <1>1, <1>2, <1>6, Disturbed DEF RecallInv, EditionsInv, Semantic
<1>11. RetiredInv'
    BY <1>1, <1>2, <1>3, Disturbed DEF RecallInv, RetiredInv, Moved
<1>12. FailInv'
    <2>1. recall.step \in {"rank", "hydrate", "read"} => recall.part \subseteq Editions
        BY <1>1 DEF ShapeInv
    <2>2. ASSUME recall.step \in {"rank", "hydrate", "read"}, recall'.since # "revoked"
          PROVE  CanRead(recall.part)'
        <3>1. CanRead(recall.part) /\ ~Revoking /\ recall'.part = recall.part
            BY <1>1, <1>2, <2>2, Disturbed DEF RecallInv, FailInv
        <3> QED
            BY <1>1, <2>1, <2>2, <3>1 DEF CanRead, Revoking
    <2> QED
        BY <1>1, <1>2, <2>2, Disturbed DEF RecallInv, FailInv
<1>13. UndisturbedInv'
    BY <1>1, <1>2, Disturbed DEF UndisturbedInv
<1>14. ModeInv'
    BY <1>1, <1>2, Disturbed DEF RecallInv, ModeInv, Semantic
<1> QED
    BY <1>9, <1>10, <1>11, <1>12, <1>13, <1>14

LEMMA RecallBegins ==
    ASSUME LanesOK, AskRecall
    PROVE  MemoriesInv' /\ EditionsInv' /\ RetiredInv' /\ FailInv' /\ UndisturbedInv' /\ ModeInv'
<1>1. PICK mode \in Modes, b \in BOOLEAN : Ask(mode, b)
    BY DEF AskRecall
<1>2. /\ recall'.step \in {"first", "memories"} /\ (recall'.step = "first" => mode \in Vectors)
      /\ recall'.mode = mode /\ recall'.part = None /\ recall'.lapsed = expired
      /\ recall'.since = "nothing" /\ recall'.retired = {i \in Items : rows[i].state = "retired"}
      /\ recall'.admitted = {} /\ recall'.hits = {} /\ recall'.ranked = {}
      /\ recall'.memories = {} /\ recall'.extras = {} /\ recall'.editions = {}
    BY <1>1 DEF Ask, NoRecall
<1>3. rows' = rows /\ expired' = expired
    BY DEF AskRecall, laneVars
<1> USE DEF On, Semantic
<1>4. MemoriesInv' /\ EditionsInv'
    BY <1>2 DEF MemoriesInv, EditionsInv
<1>5. RetiredInv' /\ FailInv' /\ ModeInv'
    BY <1>2, <1>3 DEF RetiredInv, FailInv, ModeInv
<1>6. UndisturbedInv'
    BY <1>2, <1>3 DEF UndisturbedInv
<1> QED
    BY <1>4, <1>5, <1>6

LEMMA RecallInit == Init => RecallInv
<1> SUFFICES ASSUME Init PROVE RecallInv
    OBVIOUS
<1>1. /\ recall.step = "none" /\ recall.mode = "none" /\ recall.retired = {}
      /\ recall.admitted = {} /\ recall.hits = {} /\ recall.memories = {} /\ recall.extras = {}
      /\ recall.ranked = {} /\ recall.editions = {}
    BY DEF Init, NoRecall
<1> QED
    BY <1>1, ShapeInit DEF RecallInv, ModeInv, MemoriesInv, EditionsInv, RetiredInv, FailInv,
                           UndisturbedInv, On

LEMMA RecallNext == LanesOK /\ LanesOK' /\ RecallInv /\ [Next]_vars => RecallInv'
<1> SUFFICES ASSUME LanesOK, LanesOK', RecallInv, [Next]_vars PROVE RecallInv'
    OBVIOUS
<1>1. ShapeInv'
    BY ShapeNext DEF RecallInv
<1>2. CASE ChangeLane
    BY <1>1, <1>2, RecallMoves DEF RecallInv
<1>3. CASE AskRecall
    BY <1>1, <1>3, RecallBegins DEF RecallInv
<1>4. CASE ServeRecall
    <2>1. RecallStep /\ UNCHANGED laneVars
        BY <1>4 DEF ServeRecall
    <2> QED
        BY <1>1, <2>1, ModeServes, MemoriesServes, EditionsServes, RetiredServes, FailServes,
           UndisturbedServes DEF RecallInv
<1>5. CASE UNCHANGED <<laneVars, recall>>
    <2>1. rows' = rows /\ expired' = expired /\ recall' = recall
        BY <1>5 DEF laneVars
    <2>2. /\ Standing' = Standing /\ SharedStands' = SharedStands
          /\ Current' = Current /\ SemanticContents' = SemanticContents
          /\ Contents("shared")' = Contents("shared")
          /\ Refs("active", expired)' = Refs("active", expired)
          /\ CandidatesFound(expired)' = CandidatesFound(expired)
        BY <2>1 DEF Standing, SharedStands, Current, SemanticContents, Contents, Refs, Ref,
                    CandidatesFound, Live
    <2>3. ModeInv' /\ MemoriesInv'
        BY <2>1, <2>2 DEF RecallInv, ModeInv, MemoriesInv, WasActive, Live, Semantic, On
    <2>4. EditionsInv' /\ RetiredInv' /\ FailInv'
        BY <2>1, <2>2 DEF RecallInv, EditionsInv, RetiredInv, FailInv, CanRead, Semantic, On
    <2>5. UndisturbedInv'
        BY <2>1, <2>2 DEF RecallInv, UndisturbedInv, Semantic, Plain, On
    <2> QED
        BY <1>1, <2>3, <2>4, <2>5 DEF RecallInv
<1> QED
    BY <1>2, <1>3, <1>4, <1>5 DEF Next, Asked, Serve, vars

-----------------------------------------------------------------------------
(* What a request for recall has read is still so, or it finds out, or it  *)
(* makes no difference to what is promised of the answer.                  *)
THEOREM RecallInvariant == Spec => []RecallInv
<1>1. NavInv => LanesOK
    BY DEF NavInv
<1> QED
    BY <1>1, NavigationInvariant, RecallInit, RecallNext, PTL DEF Spec

(* Every variable keeps its type, for any number of memories, editions,    *)
(* requests and changes.                                                   *)
THEOREM TypeCorrect == Spec => []TypeOK
<1>1. NavInv /\ RecallInv => TypeOK
    <2> SUFFICES ASSUME NavInv, RecallInv PROVE TypeOK
        OBVIOUS
    <2>1. \A c \in Routers : call[c] \in Calls /\ CallOK(call[c])
        BY DEF NavInv
    <2>2. \A c \in Routers : call[c].part # None =>
              call[c].part \in IF call[c].step \in EpochSteps THEN [LaneItems -> Rows] ELSE Entries
        BY <2>1 DEF CallOK
    <2>3. NavigationTypeOK
        BY <2>1, <2>2 DEF NavInv, LanesOK, NavigationTypeOK, Calls
    <2>4. recall \in Recalls
        BY DEF RecallInv, ShapeInv
    <2> QED
        BY <2>3, <2>4 DEF RecallInv, ShapeInv, Recalls, RefSets, TypeOK
<1> QED
    BY <1>1, NavigationInvariant, RecallInvariant, PTL

(* An answer that vectors were used for holds what they were made from,    *)
(* and nothing that was active since.                                      *)
THEOREM VectorsExactHolds == Spec => []VectorsExact
<1>1. RecallInv => VectorsExact
    BY DEF RecallInv, MemoriesInv, EditionsInv, VectorsExact, Semantic
<1> QED
    BY <1>1, RecallInvariant, PTL

(* Nothing that was retired before the request is in an answer.            *)
THEOREM RetiredStaysOutHolds == Spec => []RetiredStaysOut
<1>1. RecallInv => RetiredStaysOut
    BY DEF RecallInv, RetiredInv, RetiredStaysOut, Ids
<1> QED
    BY <1>1, RecallInvariant, PTL

(* A request during which nothing has changed is answered completely, in   *)
(* every mode.                                                             *)
THEOREM UndisturbedCompleteHolds == Spec => []UndisturbedComplete
<1>1. RecallInv => UndisturbedComplete
    BY DEF RecallInv, UndisturbedInv, UndisturbedComplete, On
<1> QED
    BY <1>1, RecallInvariant, PTL

(* No request fails unless an edition was revoked while it was under way.  *)
THEOREM FailsOnRevocationOnlyHolds == Spec => []FailsOnRevocationOnly
<1>1. RecallInv => FailsOnRevocationOnly
    BY DEF RecallInv, FailInv, FailsOnRevocationOnly
<1> QED
    BY <1>1, RecallInvariant, PTL
-----------------------------------------------------------------------------
(* The vectors (module SemanticProjection).                                *)

(* A file has vectors only of documents of the snapshot it is made from,   *)
(* by the endpoint of that snapshot, and none before it says what that is. *)
Sound(f) ==
    /\ f.of = {} => f.vectors = {}
    /\ f.status \in {Unset, "created"} => f.vectors = {}
    /\ \A s \in f.of, v \in f.vectors : v.by = s.endpoint /\ v.document \in s.documents

(* What is complete has all of them, and the snapshot has all of its epoch. *)
Whole(f) ==
    /\ f.status = "complete" /\ Sound(f)
    /\ f.of # {}
    /\ \A s \in f.of : /\ s.epoch \subseteq s.documents
                       /\ s.documents = {v.document : v \in f.vectors}

(* Of a snapshot that is being taken, what was in the epoch is live or     *)
(* gone, and in the end either collected or gone; once the epoch is found  *)
(* to stand, it has all been collected.                                    *)
Collected(b) ==
    /\ Doing(b, "collect") => Of(b).epoch \subseteq live \cup gone
    /\ Doing(b, "compare") => Of(b).epoch \subseteq Of(b).documents \cup gone
    /\ job[b].step \in {"lock"} \cup Building => Of(b).epoch \subseteq Of(b).documents

Labelling(b) ==
    /\ Doing(b, "label") => staging.vectors = {}
    /\ Doing(b, "embed") => staging.status = "in_progress"
Installable(b) == Doing(b, "install") => Whole(staging)

BuildInv ==
    /\ ProjectionTypeOK
    /\ StagedAlone
    /\ Sound(staging)
    /\ \A b \in Builders : Collected(b) /\ Labelling(b) /\ Installable(b)
    /\ projection # NoFile => Whole(projection)
    /\ reader # NoReader => /\ Whole(reader.file)
                            /\ Valid(reader.file, reader.of)

-----------------------------------------------------------------------------
(* A builder that is at work has one snapshot.                             *)
LEMMA SnapshotOf ==
    ASSUME ProjectionTypeOK, NEW b \in Builders, ~Doing(b, "idle")
    PROVE  Of(b) \in Snapshots /\ job[b].of = {Of(b)}
<1>1. job[b].of # {}
    BY DEF ProjectionTypeOK
<1>2. PICK s \in Snapshots : job[b].of = {s}
    BY <1>1 DEF ProjectionTypeOK
<1>3. Of(b) \in job[b].of
    BY <1>2 DEF Of
<1> QED
    BY <1>2, <1>3

LEMMA BuildInit == ProjectionInit => BuildInv
<1> SUFFICES ASSUME ProjectionInit PROVE BuildInv
    OBVIOUS
<1>1. endpoint \in Endpoints
    BY ConstantsAssumption DEF ProjectionInit
<1>2. NoFile \in Files /\ Sound(NoFile)
    BY DEF NoFile, Files, Sound, Unset
<1>3. ProjectionTypeOK
    BY <1>1, <1>2 DEF ProjectionInit, ProjectionTypeOK, NoJob, NoReader, Building, Doing
<1>4. StagedAlone
    BY ConstantsAssumption DEF ProjectionInit, StagedAlone, NoJob, Building, Unset
<1> QED
    BY <1>2, <1>3, <1>4 DEF ProjectionInit, BuildInv, Collected, Labelling, Installable, NoJob,
                            Building, Doing

-----------------------------------------------------------------------------
(* The file a builder works on is the only thing others can disturb it by, *)
(* and while it holds the lock nobody touches that.                        *)
LEMMA LockAlone ==
    ASSUME BuildInv, NEW b \in Builders, NEW c \in Builders,
           job[b].step \in Building, job[c].step \in Building
    PROVE  b = c
BY DEF BuildInv, StagedAlone

LEMMA LaneStep ==
    ASSUME BuildInv,
           \/ \E d \in Documents : LaneChanges(d)
           \/ \E e \in Endpoints : EndpointChanges(e)
    PROVE  BuildInv'
<1>1. UNCHANGED <<staging, projection, lock, job, reader>>
    BY DEF LaneChanges, EndpointChanges, fileVars
<1>2. ProjectionTypeOK'
    BY <1>1 DEF BuildInv, ProjectionTypeOK, LaneChanges, EndpointChanges, documentVars, Doing
<1>3. \A b \in Builders : Collected(b)'
    BY <1>1 DEF BuildInv, Collected, LaneChanges, EndpointChanges, Doing, Of
<1> QED
    BY <1>1, <1>2, <1>3 DEF BuildInv, StagedAlone, Labelling, Installable, Doing, Of, Whole,
                            Sound, Valid

LEMMA ReaderStep ==
    ASSUME BuildInv, RankOpen \/ RankRead
    PROVE  BuildInv'
<1>1. UNCHANGED <<live, gone, endpoint, former, staging, projection, lock, job>>
    BY DEF RankOpen, RankRead, fileVars, documentVars
<1>2. NoReader \in [of : {{}} \cup {{s} : s \in Snapshots}, file : Files]
    BY DEF NoReader, Files, NoFile, Unset
<1>3. /\ reader' \in [of : {{}} \cup {{s} : s \in Snapshots}, file : Files]
      /\ reader' # NoReader => Whole(reader'.file) /\ Valid(reader'.file, reader'.of)
  <2>1. CASE RankRead
    BY <2>1, <1>2 DEF RankRead
  <2>2. CASE RankOpen
    <3>1. PICK e \in former \cup {endpoint}, epoch \in SUBSET (live \cup gone) :
              LET of == {[endpoint |-> e, epoch |-> epoch, documents |-> {}]}
              IN Valid(projection, of) /\ reader' = [of |-> of, file |-> projection]
        BY <2>2 DEF RankOpen
    <3> DEFINE s == [endpoint |-> e, epoch |-> epoch, documents |-> {}]
    <3>2. s \in Snapshots
        BY DEF BuildInv, ProjectionTypeOK, Snapshots
    <3>3. projection # NoFile
        BY <3>1 DEF Valid, NoFile, Unset
    <3> QED
        BY <3>1, <3>2, <3>3 DEF BuildInv, ProjectionTypeOK
  <2> QED
    BY <2>1, <2>2
<1>4. ProjectionTypeOK'
    BY <1>1, <1>3 DEF BuildInv, ProjectionTypeOK, Doing
<1> QED
    BY <1>1, <1>3, <1>4 DEF BuildInv, StagedAlone, Collected, Labelling, Installable, Doing, Of,
                            Whole, Sound

-----------------------------------------------------------------------------
(* Before the lock is taken a builder touches no file.                     *)
LEMMA SnapshotStep ==
    ASSUME BuildInv, NEW b \in Builders, Begin(b) \/ CollectDocuments(b) \/ Compare(b)
    PROVE  BuildInv'
<1>1. UNCHANGED <<live, gone, endpoint, former, staging, projection, lock, reader>>
    BY DEF Begin, CollectDocuments, Compare, Keep, documentVars, fileVars
<1> DEFINE Job == [step : {"collect", "compare", "lock"}, of : {{s} : s \in Snapshots}]
<1>2. PICK r \in Job :
          /\ job' = [job EXCEPT ![b] = r]
          /\ r.step = "collect" => \A s \in r.of : s.epoch \subseteq live \cup gone
          /\ r.step = "compare" => \A s \in r.of : s.epoch \subseteq s.documents \cup gone
          /\ r.step = "lock" => \A s \in r.of : s.epoch \subseteq s.documents
  <2>1. CASE Begin(b)
    <3> DEFINE s == [endpoint |-> endpoint, epoch |-> live, documents |-> {}]
    <3>1. s \in Snapshots /\ s.epoch \subseteq live \cup gone
        BY DEF BuildInv, ProjectionTypeOK, Snapshots
    <3>2. [step |-> "collect", of |-> {s}] \in Job
        BY <3>1
    <3> QED
        BY <2>1, <3>1, <3>2 DEF Begin
  <2>2. CASE CollectDocuments(b)
    <3>1. Of(b) \in Snapshots
        BY <2>2, SnapshotOf DEF BuildInv, CollectDocuments, Doing
    <3> DEFINE s == [Of(b) EXCEPT !.documents = live]
    <3>2. s \in Snapshots
        BY <3>1 DEF BuildInv, ProjectionTypeOK, Snapshots
    <3>3. [step |-> "compare", of |-> {s}] \in Job
        BY <3>2
    <3>4. s.epoch \subseteq s.documents \cup gone
        BY <3>1, <2>2 DEF BuildInv, Collected, CollectDocuments, Snapshots
    <3> QED
        BY <2>2, <3>3, <3>4 DEF CollectDocuments
  <2>3. CASE Compare(b)
    <3>1. Of(b) \in Snapshots /\ job[b].of = {Of(b)}
        BY <2>3, SnapshotOf DEF BuildInv, Compare, Move, Doing
    <3> DEFINE r == [job[b] EXCEPT !.step = "lock"]
    <3>2. r \in Job
        BY <3>1 DEF BuildInv, ProjectionTypeOK
    <3>3. job' = [job EXCEPT ![b] = r]
        BY <2>3 DEF Compare, Move
    <3>4. Of(b).epoch \subseteq Of(b).documents
        BY <2>3 DEF BuildInv, ProjectionTypeOK, Collected, Compare, EpochStands, Move
    <3> QED
        BY <3>1, <3>2, <3>3, <3>4
  <2> QED
    BY <2>1, <2>2, <2>3
<1>3. /\ job'[b] = r
      /\ \A c \in Builders \ {b} : job'[c] = job[c]
    BY <1>2 DEF BuildInv, ProjectionTypeOK
<1>4. ProjectionTypeOK'
  <2>1. job' \in [Builders -> [step : {"idle", "collect", "compare", "lock"} \cup Building,
                              of : {{}} \cup {{s} : s \in Snapshots}]]
    BY <1>2 DEF BuildInv, ProjectionTypeOK
  <2> QED
    BY <1>1, <1>2, <1>3, <2>1 DEF BuildInv, ProjectionTypeOK, Doing
<1>5. lock # b /\ r.step \notin Building /\ job[b].step \notin Building
    BY <1>2 DEF BuildInv, StagedAlone, Building, Begin, CollectDocuments, Compare, Move, Doing
<1>6. StagedAlone'
    BY <1>1, <1>2, <1>3, <1>5 DEF BuildInv, StagedAlone, Of, Building
<1>7. \A c \in Builders : Collected(c)' /\ Labelling(c)' /\ Installable(c)'
    BY <1>1, <1>2, <1>3, <1>5 DEF BuildInv, Collected, Labelling, Installable, Doing, Of,
                                  Building, Whole, Sound
<1> QED
    BY <1>1, <1>4, <1>6, <1>7 DEF BuildInv, Whole, Sound, Valid

(* Taking the lock, and giving up, which frees it                          *)
LEMMA LockStep ==
    ASSUME BuildInv, NEW b \in Builders, Lock(b) \/ Stop(b)
    PROVE  BuildInv'
<1>1. UNCHANGED <<live, gone, endpoint, former, staging, projection, reader>>
    BY DEF Lock, Stop, Keep, documentVars, fileVars
<1> DEFINE Jobs == [Builders -> [step : {"idle", "collect", "compare", "lock"} \cup Building,
                               of : {{}} \cup {{s} : s \in Snapshots}]]
<1>2. /\ \A c \in Builders \ {b} : job'[c] = job[c]
      /\ \/ job'[b].step = "open" /\ job'[b].of = job[b].of /\ lock = Unset /\ lock' = b
            /\ job[b].step = "lock"
         \/ job'[b] = NoJob /\ lock' = (IF lock = b THEN Unset ELSE lock)
      /\ job' \in Jobs
  <2>1. job \in Jobs
    BY DEF BuildInv, ProjectionTypeOK
  <2>2. CASE Lock(b)
    BY <2>1, <2>2 DEF Lock, Move, Doing, Building
  <2>3. CASE Stop(b)
    BY <2>1, <2>3 DEF Stop, Freed, NoJob
  <2> QED
    BY <2>2, <2>3
<1>3. ProjectionTypeOK'
    BY <1>1, <1>2 DEF BuildInv, ProjectionTypeOK, Doing, NoJob
<1>4. \A c \in Builders : lock' = c <=> job'[c].step \in Building
    BY <1>2, ConstantsAssumption DEF BuildInv, StagedAlone, Building, NoJob, Unset
<1>5. \A c \in Builders : job'[c].step \in {"embed", "install"} => job'[c] = job[c]
    BY <1>2 DEF NoJob
<1>6. StagedAlone'
    BY <1>1, <1>4, <1>5 DEF BuildInv, StagedAlone, Of
<1>7. \A c \in Builders : Collected(c)' /\ Labelling(c)' /\ Installable(c)'
    BY <1>1, <1>2 DEF BuildInv, Collected, Labelling, Installable, Doing, Of, Building, Whole,
                      Sound, NoJob
<1> QED
    BY <1>1, <1>3, <1>6, <1>7 DEF BuildInv, Whole, Sound, Valid

-----------------------------------------------------------------------------
(* Under the lock: one builder has the staging file to itself, and only    *)
(* what it makes of it remains to be shown.                                *)
LEMMA StagingStep ==
    ASSUME BuildInv, NEW b \in Builders, job[b].step \in Building,
           NEW to \in Building, job' = [job EXCEPT ![b].step = to],
           UNCHANGED <<live, gone, endpoint, former, projection, lock, reader>>,
           staging' \in Files, Sound(staging'),
           to \in {"embed", "install"} => staging'.of = {Of(b)},
           to = "label" => staging'.vectors = {},
           to = "embed" => staging'.status = "in_progress",
           to = "install" => Whole(staging')
    PROVE  BuildInv'
<1>1. Of(b) \in Snapshots /\ job[b].of = {Of(b)}
    BY SnapshotOf DEF BuildInv, Building, Doing
<1>2. /\ \A c \in Builders \ {b} : job'[c] = job[c] /\ job[c].step \notin Building
      /\ job'[b].step = to /\ job'[b].of = job[b].of
      /\ job' \in [Builders -> [step : {"idle", "collect", "compare", "lock"} \cup Building,
                               of : {{}} \cup {{s} : s \in Snapshots}]]
    BY LockAlone DEF BuildInv, ProjectionTypeOK
<1>3. ProjectionTypeOK'
    BY <1>1, <1>2 DEF BuildInv, ProjectionTypeOK, Doing, Building
<1>4. Of(b)' = Of(b)
    BY <1>2 DEF Of
<1>5. \A v \in staging'.vectors, s \in staging'.of : v.document \in s.documents
    BY DEF Sound
<1>6. StagedAlone'
    <2>1. \A c \in Builders : lock' = c <=> job'[c].step \in Building
        BY <1>2 DEF BuildInv, StagedAlone
    <2>2. \A c \in Builders : job'[c].step \in {"embed", "install"} => c = b
        BY <1>2 DEF Building
    <2>3. ASSUME to \in {"embed", "install"}
          PROVE  /\ staging'.of = job'[b].of
                 /\ {v.document : v \in staging'.vectors} \subseteq Of(b).documents
        <3>1. staging'.of = {Of(b)}
            BY <2>3
        <3>2. \A v \in staging'.vectors : v.document \in Of(b).documents
            BY <1>5, <3>1
        <3> QED
            BY <1>1, <1>2, <3>1, <3>2
    <2>4. ASSUME NEW c \in Builders, job'[c].step \in {"embed", "install"}
          PROVE  /\ staging'.of = job'[c].of
                 /\ {v.document : v \in staging'.vectors} \subseteq Of(c)'.documents
        BY <1>2, <1>4, <2>2, <2>3, <2>4
    <2> QED
        BY <2>1, <2>4 DEF StagedAlone
<1>7. \A c \in Builders : Collected(c)'
    BY <1>2 DEF BuildInv, Collected, Doing, Of, Building
<1>8. \A c \in Builders : Labelling(c)' /\ Installable(c)'
    BY <1>2 DEF Labelling, Installable, Doing, Building, Whole, Sound
<1> QED
    BY <1>3, <1>6, <1>7, <1>8 DEF BuildInv, Whole, Sound, Valid

(* The rename: what was staged is what servers have from now on.           *)
LEMMA InstallStep ==
    ASSUME BuildInv, NEW b \in Builders, Install(b)
    PROVE  BuildInv'
<1>1. /\ UNCHANGED <<live, gone, endpoint, former, reader>>
      /\ projection' = staging /\ staging' = NoFile
    BY DEF Install, Keep, documentVars
<1>2. /\ job[b].step = "install" /\ lock = b /\ Whole(staging)
      /\ \A c \in Builders \ {b} : job[c].step \notin Building
    BY LockAlone DEF Install, Doing, BuildInv, StagedAlone, Installable, Building
<1>3. /\ \A c \in Builders \ {b} : job'[c] = job[c]
      /\ job'[b] = NoJob /\ lock' = Unset
      /\ job' \in [Builders -> [step : {"idle", "collect", "compare", "lock"} \cup Building,
                               of : {{}} \cup {{s} : s \in Snapshots}]]
    BY <1>2 DEF Install, Freed, NoJob, BuildInv, ProjectionTypeOK
<1>4. NoFile \in Files /\ Sound(NoFile)
    BY DEF NoFile, Files, Sound, Unset
<1>5. ProjectionTypeOK'
    BY <1>1, <1>3, <1>4 DEF BuildInv, ProjectionTypeOK, Doing, NoJob
<1>6. \A c \in Builders : job'[c].step \notin Building
    BY <1>2, <1>3 DEF NoJob, Building
<1>7. StagedAlone'
    BY <1>3, <1>6, ConstantsAssumption DEF StagedAlone, Building, Unset
<1>8. \A c \in Builders : Collected(c)' /\ Installable(c)' /\ Labelling(c)'
    BY <1>1, <1>3, <1>6 DEF BuildInv, Collected, Installable, Labelling, Doing, Of, Building, NoJob
<1> QED
    BY <1>1, <1>2, <1>4, <1>5, <1>7, <1>8 DEF BuildInv, Whole, Sound, Valid

LEMMA BuilderStep ==
    ASSUME BuildInv, NEW b \in Builders, Rebuild(b)
    PROVE  BuildInv'
<1> USE DEF Building
<1>1. CASE Begin(b) \/ CollectDocuments(b) \/ Compare(b)
    BY <1>1, SnapshotStep
<1>2. CASE Lock(b) \/ Stop(b)
    BY <1>2, LockStep
<1>3. job[b].step \in Building => Of(b) \in Snapshots /\ job[b].of = {Of(b)}
    BY SnapshotOf DEF BuildInv, Doing
<1>4. NoFile \in Files /\ Sound(NoFile)
    BY DEF NoFile, Files, Sound, Unset
<1>5. staging \in Files /\ Sound(staging)
    BY DEF BuildInv, ProjectionTypeOK
<1>6. CASE OpenStaging(b)
    <2>1. job[b].step = "open" /\ job' = [job EXCEPT ![b].step = "embed"]
        BY <1>6 DEF OpenStaging, Move, Doing
    <2> QED
        BY <1>5, <1>6, <2>1, StagingStep DEF OpenStaging, Resumable, Keep, documentVars, fileVars
<1>7. CASE RemoveStaging(b)
    <2>1. job[b].step = "open" /\ job' = [job EXCEPT ![b].step = "create"]
        BY <1>7 DEF RemoveStaging, Move, Doing
    <2> QED
        BY <1>4, <1>7, <2>1, StagingStep DEF RemoveStaging, Keep, documentVars
<1>8. CASE CreateStaging(b)
    <2>1. job[b].step \in Building /\ job' = [job EXCEPT ![b].step = "label"]
        BY <1>8 DEF CreateStaging, Move, Doing
    <2>2. staging' \in Files /\ Sound(staging') /\ staging'.vectors = {}
        BY <1>4, <1>8 DEF CreateStaging, Files, Sound, NoFile, Unset
    <2> QED
        BY <1>8, <2>1, <2>2, StagingStep DEF CreateStaging, Keep, documentVars
<1>9. CASE LabelStaging(b)
    <2>1. job[b].step = "label" /\ job' = [job EXCEPT ![b].step = "embed"]
        BY <1>9 DEF LabelStaging, Move, Doing
    <2>2. staging.vectors = {}
        BY <2>1 DEF BuildInv, Labelling, Doing
    <2>3. staging' \in Files /\ Sound(staging') /\ staging'.of = {Of(b)}
          /\ staging'.status = "in_progress"
        BY <1>3, <1>5, <1>9, <2>1, <2>2 DEF LabelStaging, Files, Sound, Unset
    <2> QED
        BY <1>9, <2>1, <2>3, StagingStep DEF LabelStaging, Keep, documentVars
<1>10. CASE \E d \in Documents : EmbedBatch(b, d)
    <2>1. PICK d \in Documents : EmbedBatch(b, d)
        BY <1>10
    <2>2. job[b].step = "embed" /\ job' = [job EXCEPT ![b].step = "embed"]
        BY <2>1 DEF EmbedBatch, Doing, BuildInv, ProjectionTypeOK
    <2>3. staging.of = {Of(b)} /\ staging.status = "in_progress"
        BY <1>3, <2>2 DEF BuildInv, StagedAlone, Labelling, Doing
    <2> DEFINE v == [document |-> d, by |-> Of(b).endpoint]
    <2>4. v \in Embeddings /\ v.by = Of(b).endpoint /\ v.document \in Of(b).documents
        BY <1>3, <2>1, <2>2 DEF EmbedBatch, Pending, Embeddings, Snapshots
    <2>5. /\ staging'.of = {Of(b)} /\ staging'.status = "in_progress"
          /\ staging'.vectors = staging.vectors \cup {v}
          /\ staging' \in Files
        BY <1>5, <2>1, <2>3, <2>4 DEF EmbedBatch, Files
    <2>6. Sound(staging')
        BY <1>5, <2>3, <2>4, <2>5 DEF Sound, Unset
    <2> QED
        BY <2>1, <2>2, <2>5, <2>6, StagingStep DEF EmbedBatch, Keep, documentVars
<1>11. CASE Complete(b)
    <2>1. job[b].step = "embed" /\ job' = [job EXCEPT ![b].step = "install"]
        BY <1>11 DEF Complete, Move, Doing
    <2>2. /\ staging.of = {Of(b)}
          /\ {v.document : v \in staging.vectors} \subseteq Of(b).documents
          /\ Of(b).epoch \subseteq Of(b).documents
        BY <1>3, <2>1 DEF BuildInv, StagedAlone, Collected
    <2>3. Of(b).documents = {v.document : v \in staging.vectors}
        BY <1>11, <2>2 DEF Complete, Pending
    <2>4. staging' \in Files /\ Whole(staging') /\ staging'.of = {Of(b)}
        BY <1>5, <1>11, <2>2, <2>3 DEF Complete, Files, Whole, Sound, Unset
    <2> QED
        BY <1>11, <2>1, <2>4, StagingStep DEF Complete, Keep, documentVars, Whole
<1>12. CASE Install(b)
    BY <1>12, InstallStep
<1> QED
    BY <1>1, <1>2, <1>6, <1>7, <1>8, <1>9, <1>10, <1>11, <1>12 DEF Rebuild

LEMMA BuildNext == BuildInv /\ [ProjectionNext]_projectionVars => BuildInv'
<1> SUFFICES ASSUME BuildInv, [ProjectionNext]_projectionVars PROVE BuildInv'
    OBVIOUS
<1>1. CASE UNCHANGED projectionVars
    <2>1. UNCHANGED <<live, gone, endpoint, former, staging, projection, lock, job, reader>>
        BY <1>1 DEF projectionVars, documentVars, fileVars
    <2> QED
        BY <2>1 DEF BuildInv, ProjectionTypeOK, StagedAlone, Collected, Labelling, Installable,
                    Doing, Of,
                    Whole, Sound, Valid
<1>2. CASE \E b \in Builders : Rebuild(b)
    BY <1>2, BuilderStep
<1>3. CASE RankOpen \/ RankRead
    BY <1>3, ReaderStep
<1>4. CASE \/ \E d \in Documents : LaneChanges(d)
           \/ \E e \in Endpoints : EndpointChanges(e)
    BY <1>4, LaneStep
<1> QED
    BY <1>1, <1>2, <1>3, <1>4 DEF ProjectionNext

-----------------------------------------------------------------------------
(* What a rebuild stages is of its snapshot, and what is installed, or has *)
(* been opened by a server, is complete for it.                            *)
THEOREM BuildInvariant == ProjectionSpec => []BuildInv
<1> QED
    BY BuildInit, BuildNext, PTL DEF ProjectionSpec

(* Every variable holds what the code can put there, for any number of     *)
(* documents, endpoints and builders.                                      *)
THEOREM BuildTypeCorrect == ProjectionSpec => []ProjectionTypeOK
<1>1. BuildInv => ProjectionTypeOK
    BY DEF BuildInv
<1> QED
    BY <1>1, BuildInvariant, PTL

(* Under the lock of acquire_rebuild_lock a builder has the staging file   *)
(* to itself, and a builder that fails leaves the lock free.               *)
THEOREM StagedAloneHolds == ProjectionSpec => []StagedAlone
<1>1. BuildInv => StagedAlone
    BY DEF BuildInv
<1> QED
    BY <1>1, BuildInvariant, PTL

(* The projection that reindex installs has a vector, by the endpoint of   *)
(* its metadata, for every document of the epoch of its metadata.          *)
THEOREM InstalledWholeHolds == ProjectionSpec => []InstalledWhole
<1>1. BuildInv => InstalledWhole
    BY DEF BuildInv, InstalledWhole, Whole, Sound
<1> QED
    BY <1>1, BuildInvariant, PTL

(* rank_admitted ranks with vectors of the epoch and the endpoint the      *)
(* server has started with, whatever is renamed over the file meanwhile.   *)
THEOREM RanksOwnEpochHolds == ProjectionSpec => RanksOwnEpoch
<1>1. BuildInv /\ [ProjectionNext]_projectionVars =>
          [RankRead => \A s \in reader.of :
               /\ s.epoch \subseteq {v.document : v \in Ranked}
               /\ \A v \in Ranked : v.by = s.endpoint]_projectionVars
    <2> SUFFICES ASSUME BuildInv, RankRead, NEW s \in reader.of
                 PROVE  /\ s.epoch \subseteq {v.document : v \in Ranked}
                        /\ \A v \in Ranked : v.by = s.endpoint
        OBVIOUS
    <2>1. Whole(reader.file) /\ Valid(reader.file, reader.of)
        BY DEF BuildInv, RankRead
    <2>2. PICK t \in reader.file.of : s = [t EXCEPT !.documents = {}]
        BY <2>1 DEF Valid
    <2>3. t \in Snapshots
        BY DEF BuildInv, ProjectionTypeOK, Files
    <2>4. s.epoch = t.epoch /\ s.endpoint = t.endpoint
        BY <2>2, <2>3 DEF Snapshots
    <2> QED
        BY <2>1, <2>4 DEF Whole, Sound, Ranked
<1> QED
    BY <1>1, BuildInvariant, PTL DEF ProjectionSpec, RanksOwnEpoch

(* Interrupted work is resumed: open_staging keeps the vectors of a build  *)
(* with the same fingerprint, and nothing else removes any.                *)
THEOREM WorkIsKeptHolds == ProjectionSpec => WorkIsKept
<1> DEFINE Kept == \A b \in Builders : staging.vectors \ staging'.vectors # {} =>
                       \/ projection' = staging
                       \/ job'[b] = job[b]
                       \/ staging.of # job[b].of
                       \/ staging.status = "complete"
<1>1. BuildInv /\ [ProjectionNext]_projectionVars => [Kept]_projectionVars
    <2> SUFFICES ASSUME BuildInv, ProjectionNext, NEW b \in Builders,
                        staging.vectors \ staging'.vectors # {},
                        projection' # staging, job'[b] # job[b],
                        staging.of = job[b].of
                 PROVE  staging.status = "complete"
        OBVIOUS
    <2>1. Sound(staging) /\ staging \in Files
        BY DEF BuildInv, ProjectionTypeOK
    <2>2. PICK c \in Builders : Rebuild(c)
        BY DEF ProjectionNext, LaneChanges, EndpointChanges, RankOpen, RankRead, fileVars
    <2>3. CASE RemoveStaging(c)
        <3>1. c = b
            BY <2>3 DEF RemoveStaging, Move, BuildInv, ProjectionTypeOK
        <3>2. staging.of = {Of(b)}
            BY <2>3, <3>1, SnapshotOf DEF RemoveStaging, Move, Doing, BuildInv
        <3>3. {v.document : v \in staging.vectors} \subseteq Of(b).documents
            BY <2>1, <3>2 DEF Sound
        <3>4. staging.status # "in_progress"
            BY <2>3, <3>1, <3>2, <3>3 DEF RemoveStaging, Resumable
        <3> QED
            BY <2>1, <3>4 DEF Sound, Files, Unset
    <2>4. CASE CreateStaging(c)
        BY <2>4 DEF CreateStaging, NoFile
    <2>5. CASE \E d \in Documents : EmbedBatch(c, d)
        BY <2>1, <2>5 DEF EmbedBatch, Files
    <2>6. CASE LabelStaging(c) \/ Complete(c)
        BY <2>1, <2>6 DEF LabelStaging, Complete, Files
    <2>7. CASE Install(c)
        BY <2>7 DEF Install
    <2>8. ~(Begin(c) \/ CollectDocuments(c) \/ Compare(c) \/ Lock(c) \/ OpenStaging(c) \/ Stop(c))
        BY DEF Begin, CollectDocuments, Compare, Lock, OpenStaging, Stop, fileVars
    <2> QED
        BY <2>2, <2>3, <2>4, <2>5, <2>6, <2>7, <2>8 DEF Rebuild
<1> QED
    BY <1>1, BuildInvariant, PTL DEF ProjectionSpec, WorkIsKept
=============================================================================
