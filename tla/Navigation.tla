----------------------------- MODULE Navigation -----------------------------
(***************************************************************************)
(* The two lanes recall reads, the private memories of an Agent and the    *)
(* editions all Agents share, and the navigation map of each: a table of   *)
(* what is live, labelled with the epoch it was made at, which any process *)
(* rebuilds when it finds it stale (art-agent-store, art-knowledge,        *)
(* art-retrieval lib.rs `route`, art-mcp `art_health`).                    *)
(*                                                                         *)
(* No transaction spans an epoch, the listing and the replacement of the   *)
(* map: each is a step of its own, during which the lane may change and    *)
(* others may rebuild.  The private epoch is one SELECT; the shared one is *)
(* two, projections and then events.  A shared listing is a SELECT of ids  *)
(* and a read of each, which fails if it was revoked in between.           *)
(***************************************************************************)
EXTENDS Integers, FiniteSets

CONSTANTS
    Memories,      \* ids of memory_artifacts of the Agent
    Editions,      \* ids of edition_projections
    KeyOf,         \* [Editions -> knowledge keys]
    NumberOf,      \* [Editions -> edition numbers]
    Routers,       \* requests for a map: route and art_health
    None,          \* nothing read yet
    MaxChanges,    \* bound: changes of the lanes
    FirstRows      \* the rows before anything happens

Lanes == {"private", "shared"}
Focuses == Lanes \cup {"recall"}
Items == Memories \cup Editions
ItemsOf(l) == IF l = "private" THEN Memories ELSE Editions

ASSUME NavigationAssumption ==
    /\ Memories \cap Editions = {}
    /\ NumberOf \in [Editions -> Nat]
    /\ MaxChanges \in [Focuses -> Nat]

VARIABLES
    focus,         \* what a behaviour is about: the map of one lane, or recall
    clock,         \* the time, counted in changes
    rows,          \* memory_artifacts and edition_projections
    events,        \* [lane -> how many rows knowledge_events has]: none if private
    expired,       \* memories whose valid_until has passed
    map,           \* memory_navigation, knowledge_navigation and their _meta
    call           \* the requests in progress

laneVars == <<focus, clock, rows, events, expired>>
mapVars == <<map, call>>

(* A row with the time of its last change.  That is updated_at in the      *)
(* private lane.  A projection has no such column, but the shared epoch    *)
(* tells as much: rows are never removed, revocations and events are never *)
(* undone, and between two of these a supersession and a rebuild change    *)
(* the flags one way only.                                                 *)
States == {"none", "candidate", "active", "past", "retired"}
Rows == [state : States, revision : Nat, at : Nat]
Row(s, r, t) == [state |-> s, revision |-> r, at |-> t]

ASSUME FirstRowsAssumption ==
    /\ FirstRows \in [Items -> Rows]
    /\ \A i \in Items : FirstRows[i].at = 0
    /\ \A l \in Lanes : None \notin [ItemsOf(l) -> Rows] \X Nat

-----------------------------------------------------------------------------
(* The lanes *)

Live(i) == rows[i].state = "active"
Contents(l) == [i \in ItemsOf(l) |-> rows[i]]

(* index_epoch hashes what it reads: an epoch is the contents it was read  *)
(* from, and those of the shared lane need not be of one moment.           *)
Epoch(l) == <<Contents(l), events[l]>>

(* rebuild_navigation: Active memories, list_current                       *)
LiveRows(l) == {<<i, rows[i].revision>> : i \in {j \in ItemsOf(l) : Live(j)}}

Alter(i, s, r) ==
    /\ clock < MaxChanges[focus]
    /\ clock' = clock + 1
    /\ rows' = [rows EXCEPT ![i] = Row(s, r, clock + 1)]

(* Intake, assurance, revision; a memory that is disputed, replaced,       *)
(* rejected or archived is retired here, and what a dispute may still come *)
(* to is left out.                                                         *)
ChangeMemory(m) ==
    /\ \/ rows[m].state = "none" /\ \E s \in {"candidate", "active"} : Alter(m, s, 1)
       \/ rows[m].state = "candidate" /\ \E s \in {"active", "retired"} : Alter(m, s, rows[m].revision)
       \/ rows[m].state = "active" /\ Alter(m, "retired", rows[m].revision)
       \/ rows[m].state = "active" /\ Alter(m, "active", rows[m].revision + 1)
    /\ UNCHANGED <<events, expired>>

(* A validity window closes.  Nothing is written.                          *)
Expire(m) ==
    /\ Live(m) /\ m \notin expired
    /\ clock < MaxChanges[focus]
    /\ clock' = clock + 1
    /\ expired' = expired \cup {m}
    /\ UNCHANGED <<rows, events>>

(* The editions of a set that are not revoked, and the newest of each key  *)
Unrevoked(S) == {i \in S : rows[i].state \in {"active", "past"}}
Newest(S) == {i \in S : \A j \in S : KeyOf[j] = KeyOf[i] => NumberOf[j] <= NumberOf[i]}

(* Of some editions the first are current and the second are not, by one   *)
(* transaction.  What is not current can still be read until it is         *)
(* retired, that is, revoked.                                              *)
Reflag(current, past) ==
    /\ clock < MaxChanges[focus]
    /\ clock' = clock + 1
    /\ rows' = [i \in Items |->
           IF i \in current /\ ~Live(i) THEN Row("active", 1, clock + 1)
           ELSE IF i \in past /\ rows[i].state # "past" THEN Row("past", 1, clock + 1)
           ELSE rows[i]]

(* publish_guarded: the new edition and the others of its key              *)
Publish(e) ==
    /\ rows[e].state = "none"
    /\ LET S == {e} \cup Unrevoked({i \in Editions : KeyOf[i] = KeyOf[e]})
       IN  Reflag(Newest(S), S \ Newest(S))
    /\ UNCHANGED <<events, expired>>

(* rebuild_projection, with the files of every edition there and nothing   *)
(* published meanwhile.  One that changes no flag changes nothing.         *)
RebuildProjection ==
    /\ LET S == Unrevoked(Editions) IN Reflag(Newest(S), S \ Newest(S))
    /\ rows' # rows
    /\ UNCHANGED <<events, expired>>

(* revoke and supersede: commit_event writes the event and the projection  *)
(* in one transaction.                                                     *)
Revoke(e) ==
    /\ rows[e].state \in {"active", "past"}
    /\ Alter(e, "retired", 1)
    /\ events' = [events EXCEPT !["shared"] = @ + 1]
    /\ UNCHANGED expired

(* `with' is the newest edition of the key that is not revoked.  The code  *)
(* takes any that is newer than `e', see EditionLifecycle: then a rebuild  *)
(* would bring back flags that the epoch has had before.                   *)
Supersede(e, with) ==
    /\ rows[e].state # "none" /\ NumberOf[e] < NumberOf[with]
    /\ with \in Newest(Unrevoked({i \in Editions : KeyOf[i] = KeyOf[e]}))
    /\ Reflag({with}, Unrevoked({e}))
    /\ events' = [events EXCEPT !["shared"] = @ + 1]
    /\ UNCHANGED expired

ChangeEditions ==
    \/ RebuildProjection
    \/ \E e \in Editions : Publish(e) \/ Revoke(e) \/ \E with \in Editions : Supersede(e, with)

Change ==
    /\ UNCHANGED focus
    /\ \/ focus # "shared" /\ \E m \in Memories : ChangeMemory(m) \/ Expire(m)
       \/ focus # "private" /\ ChangeEditions

-----------------------------------------------------------------------------
(* Requests for a map: `step' is the read or the write to come.            *)

NoMap == [label |-> None, entries |-> {}]
NoCall == [op |-> "none", step |-> "none", rebuilt |-> FALSE, map |-> NoMap,
           part |-> None, epoch |-> None, list |-> {}, lapsed |-> {}]

At(c, s) == call[c].step = s
Goto(c, s) == [call[c] EXCEPT !.step = s, !.part = None]
Restart(c, s) == [NoCall EXCEPT !.op = call[c].op, !.rebuilt = call[c].rebuilt, !.step = s]
Becomes(c, r) == call' = [call EXCEPT ![c] = r]

(* What a request reads next: an epoch or a listing.  In the shared lane   *)
(* that takes two steps, and `part' is what the first has read.            *)
Private == focus = "private"
EpochSteps == {"before", "after", "label", "aligned"}
ListSteps == {"list", "collect", "canonical"}

ReadFirst(c) ==
    /\ ~Private /\ call[c].part = None
    /\ call[c].step \in EpochSteps \cup ListSteps
    /\ Becomes(c, [call[c] EXCEPT !.part =
           IF call[c].step \in EpochSteps THEN Contents("shared") ELSE LiveRows("shared")])
    /\ UNCHANGED map

ReadComplete(c) == Private \/ call[c].part # None
EpochRead(c) == IF Private THEN Epoch("private") ELSE <<call[c].part, events["shared"]>>
ListRead(c) == IF Private THEN LiveRows("private") ELSE call[c].part

(* Each edition is read in turn, and fails the listing if it is revoked.   *)
Readable(S) == \A r \in S : rows[r[1]].state # "retired"

Request(c, op) ==
    /\ focus \in Lanes
    /\ At(c, "none")
    /\ Becomes(c, [NoCall EXCEPT !.op = op, !.step = "map"])
    /\ UNCHANGED map

(* navigation_entries, and the _meta row for navigation_aligned            *)
ReadMap(c) ==
    /\ At(c, "map")
    /\ Becomes(c, [Goto(c, IF call[c].op = "route" THEN "before" ELSE "aligned")
                      EXCEPT !.map = map])
    /\ UNCHANGED map

(* A map that is no use is rebuilt, once.                                  *)
Otherwise(c) ==
    IF ~call[c].rebuilt THEN [Restart(c, "label") EXCEPT !.rebuilt = TRUE]
    ELSE IF call[c].op = "route" THEN Restart(c, "canonical")
    ELSE NoCall

-----------------------------------------------------------------------------
(* projected_private_navigation_candidates and its shared counterpart      *)

ReadBefore(c) ==
    /\ At(c, "before") /\ ReadComplete(c)
    /\ Becomes(c, [Goto(c, "list") EXCEPT !.epoch = EpochRead(c)])
    /\ UNCHANGED map

ReadList(c) ==
    /\ At(c, "list") /\ ReadComplete(c)
    /\ Becomes(c, IF Readable(ListRead(c))
                  THEN [Goto(c, "after") EXCEPT !.list = ListRead(c), !.lapsed = expired]
                  ELSE Otherwise(c))
    /\ UNCHANGED map

Ids(S) == {r[1] : r \in S}

(* Nothing has changed since the first epoch, and the map has the ids that *)
(* are live and was made at this epoch.  Only its entries carry the epoch. *)
Fits_IdsOnly(c, e) == Ids(call[c].map.entries) = Ids(call[c].list)
Fits(c, e) ==
    /\ call[c].epoch = e
    /\ Ids(call[c].map.entries) = Ids(call[c].list)
    /\ call[c].map.entries # {} => call[c].map.label = e

(* The map's entries whose memory is as listed and was eligible by then    *)
Routed(c) == {r \in call[c].map.entries \cap call[c].list : r[1] \notin call[c].lapsed}

ReadAfter(c) ==
    /\ At(c, "after") /\ ReadComplete(c)
    /\ Becomes(c, IF Fits(c, EpochRead(c))
                  THEN NoCall
                  ELSE Otherwise(c))
    /\ UNCHANGED map

(* canonical_private_navigation_candidates and its shared counterpart      *)
ReadCanonical(c) ==
    /\ At(c, "canonical") /\ ReadComplete(c)
    /\ Becomes(c, NoCall)
    /\ UNCHANGED map

(* navigation_aligned compares the label it has read with the epoch.       *)
ReadAligned(c) ==
    /\ At(c, "aligned") /\ ReadComplete(c)
    /\ Becomes(c, IF call[c].map.label = EpochRead(c)
                  THEN NoCall
                  ELSE Otherwise(c))
    /\ UNCHANGED map

-----------------------------------------------------------------------------
(* rebuild_navigation: the epoch first, then what is live, and at last one *)
(* transaction that replaces the map.                                      *)

ReadLabel(c) ==
    /\ At(c, "label") /\ ReadComplete(c)
    /\ Becomes(c, [Goto(c, "collect") EXCEPT !.epoch = EpochRead(c)])
    /\ UNCHANGED map

Collect(c) ==
    /\ At(c, "collect") /\ ReadComplete(c)
    /\ Becomes(c, IF Readable(ListRead(c)) THEN [Goto(c, "replace") EXCEPT !.list = ListRead(c)]
                  ELSE IF call[c].op = "route" THEN Restart(c, "canonical")
                  ELSE NoCall)
    /\ UNCHANGED map

NewMap_LabelLast(c) == [label |-> Epoch(focus), entries |-> call[c].list]
NewMap_IfNone(c) ==
    IF map.label = None THEN [label |-> call[c].epoch, entries |-> call[c].list] ELSE map
NewMap(c) == [label |-> call[c].epoch, entries |-> call[c].list]

ReplaceMap(c) ==
    /\ At(c, "replace")
    /\ map' = NewMap(c)
    /\ Becomes(c, Restart(c, "map"))

RouterStep(c) ==
    \/ ReadFirst(c) \/ ReadMap(c)
    \/ ReadBefore(c) \/ ReadList(c) \/ ReadAfter(c) \/ ReadCanonical(c) \/ ReadAligned(c)
    \/ ReadLabel(c) \/ Collect(c) \/ ReplaceMap(c)

NavigationInit ==
    /\ focus \in Focuses
    /\ clock = 0
    /\ rows = FirstRows
    /\ events = [l \in Lanes |-> 0]
    /\ expired = {}
    /\ map = NoMap
    /\ call = [c \in Routers |-> NoCall]

-----------------------------------------------------------------------------
(* Properties *)

LaneItems == ItemsOf(focus)
Entries == SUBSET (LaneItems \X Nat)
Epochs == [LaneItems -> Rows] \X Nat
Maps == [label : Epochs \cup {None}, entries : Entries]
Steps == EpochSteps \cup ListSteps \cup {"none", "map", "replace"}

NavigationTypeOK ==
    /\ focus \in Focuses /\ clock \in Nat
    /\ rows \in [Items -> Rows]
    /\ events \in [Lanes -> Nat]
    /\ expired \subseteq Memories
    /\ map \in Maps
    /\ \A c \in Routers :
           /\ call[c].op \in {"none", "route", "art_health"}
           /\ call[c].step \in Steps
           /\ call[c].rebuilt \in BOOLEAN
           /\ call[c].map \in Maps
           /\ call[c].epoch \in Epochs \cup {None}
           /\ call[c].list \in Entries
           /\ call[c].lapsed \subseteq Memories
           /\ call[c].part # None =>
                  call[c].part \in IF call[c].step \in EpochSteps THEN [LaneItems -> Rows]
                                   ELSE Entries

(* A map that carries the epoch the lane is at names exactly what is live, *)
(* the stored one and those that requests have read: what rebuild_         *)
(* navigation and navigation_aligned rely on, with no lock around either,  *)
(* since the epoch is read before the listing.                             *)
LabelHonest ==
    focus \in Lanes =>
        \A M \in {map} \cup {call[c].map : c \in Routers} :
            M.label = Epoch(focus) => M.entries = LiveRows(focus)

(* What `route' is about to give as ready is exactly what is live, and was *)
(* eligible when it listed: nothing revoked, replaced or revised since the *)
(* map was made, and nothing missing.                                      *)
RouteExact ==
    \A c \in Routers :
        (/\ At(c, "after") /\ ReadComplete(c) /\ Fits(c, EpochRead(c))
         /\ EpochRead(c)[1] = Contents(focus))
        => Routed(c) = {r \in LiveRows(focus) : r[1] \notin call[c].lapsed}

(* A request that has to do without the map it has rebuilt *)
Unserved(c) ==
    \/ At(c, "canonical")
    \/ At(c, "aligned") /\ ReadComplete(c) /\ call[c].rebuilt /\ call[c].map.label # EpochRead(c)

(* However many requests rebuild the map at once, a slow one putting an    *)
(* old map over a newer one included: when the lane has come to rest, they *)
(* are all served from it.                                                 *)
MapConverges == <>[](\A c \in Routers : ~Unserved(c))
=============================================================================
