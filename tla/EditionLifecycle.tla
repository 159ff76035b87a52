-------------------------- MODULE EditionLifecycle --------------------------
(***************************************************************************)
(* Revocation and supersession in the Knowledge Vault                      *)
(* (crates/art-knowledge/src/lib.rs).  Editions never change: a lifecycle  *)
(* event is a new immutable file under .art/events, and the flags readers  *)
(* go by, revoked and current, are a projection of those files that is     *)
(* brought up to date by reconcile_events, rewritten by publication, and   *)
(* computed anew by rebuild_projection.                                    *)
(*                                                                         *)
(* One knowledge key; an Edition is its number.  A publication is one step *)
(* here (module KnowledgePublish has its parts), or one that crashed with  *)
(* its files complete.  Processes interleave freely, a process may crash   *)
(* anywhere, and the file of an applied event may be lost.                 *)
(***************************************************************************)
EXTENDS Naturals, FiniteSets

CONSTANTS
    Procs,        \* processes that open the vault
    MaxEditions,  \* bound: editions ever published
    MaxEvents,    \* bound: lifecycle events ever written
    MaxCrashes,   \* bound: process crashes
    MaxLosses,    \* bound: event files removed behind the vault's back
    MaxTogether   \* bound: events, crashes and losses together

ASSUME BoundsAssumption ==
    /\ MaxEditions \in Nat
    /\ MaxEvents \in Nat
    /\ MaxCrashes \in Nat
    /\ MaxLosses \in Nat
    /\ MaxTogether \in Nat

Editions == 1..MaxEditions
EventIds == 1..MaxEvents

VARIABLES
    disk,      \* editions whose two files are in the tree
    pending,   \* those with a prepared publish intent and no row yet
    rows,      \* edition_projections
    revoked,   \* rows with revoked=1
    current,   \* rows with current=1
    event,     \* what an event says: [kind, edition, with]
    intent,    \* event_intents.state
    files,     \* events in .art/events
    applied,   \* knowledge_events
    acked,     \* events whose revoke or supersede returned Ok
    crashes, losses,
    pc,        \* where a process is
    job,       \* the event it writes or recovers
    listed,    \* event files its reconcile listed
    todo,      \* what its open has still to recover: editions, then events
    found      \* editions its rebuild read from disk

editionVars == <<disk, pending>>
rowVars == <<rows, revoked, current>>
eventVars == <<event, intent, files, applied, acked>>
boundVars == <<crashes, losses>>
processVars == <<pc, job, listed, todo, found>>
vars == <<editionVars, rowVars, eventVars, boundVars, processVars>>

NoEvent == [kind |-> "none", edition |-> 0, with |-> 0]
Events == [kind : {"revocation", "supersession"}, edition : Editions, with : Editions \cup {0}]

(* reconcile_events runs in three places: at the end of revoke and         *)
(* supersede, for an intent recovered by open, and once more as the last   *)
(* thing open does.                                                        *)
AfterList == [written |-> "listed", replaying |-> "replay_listed", closing |-> "close_listed"]
AfterReconcile == [listed |-> "applied", replay_listed |-> "replayed", close_listed |-> "ready"]

Places == {"down", "ready", "prepared", "applied", "replayed", "publishes", "recover",
           "release", "scan", "scanned", "index", "indexed"} \cup DOMAIN AfterList \cup DOMAIN AfterReconcile

Init ==
    /\ disk = {} /\ pending = {}
    /\ rows = {} /\ revoked = {} /\ current = {}
    /\ event = [x \in EventIds |-> NoEvent]
    /\ intent = [x \in EventIds |-> "none"]
    /\ files = {} /\ applied = {} /\ acked = {}
    /\ crashes = 0 /\ losses = 0
    /\ pc = [p \in Procs |-> "down"]
    /\ job = [p \in Procs |-> 0]
    /\ listed = [p \in Procs |-> {}]
    /\ todo = [p \in Procs |-> {}]
    /\ found = [p \in Procs |-> {}]

Move(p, from, to) == pc[p] = from /\ pc' = [pc EXCEPT ![p] = to]
Written == {x \in EventIds : event[x] # NoEvent}
Room == Cardinality(Written) + crashes + losses < MaxTogether
Newest(S) == {e \in S : \A f \in S : f <= e}

-----------------------------------------------------------------------------
(* Publication, as far as the flags are concerned *)

IsNext(e) == e \in Editions \ disk /\ \A f \in 1..(e - 1) : f \in disk

Publish(p) ==
    /\ pc[p] = "ready"
    /\ \E e \in Editions :
        /\ IsNext(e)
        /\ disk' = disk \cup {e}
        /\ rows' = rows \cup {e}
        /\ current' = Newest((rows \cup {e}) \ revoked)
    /\ UNCHANGED <<pending, revoked, eventVars, boundVars, processVars>>

Halt(p) ==
    /\ pc' = [pc EXCEPT ![p] = "down"]
    /\ job' = [job EXCEPT ![p] = 0]
    /\ listed' = [listed EXCEPT ![p] = {}]
    /\ todo' = [todo EXCEPT ![p] = {}]
    /\ found' = [found EXCEPT ![p] = {}]

(* The process dies between the files of an edition and their row. *)
PublishCrash(p) ==
    /\ pc[p] = "ready"
    /\ crashes < MaxCrashes /\ Room
    /\ crashes' = crashes + 1
    /\ \E e \in Editions :
        /\ IsNext(e)
        /\ disk' = disk \cup {e}
        /\ pending' = pending \cup {e}
    /\ Halt(p)
    /\ UNCHANGED <<rowVars, eventVars, losses>>

-----------------------------------------------------------------------------
(* revoke, supersede and commit_event *)

Readable(e) == e \in rows /\ e \notin revoked

(* The replacement is a later edition; that it is the current one is not   *)
(* asked for.                                                              *)
Replaces_Any(w, e) == w # e
Replaces(w, e) == w > e

(* The names of events order them, and they are ULIDs: two processes may   *)
(* file their events in another order than that of the names.              *)
Prepare(p, v) ==
    /\ Move(p, "ready", "prepared")
    /\ Room
    /\ \E x \in EventIds :
        /\ event[x] = NoEvent
        /\ event' = [event EXCEPT ![x] = v]
        /\ intent' = [intent EXCEPT ![x] = "prepared"]
        /\ job' = [job EXCEPT ![p] = x]
    /\ UNCHANGED <<editionVars, rowVars, files, applied, acked, boundVars, listed, todo, found>>

Revoke(p, e) ==
    /\ Readable(e)
    /\ Prepare(p, [kind |-> "revocation", edition |-> e, with |-> 0])

Supersede(p, e, w) ==
    /\ e \in rows /\ Readable(w)
    /\ Replaces(w, e)
    /\ Prepare(p, [kind |-> "supersession", edition |-> e, with |-> w])

WriteEvent(p) ==
    /\ Move(p, "prepared", "written")
    /\ files' = files \cup {job[p]}
    /\ UNCHANGED <<editionVars, rowVars, event, intent, applied, acked, boundVars,
                   job, listed, todo, found>>

WriteFails(p) ==
    /\ Move(p, "prepared", "ready")
    /\ job' = [job EXCEPT ![p] = 0]
    /\ UNCHANGED <<editionVars, rowVars, eventVars, boundVars, listed, todo, found>>

MarkCommitted(p) ==
    /\ \/ Move(p, "applied", "ready") /\ acked' = acked \cup {job[p]}
       \/ Move(p, "replayed", "recover") /\ UNCHANGED acked
    /\ intent' = [intent EXCEPT ![job[p]] = "committed"]
    /\ job' = [job EXCEPT ![p] = 0]
    /\ UNCHANGED <<editionVars, rowVars, event, files, applied, boundVars, listed, todo, found>>

-----------------------------------------------------------------------------
(* reconcile_events: the directory is listed first, then one transaction   *)
(* applies, in the order of their names, the events it has no row for.     *)

ListFiles(p) ==
    /\ pc[p] \in DOMAIN AfterList
    /\ Move(p, pc[p], AfterList[pc[p]])
    /\ listed' = [listed EXCEPT ![p] = files]
    /\ UNCHANGED <<editionVars, rowVars, eventVars, boundVars, job, todo, found>>

Revokes(x, e) == event[x].kind = "revocation" /\ event[x].edition = e
RevokedBy_Current(S) == {e \in current : \E x \in S : Revokes(x, e)}
RevokedBy(S) == {e \in rows : \E x \in S : Revokes(x, e)}

(* The event takes e off, or puts it forward: the last word counts, and a  *)
(* revoked edition is never put forward.                                   *)
TakesOff(x, e) == event[x].edition = e
PutsForward(x, e) == event[x].kind = "supersession" /\ event[x].with = e

CurrentAfter_Revived(S) ==
    {e \in rows :
        \/ e \in current /\ \A x \in S : ~TakesOff(x, e)
        \/ \E x \in S : PutsForward(x, e) /\ \A y \in S : y > x => ~TakesOff(y, e)}
CurrentAfter(S) ==
    {e \in rows \ (revoked \cup RevokedBy(S)) :
        \/ e \in current /\ \A x \in S : ~TakesOff(x, e)
        \/ \E x \in S : PutsForward(x, e) /\ \A y \in S : y > x => ~TakesOff(y, e)}

(* Every event applied before must still be there. *)
Intact(p) == listed[p] \subseteq files /\ applied \subseteq listed[p]

Reconcile(p) ==
    /\ pc[p] \in DOMAIN AfterReconcile
    /\ Move(p, pc[p], AfterReconcile[pc[p]])
    /\ Intact(p)
    /\ revoked' = revoked \cup RevokedBy(listed[p] \ applied)
    /\ current' = CurrentAfter(listed[p] \ applied)
    /\ applied' = listed[p]
    /\ listed' = [listed EXCEPT ![p] = {}]
    /\ UNCHANGED <<editionVars, rows, event, intent, files, acked, boundVars, job, todo, found>>

(* Otherwise the vault is degraded, and one that is being opened stays     *)
(* closed.  The caller of revoke or supersede gets an error, which may     *)
(* also mean that the control store was busy.                              *)
ReconcileFails(p) ==
    /\ Move(p, "listed", "ready")
    /\ job' = [job EXCEPT ![p] = 0]
    /\ listed' = [listed EXCEPT ![p] = {}]
    /\ UNCHANGED <<editionVars, rowVars, eventVars, boundVars, todo, found>>

OpenFails(p) ==
    /\ pc[p] \in {"replay_listed", "close_listed"}
    /\ ~Intact(p)
    /\ Halt(p)
    /\ UNCHANGED <<editionVars, rowVars, eventVars, boundVars>>

-----------------------------------------------------------------------------
(* KnowledgeVault::open and rebuild_projection *)

(* Every complete prepared publication is recovered by a rebuild, before   *)
(* the events are looked at.                                               *)
Open(p) ==
    /\ Move(p, "down", "publishes")
    /\ todo' = [todo EXCEPT ![p] = pending]
    /\ UNCHANGED <<editionVars, rowVars, eventVars, boundVars, job, listed, found>>

RecoverPublish(p) ==
    /\ Move(p, "publishes", "scan")
    /\ \E e \in todo[p] : todo' = [todo EXCEPT ![p] = @ \ {e}]
    /\ UNCHANGED <<editionVars, rowVars, eventVars, boundVars, job, listed, found>>

PublishesRecovered(p) ==
    /\ Move(p, "publishes", "recover")
    /\ todo[p] = {}
    /\ todo' = [todo EXCEPT ![p] = {x \in EventIds : intent[x] = "prepared"}]
    /\ UNCHANGED <<editionVars, rowVars, eventVars, boundVars, job, listed, found>>

(* `art-cli index`, by a process that has opened the vault *)
RebuildCommand(p) ==
    /\ Move(p, "ready", "index")
    /\ UNCHANGED <<editionVars, rowVars, eventVars, boundVars, job, listed, todo, found>>

RebuildScan(p) ==
    /\ Move(p, "scan", "scanned") \/ Move(p, "index", "indexed")
    /\ found' = [found EXCEPT ![p] = disk]
    /\ UNCHANGED <<editionVars, rowVars, eventVars, boundVars, job, listed, todo>>

RevokedOnDisk(S) == {e \in S : \E x \in files : Revokes(x, e)}

(* Rows, flags and applied events are replaced by what the files say, and  *)
(* the newest edition that is not revoked becomes current.                 *)
RebuildProject(p) ==
    /\ Move(p, "scanned", "publishes") \/ Move(p, "indexed", "ready")
    /\ rows' = found[p]
    /\ revoked' = RevokedOnDisk(found[p])
    /\ current' = Newest(found[p] \ RevokedOnDisk(found[p]))
    /\ applied' = files
    /\ pending' = pending \ found[p]
    /\ found' = [found EXCEPT ![p] = {}]
    /\ UNCHANGED <<disk, event, intent, files, acked, boundVars, job, listed, todo>>

RecoverEvent(p) ==
    /\ \E x \in todo[p] :
        /\ \/ x \in files /\ Move(p, "recover", "replaying")
           \/ x \notin files /\ Move(p, "recover", "release")
        /\ job' = [job EXCEPT ![p] = x]
        /\ todo' = [todo EXCEPT ![p] = @ \ {x}]
    /\ UNCHANGED <<editionVars, rowVars, eventVars, boundVars, listed, found>>

ReleaseEvent(p) ==
    /\ Move(p, "release", "recover")
    /\ intent' = [intent EXCEPT ![job[p]] = "recoverable"]
    /\ job' = [job EXCEPT ![p] = 0]
    /\ UNCHANGED <<editionVars, rowVars, event, files, applied, acked, boundVars,
                   listed, todo, found>>

RecoverDone_Skips(p) ==
    /\ Move(p, "recover", "ready")
    /\ todo[p] = {}
    /\ UNCHANGED <<editionVars, rowVars, eventVars, boundVars, job, listed, todo, found>>
RecoverDone(p) ==
    /\ Move(p, "recover", "closing")
    /\ todo[p] = {}
    /\ UNCHANGED <<editionVars, rowVars, eventVars, boundVars, job, listed, todo, found>>

-----------------------------------------------------------------------------
Exit(p) == pc[p] = "ready" /\ Halt(p) /\ UNCHANGED <<editionVars, rowVars, eventVars, boundVars>>

Crash(p) ==
    /\ pc[p] # "down"
    /\ crashes < MaxCrashes /\ Room
    /\ crashes' = crashes + 1
    /\ Halt(p)
    /\ UNCHANGED <<editionVars, rowVars, eventVars, losses>>

(* Somebody else removes the file of an applied event. *)
LoseEvent(x) ==
    /\ x \in files \cap applied
    /\ losses < MaxLosses /\ Room
    /\ losses' = losses + 1
    /\ files' = files \ {x}
    /\ UNCHANGED <<editionVars, rowVars, event, intent, applied, acked, crashes, processVars>>

Work(p) ==
    \/ WriteEvent(p) \/ WriteFails(p) \/ MarkCommitted(p)
    \/ ListFiles(p) \/ Reconcile(p) \/ ReconcileFails(p) \/ OpenFails(p)
    \/ RecoverPublish(p) \/ PublishesRecovered(p) \/ RebuildScan(p) \/ RebuildProject(p)
    \/ RecoverEvent(p) \/ ReleaseEvent(p) \/ RecoverDone(p)

Next ==
    \/ \E p \in Procs :
        \/ Publish(p) \/ PublishCrash(p)
        \/ \E e \in Editions : Revoke(p, e)
        \/ \E e, w \in Editions : Supersede(p, e, w)
        \/ Work(p)
        \/ Open(p) \/ RebuildCommand(p) \/ Exit(p) \/ Crash(p)
    \/ \E x \in EventIds : LoseEvent(x)

Spec == Init /\ [][Next]_vars

(* As in KnowledgePublish: processes get on with their work, and are ended *)
(* and started again sooner or later.                                      *)
Fairness == \A p \in Procs : WF_vars(Work(p)) /\ WF_vars(Open(p)) /\ SF_vars(Exit(p))
FairSpec == Spec /\ Fairness

-----------------------------------------------------------------------------
(* Properties *)

Filing == {"prepared", "written", "listed", "applied"}
Replaying == {"replaying", "replay_listed", "replayed", "release"}

(* Every variable has its type, flags are set only on rows, and only       *)
(* events somebody asked for are ever filed, applied or worked on.         *)
TypeOK ==
    /\ disk \subseteq Editions
    /\ pending \subseteq disk
    /\ rows \subseteq disk
    /\ revoked \subseteq rows
    /\ current \subseteq rows
    /\ event \in [EventIds -> Events \cup {NoEvent}]
    /\ intent \in [EventIds -> {"none", "prepared", "committed", "recoverable"}]
    /\ Written = {x \in EventIds : intent[x] # "none"}
    /\ files \subseteq Written
    /\ applied \subseteq Written
    /\ acked \subseteq Written
    /\ crashes \in 0..MaxCrashes
    /\ losses \in 0..MaxLosses
    /\ pc \in [Procs -> Places]
    /\ job \in [Procs -> Written \cup {0}]
    /\ \A p \in Procs : pc[p] \in Filing \cup Replaying => job[p] \in Written
    /\ listed \in [Procs -> SUBSET Written]
    /\ todo \in [Procs -> SUBSET (disk \cup Written)]
    /\ \A p \in Procs : pc[p] \in Replaying \cup {"recover"} => todo[p] \subseteq Written
    /\ found \in [Procs -> SUBSET disk]

(* A revoked edition is never the current one, whatever was superseded by  *)
(* it in the meantime and in whatever order events are applied.            *)
RevokedNeverCurrent == current \cap revoked = {}

(* A revoked edition stays revoked as long as it has a row: no reconcile,  *)
(* publication, recovery or rebuild of any process makes it readable, with *)
(* one exception: a rebuild after the file of its revocation was lost.     *)
ByRebuild == \E p \in Procs : pc[p] \in {"scanned", "indexed"} /\ pc'[p] # pc[p]
RevocationLost(e) == \E x \in applied \ files : Revokes(x, e)
RevokedForever ==
    [][\A e \in revoked \cap rows' : e \in revoked' \/ (ByRebuild /\ RevocationLost(e))]_vars

(* What revoke returned Ok for can no longer be read, by anybody, as long  *)
(* as its file is there.                                                   *)
Unreadable(S) == \A x \in S : \A e \in rows : Revokes(x, e) => e \in revoked
AckedRevoked == Unreadable(acked \cap files)

(* docs/memory-and-knowledge.md: the newest edition is the current one, as *)
(* far as it is not revoked; here once no row is missing.                  *)
NewestServed == rows = disk => Newest(rows) \subseteq current \cup revoked

(* docs/memory-and-knowledge.md: startup reconciliation completes events   *)
(* that reached disk before their projection transaction.  Files are not   *)
(* taken back, so that it is enough that again and again none is left to   *)
(* be applied; here unless the file of an applied event was lost, after    *)
(* which every reconcile fails.                                            *)
FiledEventsApply == []<>(files \subseteq applied \/ losses > 0)

(* docs/memory-and-knowledge.md: a key has one edition marked current.     *)
AtMostOneCurrent == Cardinality(current) <= 1
=============================================================================
