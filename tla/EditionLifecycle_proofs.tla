----------------------- MODULE EditionLifecycle_proofs -----------------------
(***************************************************************************)
(* Theorems about EditionLifecycle, for every number of processes,         *)
(* editions, events, crashes and lost files.  Nothing is assumed of the    *)
(* order in which processes take their steps.                              *)
(***************************************************************************)
EXTENDS EditionLifecycle, TLAPS

-----------------------------------------------------------------------------
(* Type correctness *)

LEMMA Tables ==
    /\ DOMAIN AfterList = {"written", "replaying", "closing"}
    /\ DOMAIN AfterReconcile = {"listed", "replay_listed", "close_listed"}
    /\ AfterList["written"] = "listed" /\ AfterList["replaying"] = "replay_listed"
    /\ AfterList["closing"] = "close_listed"
    /\ AfterReconcile["listed"] = "applied" /\ AfterReconcile["replay_listed"] = "replayed"
    /\ AfterReconcile["close_listed"] = "ready"
BY DEF AfterList, AfterReconcile

LEMMA Numbers == EventIds \subseteq Nat \ {0} /\ Editions \subseteq Nat \ {0} /\ 0 \notin Written
BY BoundsAssumption DEF EventIds, Editions, Written

LEMMA TypeInit == Init => TypeOK
BY BoundsAssumption, Tables DEF Init, TypeOK, Written, Filing, Replaying, NoEvent, Events, Places

LEMMA TypeStep == TypeOK /\ [Next]_vars => TypeOK'
<1> SUFFICES ASSUME TypeOK, [Next]_vars PROVE TypeOK'
    OBVIOUS
<1> USE BoundsAssumption, Tables, Numbers
        DEF TypeOK, Written, Filing, Replaying, Places, Move, editionVars, rowVars, eventVars,
            boundVars, processVars
<1>1. ASSUME NEW p \in Procs, Publish(p) PROVE TypeOK'
    BY <1>1 DEF Publish, IsNext, Newest
<1>2. ASSUME NEW p \in Procs, PublishCrash(p) PROVE TypeOK'
    BY <1>2 DEF PublishCrash, IsNext, Halt
<1>3. ASSUME NEW p \in Procs, NEW e \in Editions, Revoke(p, e) PROVE TypeOK'
    BY <1>3 DEF Revoke, Readable, Prepare, Events, NoEvent
<1>4. ASSUME NEW p \in Procs, NEW e \in Editions, NEW w \in Editions, Supersede(p, e, w)
      PROVE TypeOK'
    BY <1>4 DEF Supersede, Readable, Replaces, Prepare, Events, NoEvent
<1>5. ASSUME NEW p \in Procs, WriteEvent(p) PROVE TypeOK'
  <2>1. job[p] \in EventIds /\ event[job[p]] # NoEvent /\ intent[job[p]] # "none"
    BY <1>5 DEF WriteEvent
  <2>2. Written' = Written /\ job[p] \in Written
    BY <1>5, <2>1 DEF WriteEvent
  <2> HIDE DEF Written
  <2> QED
    BY <1>5, <2>1, <2>2 DEF WriteEvent
<1>6. ASSUME NEW p \in Procs, WriteFails(p) PROVE TypeOK'
    BY <1>6 DEF WriteFails
<1>7. ASSUME NEW p \in Procs, MarkCommitted(p) PROVE TypeOK'
  <2>1. job[p] \in EventIds /\ event[job[p]] # NoEvent /\ intent[job[p]] # "none"
    BY <1>7 DEF MarkCommitted
  <2>2. Written' = Written /\ job[p] \in Written
    BY <1>7, <2>1 DEF MarkCommitted
  <2>3. {x \in EventIds : intent'[x] # "none"} = {x \in EventIds : intent[x] # "none"}
    BY <1>7, <2>1 DEF MarkCommitted
  <2>4. intent' \in [EventIds -> {"none", "prepared", "committed", "recoverable"}]
    BY <1>7 DEF MarkCommitted
  <2>5. /\ UNCHANGED <<disk, pending, rows, revoked, current, event, files, applied, crashes,
                      losses, listed, todo, found>>
        /\ job' = [job EXCEPT ![p] = 0]
        /\ \/ pc' = [pc EXCEPT ![p] = "ready"]
           \/ pc[p] = "replayed" /\ pc' = [pc EXCEPT ![p] = "recover"]
        /\ acked' \subseteq Written
    BY <1>7, <2>1 DEF MarkCommitted
  <2> HIDE DEF Written
  <2> QED
    BY <2>2, <2>3, <2>4, <2>5
<1>8. ASSUME NEW p \in Procs, ListFiles(p) PROVE TypeOK'
    BY <1>8 DEF ListFiles
<1>9. ASSUME NEW p \in Procs, Reconcile(p) PROVE TypeOK'
  <2>1. revoked' \subseteq rows /\ current' \subseteq rows
    BY <1>9 DEF Reconcile, RevokedBy, CurrentAfter
  <2>2. Written' = Written /\ listed[p] \subseteq Written /\ applied' \subseteq Written
    BY <1>9, <2>1 DEF Reconcile, Intact
  <2>3. /\ pc[p] \in DOMAIN AfterReconcile
        /\ pc' = [pc EXCEPT ![p] = AfterReconcile[pc[p]]]
        /\ listed' = [listed EXCEPT ![p] = {}]
        /\ UNCHANGED <<disk, pending, rows, event, intent, files, acked, crashes, losses,
                       job, todo, found>>
    BY <1>9 DEF Reconcile
  <2> HIDE DEF Written
  <2>4. /\ pc' \in [Procs -> Places]
        /\ \A r \in Procs : pc'[r] \in Filing \cup Replaying => pc[r] \in Filing \cup Replaying
        /\ \A r \in Procs : pc'[r] \in Replaying \cup {"recover"}
                           => pc[r] \in Replaying \cup {"recover"}
    BY <2>3
  <2>5. listed' \in [Procs -> SUBSET Written]
    BY <2>2, <2>3
  <2> QED
    BY <2>1, <2>2, <2>3, <2>4, <2>5
<1>10. ASSUME NEW p \in Procs, ReconcileFails(p) PROVE TypeOK'
    BY <1>10 DEF ReconcileFails
<1>11. ASSUME NEW p \in Procs, OpenFails(p) PROVE TypeOK'
    BY <1>11 DEF OpenFails, Halt
<1>12. ASSUME NEW p \in Procs, RecoverPublish(p) PROVE TypeOK'
    BY <1>12 DEF RecoverPublish
<1>13. ASSUME NEW p \in Procs, PublishesRecovered(p) PROVE TypeOK'
    BY <1>13 DEF PublishesRecovered
<1>14. ASSUME NEW p \in Procs, RebuildScan(p) PROVE TypeOK'
    BY <1>14 DEF RebuildScan
<1>15. ASSUME NEW p \in Procs, RebuildProject(p) PROVE TypeOK'
  <2>1. /\ revoked' \subseteq found[p] /\ current' \subseteq found[p]
        /\ found[p] \subseteq disk /\ pending' \subseteq pending
    BY <1>15 DEF RebuildProject, RevokedOnDisk, Newest
  <2>2. Written' = Written /\ applied' \subseteq Written
    BY <1>15, <2>1 DEF RebuildProject
  <2>3. rows' \subseteq disk' /\ revoked' \subseteq rows' /\ current' \subseteq rows' /\ pending' \subseteq disk'
    BY <1>15, <2>1 DEF RebuildProject
  <2>4. pc' \in [Procs -> Places]
    BY <1>15 DEF RebuildProject
  <2>5. /\ UNCHANGED <<disk, event, intent, files, acked, crashes, losses, job, listed, todo>>
        /\ found' = [found EXCEPT ![p] = {}]
        /\ pc' = [pc EXCEPT ![p] = "publishes"] \/ pc' = [pc EXCEPT ![p] = "ready"]
    BY <1>15 DEF RebuildProject
  <2> HIDE DEF Written
  <2> QED
    BY <2>2, <2>3, <2>4, <2>5
<1>16. ASSUME NEW p \in Procs, RecoverEvent(p) PROVE TypeOK'
    BY <1>16 DEF RecoverEvent
<1>17. ASSUME NEW p \in Procs, ReleaseEvent(p) PROVE TypeOK'
  <2>1. job[p] \in EventIds /\ event[job[p]] # NoEvent /\ intent[job[p]] # "none"
    BY <1>17 DEF ReleaseEvent
  <2>2. Written' = Written /\ job[p] \in Written
    BY <1>17, <2>1 DEF ReleaseEvent
  <2>3. {x \in EventIds : intent'[x] # "none"} = {x \in EventIds : intent[x] # "none"}
    BY <1>17, <2>1 DEF ReleaseEvent
  <2>4. intent' \in [EventIds -> {"none", "prepared", "committed", "recoverable"}]
    BY <1>17 DEF ReleaseEvent
  <2>5. /\ UNCHANGED <<disk, pending, rows, revoked, current, event, files, applied, crashes,
                      losses, listed, todo, found>>
        /\ job' = [job EXCEPT ![p] = 0]
        /\ pc[p] = "release" /\ pc' = [pc EXCEPT ![p] = "recover"]
        /\ acked' = acked
    BY <1>17, <2>1 DEF ReleaseEvent
  <2> HIDE DEF Written
  <2> QED
    BY <2>2, <2>3, <2>4, <2>5
<1>18. ASSUME NEW p \in Procs, RecoverDone(p) PROVE TypeOK'
    BY <1>18 DEF RecoverDone
<1>19. ASSUME NEW p \in Procs, Open(p) PROVE TypeOK'
    BY <1>19 DEF Open
<1>20. ASSUME NEW p \in Procs, RebuildCommand(p) PROVE TypeOK'
    BY <1>20 DEF RebuildCommand
<1>21. ASSUME NEW p \in Procs, Exit(p) PROVE TypeOK'
    BY <1>21 DEF Exit, Halt
<1>22. ASSUME NEW p \in Procs, Crash(p) PROVE TypeOK'
    BY <1>22 DEF Crash, Halt
<1>23. ASSUME NEW x \in EventIds, LoseEvent(x) PROVE TypeOK'
    BY <1>23 DEF LoseEvent
<1>24. CASE UNCHANGED vars
    BY <1>24 DEF vars
<1> QED
    BY <1>1, <1>2, <1>3, <1>4, <1>5, <1>6, <1>7, <1>8, <1>9, <1>10, <1>11, <1>12, <1>13, <1>14,
       <1>15, <1>16, <1>17, <1>18, <1>19, <1>20, <1>21, <1>22, <1>23, <1>24 DEF Next, Work

(* Every variable keeps its type, flags sit on rows and events are events  *)
(* somebody asked for, whatever the processes do.                          *)
THEOREM TypeCorrect == Spec => []TypeOK
BY TypeInit, TypeStep, PTL DEF Spec

-----------------------------------------------------------------------------
(* The flags *)

(* An event concerns published editions, and a replacement is later than   *)
(* what it replaces.                                                       *)
EventsMeant ==
    \A x \in Written :
        /\ event[x].edition \in disk
        /\ event[x].kind = "supersession" => event[x].with \in disk /\ event[x].with > event[x].edition

FlagInv == TypeOK /\ EventsMeant /\ RevokedNeverCurrent /\ NewestServed

LEMMA FlagInit == Init => FlagInv
BY TypeInit DEF Init, FlagInv, EventsMeant, Written, RevokedNeverCurrent, NewestServed, Newest

LEMMA FlagStep == FlagInv /\ [Next]_vars => FlagInv'
<1> SUFFICES ASSUME FlagInv, [Next]_vars PROVE FlagInv'
    OBVIOUS
<1>0. TypeOK /\ TypeOK'
    BY TypeStep DEF FlagInv
<1>t. /\ rows \subseteq disk /\ disk \subseteq Editions /\ revoked \subseteq rows /\ current \subseteq rows
      /\ event \in [EventIds -> Events \cup {NoEvent}] /\ applied \subseteq Written
      /\ listed \in [Procs -> SUBSET Written] /\ found \in [Procs -> SUBSET disk]
    BY <1>0 DEF TypeOK
<1> USE <1>0, <1>t, Numbers
        DEF FlagInv, EventsMeant, RevokedNeverCurrent, NewestServed, Newest, Written, Move,
            editionVars, rowVars, eventVars, boundVars, processVars
<1>1. ASSUME NEW p \in Procs, Publish(p) PROVE FlagInv'
    BY <1>1 DEF Publish, IsNext, Newest
<1>2. ASSUME NEW p \in Procs, PublishCrash(p) PROVE FlagInv'
    BY <1>2 DEF PublishCrash, IsNext, Halt
<1>3. ASSUME NEW p \in Procs, NEW e \in Editions, Revoke(p, e) PROVE FlagInv'
    BY <1>3 DEF Revoke, Readable, Prepare, NoEvent
<1>4. ASSUME NEW p \in Procs, NEW e \in Editions, NEW w \in Editions, Supersede(p, e, w) PROVE FlagInv'
    BY <1>4 DEF Supersede, Readable, Replaces, Prepare, NoEvent
<1>5. ASSUME NEW p \in Procs, WriteEvent(p) PROVE FlagInv'
    BY <1>5 DEF WriteEvent
<1>6. ASSUME NEW p \in Procs, WriteFails(p) PROVE FlagInv'
    BY <1>6 DEF WriteFails
<1>7. ASSUME NEW p \in Procs, MarkCommitted(p) PROVE FlagInv'
    BY <1>7 DEF MarkCommitted
<1>8. ASSUME NEW p \in Procs, ListFiles(p) PROVE FlagInv'
    BY <1>8 DEF ListFiles
<1>9. ASSUME NEW p \in Procs, Reconcile(p) PROVE FlagInv'
  <2> DEFINE S == listed[p] \ applied
  <2>1. /\ revoked' = revoked \cup RevokedBy(S) /\ current' = CurrentAfter(S)
        /\ UNCHANGED <<disk, rows, event>> /\ S \subseteq Written
    BY <1>9 DEF Reconcile
  <2>2. current' \cap revoked' = {}
    BY <2>1 DEF CurrentAfter
  <2>3. ASSUME rows = disk, NEW e \in Newest(rows) PROVE e \in current' \cup revoked'
    <3>1. CASE e \in revoked \cup RevokedBy(S)
      BY <2>1, <3>1
    <3>2. CASE e \notin revoked \cup RevokedBy(S)
      <4>1. \A x \in S : ~TakesOff(x, e)
        <5> SUFFICES ASSUME NEW x \in S, event[x].edition = e PROVE FALSE
            BY DEF TakesOff
        <5>1. x \in Written /\ event[x] \in Events
            BY <2>1
        <5>2. CASE event[x].kind = "revocation"
            BY <2>3, <3>2, <5>2 DEF RevokedBy, Revokes
        <5>3. CASE event[x].kind = "supersession"
          <6>1. event[x].with \in rows /\ event[x].with > e
            BY <2>3, <5>1, <5>3
          <6>2. event[x].with <= e
            BY <2>3, <6>1
          <6>3. e \in Nat /\ event[x].with \in Nat
            BY <2>3, <6>1, <1>t, Numbers
          <6> QED
            BY <6>1, <6>2, <6>3
        <5> QED
            BY <5>1, <5>2, <5>3 DEF Events
      <4> QED
        BY <2>1, <2>3, <3>2, <4>1 DEF CurrentAfter
    <3> QED
      BY <3>1, <3>2
  <2> QED
    BY <2>1, <2>2, <2>3
<1>10. ASSUME NEW p \in Procs, ReconcileFails(p) PROVE FlagInv'
    BY <1>10 DEF ReconcileFails
<1>11. ASSUME NEW p \in Procs, OpenFails(p) PROVE FlagInv'
    BY <1>11 DEF OpenFails, Halt
<1>12. ASSUME NEW p \in Procs, RecoverPublish(p) PROVE FlagInv'
    BY <1>12 DEF RecoverPublish
<1>13. ASSUME NEW p \in Procs, PublishesRecovered(p) PROVE FlagInv'
    BY <1>13 DEF PublishesRecovered
<1>14. ASSUME NEW p \in Procs, RebuildScan(p) PROVE FlagInv'
    BY <1>14 DEF RebuildScan
<1>15. ASSUME NEW p \in Procs, RebuildProject(p) PROVE FlagInv'
    BY <1>15 DEF RebuildProject, RevokedOnDisk, Newest
<1>16. ASSUME NEW p \in Procs, RecoverEvent(p) PROVE FlagInv'
    BY <1>16 DEF RecoverEvent
<1>17. ASSUME NEW p \in Procs, ReleaseEvent(p) PROVE FlagInv'
    BY <1>17 DEF ReleaseEvent
<1>18. ASSUME NEW p \in Procs, RecoverDone(p) PROVE FlagInv'
    BY <1>18 DEF RecoverDone
<1>19. ASSUME NEW p \in Procs, Open(p) PROVE FlagInv'
    BY <1>19 DEF Open
<1>20. ASSUME NEW p \in Procs, RebuildCommand(p) PROVE FlagInv'
    BY <1>20 DEF RebuildCommand
<1>21. ASSUME NEW p \in Procs, Exit(p) PROVE FlagInv'
    BY <1>21 DEF Exit, Halt
<1>22. ASSUME NEW p \in Procs, Crash(p) PROVE FlagInv'
    BY <1>22 DEF Crash, Halt
<1>23. ASSUME NEW x \in EventIds, LoseEvent(x) PROVE FlagInv'
    BY <1>23 DEF LoseEvent
<1>24. CASE UNCHANGED vars
    BY <1>24 DEF vars
<1> QED
    BY <1>1, <1>2, <1>3, <1>4, <1>5, <1>6, <1>7, <1>8, <1>9, <1>10, <1>11, <1>12, <1>13, <1>14,
       <1>15, <1>16, <1>17, <1>18, <1>19, <1>20, <1>21, <1>22, <1>23, <1>24 DEF Next, Work

(* A revoked edition is never current, in every interleaving. *)
THEOREM RevokedNeverCurrentHolds == Spec => []RevokedNeverCurrent
<1>1. FlagInv => RevokedNeverCurrent
    BY DEF FlagInv
<1> QED
    BY <1>1, FlagInit, FlagStep, PTL DEF Spec

(* The newest edition is current or revoked once every edition has its     *)
(* row, in every interleaving.                                             *)
THEOREM NewestServedHolds == Spec => []NewestServed
<1>1. FlagInv => NewestServed
    BY DEF FlagInv
<1> QED
    BY <1>1, FlagInit, FlagStep, PTL DEF Spec

-----------------------------------------------------------------------------
(* Revocations *)

(* An event that is being filed belongs to one process, and is nowhere     *)
(* before its file is there.                                               *)
OwnEvents ==
    /\ \A p, q \in Procs : p # q /\ pc[p] \in Filing /\ pc[q] \in Filing => job[p] # job[q]
    /\ \A p \in Procs : pc[p] = "prepared" =>
        /\ job[p] \notin files \cup applied \cup acked
        /\ \A q \in Procs : job[p] \notin listed[q]

(* An event goes from the directory to the list and from the list to the   *)
(* applied ones before it is acknowledged, unless its file is lost.        *)
FilesApplied ==
    /\ \A p \in Procs : pc[p] = "listed" /\ job[p] \in files => job[p] \in listed[p]
    /\ \A p \in Procs : pc[p] = "applied" /\ job[p] \in files => job[p] \in applied
    /\ acked \cap files \subseteq applied

RevocationInv ==
    /\ TypeOK
    /\ EventsMeant
    /\ OwnEvents
    /\ FilesApplied
    /\ \A e \in revoked : \E x \in applied : Revokes(x, e)
    /\ Unreadable(applied \cap files)

LEMMA RevocationInit == Init => RevocationInv
BY TypeInit
   DEF Init, RevocationInv, EventsMeant, OwnEvents, FilesApplied, Filing, Written, Unreadable

LEMMA RevocationStep == RevocationInv /\ [Next]_vars => RevocationInv'
<1> SUFFICES ASSUME RevocationInv, [Next]_vars PROVE RevocationInv'
    OBVIOUS
<1>0. TypeOK /\ TypeOK'
    BY TypeStep DEF RevocationInv
<1>t. /\ rows \subseteq disk /\ disk \subseteq Editions /\ revoked \subseteq rows
      /\ event \in [EventIds -> Events \cup {NoEvent}]
      /\ files \subseteq Written /\ applied \subseteq Written /\ acked \subseteq Written
      /\ pc \in [Procs -> Places] /\ job \in [Procs -> Written \cup {0}]
      /\ \A p \in Procs : pc[p] \in Filing \cup Replaying => job[p] \in Written
      /\ listed \in [Procs -> SUBSET Written] /\ found \in [Procs -> SUBSET disk]
    BY <1>0 DEF TypeOK
<1> USE <1>0, <1>t, Numbers, Tables
        DEF RevocationInv, EventsMeant, OwnEvents, FilesApplied, Revokes, Unreadable, Filing,
            Written, Move, editionVars, rowVars, eventVars, boundVars, processVars
<1>1. ASSUME NEW p \in Procs, Publish(p) PROVE RevocationInv'
    BY <1>1 DEF Publish, IsNext, Newest
<1>2. ASSUME NEW p \in Procs, PublishCrash(p) PROVE RevocationInv'
    BY <1>2 DEF PublishCrash, IsNext, Halt
<1>3. ASSUME NEW p \in Procs, NEW e \in Editions, Revoke(p, e) PROVE RevocationInv'
    BY <1>3 DEF Revoke, Readable, Prepare, NoEvent
<1>4. ASSUME NEW p \in Procs, NEW e \in Editions, NEW w \in Editions, Supersede(p, e, w) PROVE RevocationInv'
    BY <1>4 DEF Supersede, Readable, Replaces, Prepare, NoEvent
<1>5. ASSUME NEW p \in Procs, WriteEvent(p) PROVE RevocationInv'
  <2>1. /\ pc[p] = "prepared" /\ pc' = [pc EXCEPT ![p] = "written"] /\ files' = files \cup {job[p]}
        /\ UNCHANGED <<disk, rows, revoked, event, applied, acked, job, listed>>
        /\ job[p] \notin applied \cup acked
    BY <1>5 DEF WriteEvent
  <2>2. EventsMeant' /\ (\A e \in revoked' : \E x \in applied' : Revokes(x, e)')
    BY <2>1
  <2>3. Unreadable(applied \cap files)' /\ acked' \cap files' \subseteq applied'
    <3>1. applied' \cap files' = applied \cap files /\ acked' \cap files' = acked \cap files
      BY <2>1
    <3>2. UNCHANGED <<rows, revoked, event, applied>>
      BY <2>1
    <3>3. Unreadable(applied \cap files) /\ acked \cap files \subseteq applied
      OBVIOUS
    <3> HIDE <1>0, <1>t, <2>1 DEF RevocationInv, Written
    <3> QED
      BY <3>1, <3>2, <3>3
  <2>4. ASSUME NEW q \in Procs, q # p, pc[q] \in Filing PROVE job[q] # job[p]
    BY <2>1, <2>4
  <2>5. OwnEvents'
    BY <2>1, <2>4
  <2>6. FilesApplied'
    BY <2>1, <2>3, <2>4
  <2> QED
    BY <2>2, <2>3, <2>5, <2>6
<1>6. ASSUME NEW p \in Procs, WriteFails(p) PROVE RevocationInv'
    BY <1>6 DEF WriteFails
<1>7. ASSUME NEW p \in Procs, MarkCommitted(p) PROVE RevocationInv'
  <2>1. /\ UNCHANGED <<disk, rows, revoked, event, files, applied, listed>>
        /\ job' = [job EXCEPT ![p] = 0]
        /\ \/ /\ pc[p] = "applied" /\ acked' = acked \cup {job[p]}
              /\ pc' = [pc EXCEPT ![p] = "ready"]
           \/ acked' = acked /\ pc' = [pc EXCEPT ![p] = "recover"]
    BY <1>7 DEF MarkCommitted
  <2>2. /\ EventsMeant' /\ (\A e \in revoked' : \E x \in applied' : Revokes(x, e)')
        /\ Unreadable(applied \cap files)'
    BY <2>1
  <2>3. FilesApplied'
    <3>1. (acked \cap files \subseteq applied)'
      <4>1. /\ acked \cap files \subseteq applied
            /\ pc[p] = "applied" /\ job[p] \in files => job[p] \in applied
        OBVIOUS
      <4> HIDE <1>0, <1>t DEF RevocationInv
      <4> QED
        BY <2>1, <4>1
    <3>2. ASSUME NEW q \in Procs, pc'[q] \in {"listed", "applied"}
          PROVE pc[q] = pc'[q] /\ job'[q] = job[q] /\ listed'[q] = listed[q]
      BY <2>1, <3>2
    <3> QED
      BY <2>1, <3>1, <3>2
  <2>4. ASSUME NEW q \in Procs, pc'[q] \in Filing
        PROVE q # p /\ pc[q] = pc'[q] /\ job'[q] = job[q] /\ (pc[p] = "applied" => job[q] # job[p])
    BY <2>1, <2>4
  <2>5. \A q, r \in Procs : q # r /\ pc'[q] \in Filing /\ pc'[r] \in Filing => job'[q] # job'[r]
    BY <2>4
  <2>6. ASSUME NEW q \in Procs, pc'[q] = "prepared"
        PROVE /\ job'[q] \notin files' \cup applied' \cup acked'
              /\ \A r \in Procs : job'[q] \notin listed'[r]
    BY <2>1, <2>4, <2>6
  <2> QED
    BY <2>2, <2>3, <2>5, <2>6
<1>8. ASSUME NEW p \in Procs, ListFiles(p) PROVE RevocationInv'
    BY <1>8 DEF ListFiles
<1>9. ASSUME NEW p \in Procs, Reconcile(p) PROVE RevocationInv'
  <2>1. EventsMeant' /\ OwnEvents'
    BY <1>9 DEF Reconcile, Intact
  <2>2. FilesApplied'
    <3>1. /\ applied' = listed[p] /\ applied \subseteq listed[p] /\ UNCHANGED <<files, acked, job>>
          /\ listed' = [listed EXCEPT ![p] = {}]
          /\ \/ pc[p] = "listed" /\ pc' = [pc EXCEPT ![p] = "applied"]
             \/ pc' = [pc EXCEPT ![p] = "replayed"] \/ pc' = [pc EXCEPT ![p] = "ready"]
      BY <1>9 DEF Reconcile, Intact
    <3>2. acked' \cap files' \subseteq applied'
      BY <3>1
    <3>3. ASSUME NEW q \in Procs, job'[q] \in files'
          PROVE /\ pc'[q] = "listed" => job'[q] \in listed'[q]
                /\ pc'[q] = "applied" => job'[q] \in applied'
      <4>1. CASE q = p
        BY <3>1, <3>3, <4>1
      <4>2. CASE q # p
        <5>1. pc'[q] = pc[q] /\ job'[q] = job[q] /\ listed'[q] = listed[q]
          BY <3>1, <4>2
        <5> QED
          BY <3>1, <3>3, <5>1
      <4> QED
        BY <4>1, <4>2
    <3> QED
      BY <3>2, <3>3
  <2>3. /\ revoked' = revoked \cup RevokedBy(listed[p] \ applied) /\ applied' = listed[p]
        /\ applied \subseteq listed[p] /\ UNCHANGED <<rows, event, files>>
    BY <1>9 DEF Reconcile, Intact
  <2>4. \A e \in revoked' : \E x \in applied' : Revokes(x, e)'
    BY <2>3 DEF RevokedBy
  <2>5. Unreadable(applied \cap files)'
    BY <2>3 DEF RevokedBy
  <2> QED
    BY <2>1, <2>2, <2>4, <2>5
<1>10. ASSUME NEW p \in Procs, ReconcileFails(p) PROVE RevocationInv'
    BY <1>10 DEF ReconcileFails
<1>11. ASSUME NEW p \in Procs, OpenFails(p) PROVE RevocationInv'
    BY <1>11 DEF OpenFails, Halt
<1>12. ASSUME NEW p \in Procs, RecoverPublish(p) PROVE RevocationInv'
    BY <1>12 DEF RecoverPublish
<1>13. ASSUME NEW p \in Procs, PublishesRecovered(p) PROVE RevocationInv'
    BY <1>13 DEF PublishesRecovered
<1>14. ASSUME NEW p \in Procs, RebuildScan(p) PROVE RevocationInv'
    BY <1>14 DEF RebuildScan
<1>15. ASSUME NEW p \in Procs, RebuildProject(p) PROVE RevocationInv'
    BY <1>15 DEF RebuildProject, RevokedOnDisk, Newest
<1>16. ASSUME NEW p \in Procs, RecoverEvent(p) PROVE RevocationInv'
    BY <1>16 DEF RecoverEvent
<1>17. ASSUME NEW p \in Procs, ReleaseEvent(p) PROVE RevocationInv'
    BY <1>17 DEF ReleaseEvent
<1>18. ASSUME NEW p \in Procs, RecoverDone(p) PROVE RevocationInv'
    BY <1>18 DEF RecoverDone
<1>19. ASSUME NEW p \in Procs, Open(p) PROVE RevocationInv'
    BY <1>19 DEF Open
<1>20. ASSUME NEW p \in Procs, RebuildCommand(p) PROVE RevocationInv'
    BY <1>20 DEF RebuildCommand
<1>21. ASSUME NEW p \in Procs, Exit(p) PROVE RevocationInv'
    BY <1>21 DEF Exit, Halt
<1>22. ASSUME NEW p \in Procs, Crash(p) PROVE RevocationInv'
    BY <1>22 DEF Crash, Halt
<1>23. ASSUME NEW x \in EventIds, LoseEvent(x) PROVE RevocationInv'
    BY <1>23 DEF LoseEvent
<1>24. CASE UNCHANGED vars
    BY <1>24 DEF vars
<1> QED
    BY <1>1, <1>2, <1>3, <1>4, <1>5, <1>6, <1>7, <1>8, <1>9, <1>10, <1>11, <1>12, <1>13, <1>14,
       <1>15, <1>16, <1>17, <1>18, <1>19, <1>20, <1>21, <1>22, <1>23, <1>24 DEF Next, Work

(* What revoke acknowledged stays unreadable while its file is there, in   *)
(* every interleaving.                                                     *)
THEOREM AckedRevokedHolds == Spec => []AckedRevoked
<1>1. RevocationInv => AckedRevoked
    BY DEF RevocationInv, FilesApplied, AckedRevoked, Unreadable
<1> QED
    BY <1>1, RevocationInit, RevocationStep, PTL DEF Spec

LEMMA RevokedStay ==
    RevocationInv /\ [Next]_vars
        => \A e \in revoked \cap rows' : e \in revoked' \/ (ByRebuild /\ RevocationLost(e))
<1> SUFFICES ASSUME RevocationInv, [Next]_vars, NEW e \in revoked \cap rows', e \notin revoked'
             PROVE ByRebuild /\ RevocationLost(e)
    OBVIOUS
<1>1. PICK p \in Procs : RebuildProject(p)
    BY DEF Next, Work, vars, rowVars, eventVars, Publish, PublishCrash, Revoke, Supersede, Prepare, WriteEvent,
           WriteFails, MarkCommitted, ListFiles, Reconcile, ReconcileFails, OpenFails,
           RecoverPublish, PublishesRecovered, RebuildScan, RecoverEvent, ReleaseEvent,
           RecoverDone, Open, RebuildCommand, Exit, Crash, LoseEvent
<1>2. ByRebuild
    BY <1>1 DEF RebuildProject, Move, ByRebuild, RevocationInv, TypeOK
<1>3. PICK x \in applied : Revokes(x, e)
    BY DEF RevocationInv
<1>4. x \notin files
    BY <1>1, <1>3 DEF RebuildProject, RevokedOnDisk
<1> QED
    BY <1>2, <1>3, <1>4 DEF RevocationLost

(* A revocation is undone only by a rebuild that does not find its file,   *)
(* in every interleaving.                                                  *)
THEOREM RevokedForeverHolds == Spec => RevokedForever
<1> DEFINE Kept == \A e \in revoked \cap rows' :
                       e \in revoked' \/ (ByRebuild /\ RevocationLost(e))
<1>1. RevocationInv /\ [Next]_vars => [Kept]_vars
    BY RevokedStay
<1> QED
    BY <1>1, RevocationInit, RevocationStep, PTL DEF Spec, RevokedForever
=============================================================================
