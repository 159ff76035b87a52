----------------------- MODULE MemoryLifecycle_proofs -----------------------
(***************************************************************************)
(* Theorems about MemoryLifecycle, for any memories, anchors, proposals    *)
(* and requests to the page, submissions with any number of anchors and    *)
(* any number of revisions.                                                *)
(***************************************************************************)
EXTENDS MemoryLifecycle, FiniteSetTheorems, TLAPS

-----------------------------------------------------------------------------
(* The invariant *)

(* Evidence belongs to a revision that its memory has had.                 *)
LinksBehind ==
    \A m \in Memories, r \in Revisions, a \in Anchors :
        <<m, r, a>> \in links => Stored(m) /\ r <= Revision(m)

(* ... and to one memory only.                                             *)
EvidenceOwned ==
    \A m, n \in Memories, r, s \in Revisions, a \in Anchors :
        <<m, r, a>> \in links /\ <<n, s, a>> \in links => m = n

(* Nothing is reported about an anchor the vault does not have.            *)
ReportsKnown ==
    \A a \in reported : \E m \in Memories, r \in Revisions : <<m, r, a>> \in links

(* The target of a confirmed proposal is beyond what was expected.         *)
ConfirmedPassed ==
    \A p \in Proposals : Confirmed(p) => proposal[p].expected < Revision(TargetOf[p])

(* What depends on the memories and their evidence alone *)
LedgerInv ==
    /\ LinksBehind
    /\ EvidenceOwned
    /\ ReportsKnown
    /\ ActiveIsBacked
    /\ ServedHasEvidence
    /\ ChangesReachTheLive

LifecycleInv == TypeOK /\ LedgerInv /\ ConfirmedPassed /\ OneConfirmedPerRevision

-----------------------------------------------------------------------------
(* Facts about the data *)

(* What a stored memory is, and what tells it from none                    *)
LEMMA ArtifactFacts ==
    ASSUME TypeOK, NEW m \in Memories
    PROVE  /\ Stored(m) => Status(m) \in Statuses /\ Revision(m) \in Revisions
           /\ ~Stored(m) => Status(m) = "absent" /\ Revision(m) = 0
           /\ Stored(m) <=> Status(m) # "absent"
           /\ Stored(m) => artifact[m] \in Artifacts
BY DEF TypeOK, Stored, Status, Revision, Artifacts, Absent, Statuses

(* What may become of a memory: nothing retired comes back.                *)
LEMMA TransitionFacts ==
    ASSUME NEW m, NEW s, MayBecome(m, s)
    PROVE  /\ s \in Statuses /\ Status(m) \in Statuses
           /\ s \in {"candidate", "active", "disputed"} => Live(m)
           /\ ~Live(m) => s = "archived"
           /\ s = "disputed" => Status(m) = "active"
           /\ s = "active" => Status(m) \in {"candidate", "disputed"}
BY DEF MayBecome, Transitions, Statuses, Live

(* Evidence and the anchors in use, by the links                           *)
LEMMA EvidenceFacts ==
    ASSUME TypeOK
    PROVE  /\ \A m \in Memories, r \in Revisions :
                 Evidence(m, r) = {a \in Anchors : <<m, r, a>> \in links}
           /\ \A a \in Anchors : a \notin Known =>
                 \A m \in Memories, r \in Revisions : <<m, r, a>> \notin links
           /\ \A a \in Known : \E m \in Memories, r \in Revisions : <<m, r, a>> \in links
           /\ \A S \in NewEvidence : S \subseteq Anchors \ Known
<1>1. \A a \in Anchors : a \notin Known => \A m \in Memories, r \in Revisions : <<m, r, a>> \notin links
  <2> SUFFICES ASSUME NEW a \in Anchors, NEW m \in Memories, NEW r \in Revisions,
                      <<m, r, a>> \in links
               PROVE  a \in Known
    OBVIOUS
  <2>1. <<m, r, a>>[3] = a
    OBVIOUS
  <2> QED
    BY <2>1 DEF Known
<1>2. \A a \in Known : \E m \in Memories, r \in Revisions : <<m, r, a>> \in links
  <2> SUFFICES ASSUME NEW l \in links
               PROVE  \E m \in Memories, r \in Revisions : <<m, r, l[3]>> \in links
    BY DEF Known
  <2>1. PICK m \in Memories, r \in Revisions, b \in Anchors : l = <<m, r, b>>
    BY DEF TypeOK
  <2> QED
    BY <2>1
<1> QED
    BY <1>1, <1>2 DEF Evidence, NewEvidence

-----------------------------------------------------------------------------
(* The two kinds of step *)

(* New content: a revision of its own, resting on new evidence             *)
LEMMA NewContent ==
    ASSUME LifecycleInv, NEW m \in Memories, NEW st \in Statuses, NEW n \in Revisions,
           NEW S \in SUBSET (Anchors \ Known),
           S = {} => st = "candidate",
           Revision(m) < n,
           artifact' = [artifact EXCEPT ![m] = [status |-> st, revision |-> n]],
           Link(m, n, S),
           backed \subseteq backed', st = "active" => <<m, n>> \in backed',
           st \in {"active", "disputed"} => S # {},
           events' = events, reported' = reported
    PROVE  /\ LedgerInv'
           /\ artifact' \in [Memories -> Artifacts \cup {Absent}]
           /\ links' \subseteq Memories \X Revisions \X Anchors
           /\ \A x \in Memories : Stored(x) => Stored(x)'
           /\ \A x \in Memories : Revision(x) <= Revision(x)'
<1> USE DEF LifecycleInv
<1>1. /\ artifact' \in [Memories -> Artifacts \cup {Absent}]
      /\ Stored(m)' /\ Status(m)' = st /\ Revision(m)' = n
      /\ \A x \in Memories \ {m} : artifact'[x] = artifact[x]
    BY DEF TypeOK, Artifacts, Stored, Status, Revision, Absent, Revisions, Statuses
<1>2. \A x \in Memories \ {m} : /\ Stored(x)' = Stored(x) /\ Status(x)' = Status(x)
                                /\ Revision(x)' = Revision(x)
    BY <1>1 DEF Stored, Status, Revision
<1>3. \A x \in Memories : Revision(x) \in Nat
    BY ArtifactFacts DEF Revisions
<1>4. (\A x \in Memories : Stored(x) => Stored(x)') /\ \A x \in Memories : Revision(x) <= Revision(x)'
    BY <1>1, <1>2, <1>3 DEF Revisions
<1>5. links' = links \cup {<<m, n, a>> : a \in S}
    BY DEF Link
<1>6. \A x \in Memories, r \in Revisions, a \in Anchors :
          <<x, r, a>> \in links' <=> <<x, r, a>> \in links \/ (x = m /\ r = n /\ a \in S)
    BY <1>5
<1>7. links' \subseteq Memories \X Revisions \X Anchors
    BY <1>5 DEF TypeOK
<1>8. \A a \in Anchors : <<m, n, a>> \notin links
    BY <1>3 DEF LedgerInv, LinksBehind, Revisions
<1>9. \A a \in S : \A x \in Memories, r \in Revisions : <<x, r, a>> \notin links
    BY EvidenceFacts
<1>10. S \cap reported = {}
    BY <1>9 DEF LedgerInv, ReportsKnown, TypeOK
<1>11. Evidence(m, n)' = S
    BY <1>6, <1>8 DEF Evidence
<1>12. \A x \in Memories \ {m}, r \in Revisions : Evidence(x, r)' = Evidence(x, r)
    BY <1>6 DEF Evidence
<1>13. LinksBehind'
    BY <1>1, <1>2, <1>3, <1>6 DEF LedgerInv, LinksBehind, Revisions
<1>14. EvidenceOwned'
    BY <1>6, <1>9 DEF LedgerInv, EvidenceOwned
<1>15. ReportsKnown'
    BY <1>6 DEF LedgerInv, ReportsKnown, TypeOK
<1>16. ActiveIsBacked'
    BY <1>1, <1>2 DEF LedgerInv, ActiveIsBacked
<1>17. ServedHasEvidence'
  <2> SUFFICES ASSUME NEW x \in Memories, Status(x)' \in {"active", "disputed"}
               PROVE  Evidence(x, Revision(x))' # {}
    BY DEF ServedHasEvidence
  <2>1. CASE x = m
    BY <2>1, <1>1, <1>11
  <2>2. CASE x # m
    <3>1. Revision(x) \in Revisions /\ Evidence(x, Revision(x)) # {}
      BY <2>2, <1>2, ArtifactFacts DEF LedgerInv, ServedHasEvidence
    <3> QED
      BY <3>1, <2>2, <1>2, <1>12
  <2> QED
    BY <2>1, <2>2
<1>18. ChangesReachTheLive'
  <2> SUFFICES ASSUME NEW x \in Memories, Live(x)'
               PROVE  Evidence(x, Revision(x))' \cap reported' \subseteq events'
    BY DEF ChangesReachTheLive
  <2>1. CASE x = m
    BY <2>1, <1>1, <1>10, <1>11
  <2>2. CASE x # m
    <3>1. Live(x) /\ Revision(x) \in Revisions
      BY <2>2, <1>2, ArtifactFacts DEF Live
    <3> QED
      BY <3>1, <2>2, <1>2, <1>12 DEF LedgerInv, ChangesReachTheLive
  <2> QED
    BY <2>1, <2>2
<1> QED
    BY <1>1, <1>4, <1>7, <1>13, <1>14, <1>15, <1>16, <1>17, <1>18 DEF LedgerInv

(* Another status for the same content                                     *)
LEMMA NewStatus ==
    ASSUME LifecycleInv, NEW m \in Memories, NEW st \in Statuses, Stored(m),
           artifact' = [artifact EXCEPT ![m].status = st],
           links' = links, events' = events, reported' = reported,
           \A x \in Memories \ {m} : \A r \in Revisions : <<x, r>> \in backed => <<x, r>> \in backed',
           st = "active" => <<m, Revision(m)>> \in backed',
           st \in {"active", "disputed"} => Evidence(m, Revision(m)) # {},
           st \in {"candidate", "active", "disputed"} => Live(m)
    PROVE  /\ LedgerInv'
           /\ artifact' \in [Memories -> Artifacts \cup {Absent}]
           /\ \A x \in Memories : Stored(x) => Stored(x)'
           /\ \A x \in Memories : Revision(x)' = Revision(x)
<1> USE DEF LifecycleInv
<1>1. /\ artifact' \in [Memories -> Artifacts \cup {Absent}]
      /\ Stored(m)' /\ Status(m)' = st /\ Revision(m)' = Revision(m)
      /\ \A x \in Memories \ {m} : artifact'[x] = artifact[x]
    BY ArtifactFacts DEF TypeOK, Artifacts, Stored, Status, Revision, Absent, Revisions, Statuses
<1>2. \A x \in Memories \ {m} : Stored(x)' = Stored(x) /\ Status(x)' = Status(x)
    BY <1>1 DEF Stored, Status
<1>3. \A x \in Memories : Revision(x)' = Revision(x)
    BY <1>1 DEF Revision
<1>4. \A x \in Memories : Stored(x) => Stored(x)'
    BY <1>1, <1>2
<1>5. \A x, r : Evidence(x, r)' = Evidence(x, r)
    BY DEF Evidence
<1>6. LinksBehind'
    BY <1>3, <1>4 DEF LedgerInv, LinksBehind
<1>7. EvidenceOwned' /\ ReportsKnown'
    BY DEF LedgerInv, EvidenceOwned, ReportsKnown
<1>8. ActiveIsBacked'
    BY <1>1, <1>2, <1>3, ArtifactFacts DEF LedgerInv, ActiveIsBacked
<1>9. ServedHasEvidence'
    BY <1>1, <1>2, <1>3, <1>5 DEF LedgerInv, ServedHasEvidence
<1>10. ChangesReachTheLive'
  <2>1. \A x \in Memories : Live(x)' => Live(x)
    BY <1>1, <1>2 DEF Live
  <2> QED
    BY <2>1, <1>3, <1>5 DEF LedgerInv, ChangesReachTheLive
<1> QED
    BY <1>1, <1>3, <1>4, <1>6, <1>7, <1>8, <1>9, <1>10 DEF LedgerInv

-----------------------------------------------------------------------------
(* What the operations do to the memories *)

(* What every operation gives that leaves the proposals alone              *)
LEMMA ProposalsKept ==
    ASSUME LifecycleInv, proposal' = proposal, \A x \in Memories : Revision(x) <= Revision(x)',
           \A x \in Memories : Revision(x) \in Nat /\ Revision(x)' \in Nat
    PROVE  ConfirmedPassed' /\ OneConfirmedPerRevision'
<1>1. \A p \in Proposals : Confirmed(p)' = Confirmed(p) /\ TargetOf[p] \in Memories
    BY ConstantsAssumption DEF Confirmed
<1>2. \A p \in Proposals : Confirmed(p) => proposal[p].expected \in Nat
    BY DEF LifecycleInv, TypeOK, Confirmed, NoProposal, ProposalRows, Revisions
<1>3. ConfirmedPassed'
    BY <1>1, <1>2 DEF LifecycleInv, ConfirmedPassed
<1> QED
    BY <1>1, <1>3 DEF LifecycleInv, OneConfirmedPerRevision

(* A decision in its three outcomes                                        *)
LEMMA DecideFacts ==
    ASSUME NEW m, NEW r, NEW o \in Outcomes, Decide(m, r, o)
    PROVE  /\ o = "corroborated" => backed' = backed \cup {<<m, r>>}
           /\ o = "invalidated" => backed' = backed \ {<<m, r>>}
           /\ o = "needs_review" => backed' = backed
BY DEF Decide, Outcomes

(* assure, from wherever it is called                                      *)
LEMMA AssureKeeps ==
    ASSUME LifecycleInv, NEW m \in Memories, NEW r \in Revisions, NEW o \in Outcomes, Assure(m, r, o),
           page' \in [Reviewers -> Requests \cup {NoRequest}]
    PROVE  LifecycleInv'
<1> USE DEF LifecycleInv
<1> DEFINE st == Target(m, o)
<1>1. /\ Stored(m) /\ Revision(m) = r /\ Evidence(m, r) # {}
      /\ artifact' = [artifact EXCEPT ![m].status = st]
      /\ Status(m) = st \/ MayBecome(m, st)
    BY DEF Assure, MayBecomeOrBe
<1>2. Decide(m, r, o) /\ UNCHANGED <<links, events, reported, captured, auto, proposal>>
    BY DEF Assure
<1>3. backed \ {<<m, r>>} \subseteq backed' /\ backed' \subseteq backed \cup {<<m, r>>}
      /\ (o = "corroborated" => <<m, r>> \in backed') /\ (o = "needs_review" => backed' = backed)
    BY <1>2, DecideFacts DEF Outcomes
<1>4. st = "active" => o = "corroborated" \/ (o = "needs_review" /\ Status(m) = "active")
    BY DEF Target, Outcomes
<1>5. st \in Statuses /\ (st \in {"candidate", "active", "disputed"} => Live(m))
    BY <1>1, TransitionFacts, ArtifactFacts DEF Live
<1>6. st = "active" => <<m, Revision(m)>> \in backed'
    BY <1>1, <1>3, <1>4 DEF LedgerInv, ActiveIsBacked
<1>7. \A x \in Memories \ {m} : \A n \in Revisions : <<x, n>> \in backed => <<x, n>> \in backed'
    BY <1>3
<1> HIDE DEF st
<1>8. /\ LedgerInv'
      /\ artifact' \in [Memories -> Artifacts \cup {Absent}]
      /\ \A x \in Memories : Stored(x) => Stored(x)'
      /\ \A x \in Memories : Revision(x)' = Revision(x)
    BY <1>1, <1>2, <1>5, <1>6, <1>7, NewStatus
<1>9. TypeOK'
    BY <1>2, <1>3, <1>8 DEF TypeOK
<1>10. \A x \in Memories : Revision(x) \in Nat
    BY ArtifactFacts DEF Revisions
<1>11. ConfirmedPassed' /\ OneConfirmedPerRevision'
    BY <1>2, <1>8, <1>10, ProposalsKept
<1> QED
    BY <1>8, <1>9, <1>11

(* edit_and_confirm_auto_candidate: the same evidence for a new revision   *)
LEMMA EditAndConfirmKeeps ==
    ASSUME LifecycleInv, NEW m \in Memories, NEW r \in Revisions, EditAndConfirm(m, r),
           page' \in [Reviewers -> Requests \cup {NoRequest}]
    PROVE  LifecycleInv'
<1> USE DEF LifecycleInv
<1>1. /\ Status(m) = "candidate" /\ Revision(m) = r /\ Evidence(m, r) # {}
      /\ artifact' = [artifact EXCEPT ![m] = [Revised(m) EXCEPT !.status = "active"]]
      /\ Link(m, r + 1, Evidence(m, r)) /\ Decide(m, r + 1, "corroborated")
      /\ UNCHANGED <<events, reported, captured, auto, proposal>>
    BY DEF EditAndConfirm
<1>2. Stored(m) /\ artifact[m] \in Artifacts
    BY <1>1, ArtifactFacts
<1>3. r + 1 \in Revisions /\ Revised(m) = [artifact[m] EXCEPT !.revision = r + 1]
    BY <1>1 DEF Revisions, Revised, Revision
<1>4. /\ artifact' \in [Memories -> Artifacts \cup {Absent}]
      /\ Stored(m)' /\ Status(m)' = "active" /\ Revision(m)' = r + 1
      /\ \A x \in Memories \ {m} : artifact'[x] = artifact[x]
    BY <1>1, <1>2, <1>3 DEF TypeOK, Artifacts, Stored, Status, Revision, Absent, Revisions, Statuses
<1>5. \A x \in Memories \ {m} : /\ Stored(x)' = Stored(x) /\ Status(x)' = Status(x)
                                /\ Revision(x)' = Revision(x)
    BY <1>4 DEF Stored, Status, Revision
<1>6. \A x \in Memories : Revision(x) \in Nat
    BY ArtifactFacts DEF Revisions
<1>7. \A x \in Memories : Revision(x) <= Revision(x)' /\ Revision(x)' \in Nat
    BY <1>1, <1>4, <1>5, <1>6 DEF Revisions
<1>8. backed' = backed \cup {<<m, r + 1>>}
    BY <1>1, DecideFacts DEF Outcomes
<1>9. links' = links \cup {<<m, r + 1, a>> : a \in Evidence(m, r)}
    BY <1>1 DEF Link
<1>10. \A x \in Memories, n \in Revisions, a \in Anchors :
           <<x, n, a>> \in links' <=> <<x, n, a>> \in links \/ (x = m /\ n = r + 1 /\ a \in Evidence(m, r))
    BY <1>9
<1>11. \A a \in Evidence(m, r) : a \in Anchors /\ <<m, r, a>> \in links
    BY DEF Evidence
<1>12. links' \subseteq Memories \X Revisions \X Anchors
  <2>1. \A a \in Evidence(m, r) : <<m, r + 1, a>> \in Memories \X Revisions \X Anchors
    BY <1>3, <1>11
  <2> QED
    BY <2>1, <1>9 DEF TypeOK
<1>13. \A a \in Anchors : <<m, r + 1, a>> \notin links
    BY <1>1, <1>3 DEF LedgerInv, LinksBehind, Revisions
<1>14. Evidence(m, r + 1)' = Evidence(m, r)
    BY <1>3, <1>10, <1>13 DEF Evidence
<1>15. \A x \in Memories \ {m}, n \in Revisions : Evidence(x, n)' = Evidence(x, n)
    BY <1>10 DEF Evidence
<1>16. LinksBehind'
    BY <1>1, <1>4, <1>5, <1>6, <1>10 DEF LedgerInv, LinksBehind, Revisions
<1>17. EvidenceOwned'
  <2> SUFFICES ASSUME NEW x \in Memories, NEW y \in Memories, NEW n \in Revisions, NEW k \in Revisions,
                      NEW a \in Anchors, <<x, n, a>> \in links', <<y, k, a>> \in links'
               PROVE  x = y
    BY DEF EvidenceOwned
  <2>1. \A z \in Memories, i \in Revisions : <<z, i, a>> \in links' => \E j \in Revisions : <<z, j, a>> \in links
    BY <1>10, <1>11
  <2> QED
    BY <2>1 DEF LedgerInv, EvidenceOwned
<1>18. ReportsKnown'
    BY <1>1, <1>10 DEF LedgerInv, ReportsKnown, TypeOK
<1>19. ActiveIsBacked'
    BY <1>4, <1>5, <1>8 DEF LedgerInv, ActiveIsBacked
<1>20. ServedHasEvidence'
  <2>1. \A x \in Memories \ {m} : Status(x)' \in {"active", "disputed"} => Evidence(x, Revision(x))' # {}
    BY <1>5, <1>15, ArtifactFacts DEF LedgerInv, ServedHasEvidence
  <2> QED
    BY <2>1, <1>1, <1>4, <1>14 DEF ServedHasEvidence
<1>21. ChangesReachTheLive'
  <2>1. \A x \in Memories \ {m} : Live(x)' => Evidence(x, Revision(x))' \cap reported' \subseteq events'
    BY <1>1, <1>5, <1>15, ArtifactFacts DEF LedgerInv, ChangesReachTheLive, Live
  <2>2. Evidence(m, r) \cap reported \subseteq events
    BY <1>1 DEF LedgerInv, ChangesReachTheLive, Live
  <2> QED
    BY <2>1, <2>2, <1>1, <1>4, <1>14 DEF ChangesReachTheLive
<1>22. TypeOK'
    BY <1>1, <1>3, <1>4, <1>5, <1>8, <1>12 DEF TypeOK
<1>23. ConfirmedPassed' /\ OneConfirmedPerRevision'
    BY <1>1, <1>6, <1>7, ProposalsKept
<1> QED
    BY <1>16, <1>17, <1>18, <1>19, <1>20, <1>21, <1>22, <1>23 DEF LedgerInv

(* record_source_change *)
LEMMA SourceChangeKeeps ==
    ASSUME LifecycleInv, NEW a \in Anchors, SourceChange(a)
    PROVE  LifecycleInv'
<1> USE DEF LifecycleInv
<1>1. /\ \A m \in Affected(a) : MayBecomeOrBe(m, Doubted(m))
      /\ artifact' = [m \in Memories |-> IF m \in Affected(a) THEN [artifact[m] EXCEPT !.status = Doubted(m)]
                                                             ELSE artifact[m]]
      /\ backed' = backed \ {<<m, Revision(m)>> : m \in Affected(a)}
      /\ events' = events \cup {a} /\ reported' = reported \cup {a}
      /\ UNCHANGED <<links, captured, auto, proposal, page>>
      /\ a \in Known
    BY DEF SourceChange
<1>2. \A m \in Affected(a) : /\ m \in Memories /\ Stored(m) /\ Live(m)
                             /\ Doubted(m) \in {"rejected", "disputed"}
                             /\ <<m, Revision(m), a>> \in links
  <2> SUFFICES ASSUME NEW m \in Affected(a)
               PROVE  m \in Memories /\ Stored(m) /\ Live(m) /\ Doubted(m) \in {"rejected", "disputed"}
                      /\ <<m, Revision(m), a>> \in links
    OBVIOUS
  <2>1. m \in Memories /\ Stored(m) /\ <<m, Revision(m), a>> \in links
    BY DEF Affected
  <2>2. Doubted(m) \in {"rejected", "disputed"} /\ (Doubted(m) = "rejected" => Status(m) = "candidate")
    BY DEF Doubted
  <2>3. Status(m) = Doubted(m) \/ MayBecome(m, Doubted(m))
    BY <1>1 DEF MayBecomeOrBe
  <2> QED
    BY <2>1, <2>2, <2>3, TransitionFacts DEF Live
<1>3. /\ artifact' \in [Memories -> Artifacts \cup {Absent}]
      /\ \A m \in Memories : Stored(m)' = Stored(m) /\ Revision(m)' = Revision(m)
      /\ \A m \in Affected(a) : Status(m)' = Doubted(m)
      /\ \A m \in Memories \ Affected(a) : Status(m)' = Status(m)
  <2>1. \A m \in Affected(a) : /\ artifact[m] \in Artifacts
                               /\ artifact'[m] = [artifact[m] EXCEPT !.status = Doubted(m)]
    BY <1>1, <1>2, ArtifactFacts
  <2>2. \A m \in Affected(a) : /\ artifact'[m] \in Artifacts /\ artifact'[m] # Absent
                               /\ artifact'[m].status = Doubted(m)
                               /\ artifact'[m].revision = artifact[m].revision
    <3> SUFFICES ASSUME NEW m \in Affected(a)
                 PROVE  /\ artifact'[m] \in Artifacts /\ artifact'[m] # Absent
                        /\ artifact'[m].status = Doubted(m)
                        /\ artifact'[m].revision = artifact[m].revision
      OBVIOUS
    <3>1. PICK s \in Statuses, r \in Revisions : artifact[m] = [status |-> s, revision |-> r]
      BY <2>1 DEF Artifacts
    <3>2. artifact'[m] = [status |-> Doubted(m), revision |-> r]
      BY <2>1, <3>1
    <3>3. Doubted(m) \in Statuses \ {"absent"}
      BY <1>2 DEF Statuses
    <3>4. artifact'[m] \in Artifacts
      BY <3>2, <3>3 DEF Artifacts
    <3>5. artifact'[m].status = Doubted(m) /\ artifact'[m].revision = artifact[m].revision
      BY <3>1, <3>2
    <3>6. artifact'[m] # Absent
      BY <3>3, <3>5 DEF Absent
    <3> QED
      BY <3>4, <3>5, <3>6
  <2>3. \A m \in Memories \ Affected(a) : artifact'[m] = artifact[m]
    BY <1>1
  <2> QED
    BY <1>1, <1>2, <2>2, <2>3 DEF TypeOK, Stored, Status, Revision
<1>4. \A x, r : Evidence(x, r)' = Evidence(x, r)
    BY <1>1 DEF Evidence
<1>5. \E m \in Memories, r \in Revisions : <<m, r, a>> \in links
    BY <1>1, EvidenceFacts
<1>6. LinksBehind' /\ EvidenceOwned'
    BY <1>1, <1>3 DEF LedgerInv, LinksBehind, EvidenceOwned
<1>7. ReportsKnown'
    BY <1>1, <1>5 DEF LedgerInv, ReportsKnown
<1>8. ActiveIsBacked'
  <2> SUFFICES ASSUME NEW m \in Memories, Status(m)' = "active"
               PROVE  <<m, Revision(m)>>' \in backed'
    BY DEF ActiveIsBacked
  <2>1. m \notin Affected(a)
    BY <1>2, <1>3
  <2>2. <<m, Revision(m)>> \in backed
    BY <2>1, <1>3 DEF LedgerInv, ActiveIsBacked
  <2> QED
    BY <2>1, <2>2, <1>1, <1>3
<1>9. ServedHasEvidence'
  <2> SUFFICES ASSUME NEW m \in Memories, Status(m)' \in {"active", "disputed"}
               PROVE  Evidence(m, Revision(m))' # {}
    BY DEF ServedHasEvidence
  <2>1. CASE m \in Affected(a)
    <3>1. a \in Evidence(m, Revision(m))
      BY <2>1, <1>2 DEF Evidence
    <3> QED
      BY <3>1, <1>3, <1>4
  <2>2. CASE m \notin Affected(a)
    BY <2>2, <1>3, <1>4 DEF LedgerInv, ServedHasEvidence
  <2> QED
    BY <2>1, <2>2
<1>10. ChangesReachTheLive'
  <2>1. \A m \in Memories : Live(m)' => Live(m)
    BY <1>2, <1>3 DEF Live
  <2> QED
    BY <2>1, <1>1, <1>3, <1>4 DEF LedgerInv, ChangesReachTheLive
<1>11. TypeOK'
    BY <1>1, <1>3 DEF TypeOK
<1>12. \A x \in Memories : Revision(x) \in Nat
    BY ArtifactFacts DEF Revisions
<1>13. ConfirmedPassed' /\ OneConfirmedPerRevision'
    BY <1>1, <1>3, <1>12, ProposalsKept
<1> QED
    BY <1>6, <1>7, <1>8, <1>9, <1>10, <1>11, <1>13 DEF LedgerInv

(* A report that fails is about the evidence of a retired memory, hence of *)
(* no other.                                                               *)
LEMMA SourceChangeFailsKeeps ==
    ASSUME LifecycleInv, NEW a \in Anchors, SourceChangeFails(a)
    PROVE  LifecycleInv'
<1> USE DEF LifecycleInv
<1>1. /\ reported' = reported \cup {a}
      /\ UNCHANGED <<artifact, links, backed, events, captured, auto, proposal, page>>
    BY DEF SourceChangeFails
<1>2. PICK m \in Affected(a) : ~MayBecomeOrBe(m, Doubted(m))
    BY DEF SourceChangeFails
<1>3. m \in Memories /\ Stored(m) /\ <<m, Revision(m), a>> \in links
    BY DEF Affected
<1>4. ~Live(m)
    BY <1>2 DEF MayBecomeOrBe, MayBecome, Doubted, Transitions, Live
<1>5. Revision(m) \in Revisions
    BY <1>3, ArtifactFacts
<1>6. UNCHANGED <<LinksBehind, EvidenceOwned, ActiveIsBacked, ServedHasEvidence>>
    BY <1>1 DEF LinksBehind, EvidenceOwned, ActiveIsBacked, ServedHasEvidence, Stored, Status,
                Revision, Evidence
<1>7. ReportsKnown'
    BY <1>1, <1>3, <1>5 DEF LedgerInv, ReportsKnown
<1>8. ChangesReachTheLive'
  <2> SUFFICES ASSUME NEW x \in Memories, Live(x)
               PROVE  Evidence(x, Revision(x)) \cap reported' \subseteq events
    BY <1>1 DEF ChangesReachTheLive, Live, Status, Evidence, Revision
  <2>1. Revision(x) \in Revisions
    BY ArtifactFacts DEF Live
  <2>2. a \notin Evidence(x, Revision(x))
    BY <2>1, <1>3, <1>4, <1>5 DEF LedgerInv, EvidenceOwned, Evidence
  <2> QED
    BY <2>2, <1>1 DEF LedgerInv, ChangesReachTheLive
<1>9. TypeOK'
    BY <1>1 DEF TypeOK, Stored
<1>10. ConfirmedPassed' /\ OneConfirmedPerRevision'
    BY <1>1 DEF ConfirmedPassed, OneConfirmedPerRevision, Confirmed, Revision
<1> QED
    BY <1>6, <1>7, <1>8, <1>9, <1>10 DEF LedgerInv

(* intake of something new, and import                                     *)
LEMMA NewMemoryKeeps ==
    ASSUME LifecycleInv, NEW m \in Memories, NEW s \in Statuses, NEW n \in Revisions, NEW S \in SUBSET Anchors,
           ~Stored(m),
           S \in NewEvidence \/ (S = {} /\ s = "candidate"),
           artifact' = [artifact EXCEPT ![m] = [status |-> s, revision |-> n]],
           Link(m, n, S),
           Decide(m, n, IF s = "active" THEN "corroborated" ELSE "needs_review"),
           auto' \subseteq auto \cup {m}, captured' \subseteq captured \cup {m},
           UNCHANGED <<events, reported, proposal, page>>
    PROVE  LifecycleInv'
<1> USE DEF LifecycleInv
<1>1. backed \subseteq backed' /\ backed' \subseteq backed \cup {<<m, n>>} /\ (s = "active" => <<m, n>> \in backed')
  <2>1. CASE s = "active"
    BY <2>1, DecideFacts DEF Outcomes
  <2>2. CASE s # "active"
    BY <2>2, DecideFacts DEF Outcomes
  <2> QED
    BY <2>1, <2>2
<1>2. S \in SUBSET (Anchors \ Known) /\ (S = {} => s = "candidate")
  <2>1. S \in NewEvidence => S # {}
    BY FS_EmptySet DEF NewEvidence
  <2> QED
    BY <2>1, EvidenceFacts
<1>3. Revision(m) < n
    BY ArtifactFacts DEF Revisions
<1>4. /\ LedgerInv'
      /\ artifact' \in [Memories -> Artifacts \cup {Absent}]
      /\ links' \subseteq Memories \X Revisions \X Anchors
      /\ \A x \in Memories : Stored(x) => Stored(x)'
      /\ \A x \in Memories : Revision(x) <= Revision(x)'
    BY <1>1, <1>2, <1>3, NewContent
<1>5. Stored(m)'
    BY DEF TypeOK, Stored, Absent, Revisions, Statuses
<1>6. TypeOK'
    BY <1>1, <1>4, <1>5 DEF TypeOK
<1>7. \A x \in Memories : Revision(x) \in Nat /\ Revision(x)' \in Nat
    BY <1>4 DEF TypeOK, Revision, Artifacts, Absent, Revisions
<1> QED
    BY <1>4, <1>6, <1>7, ProposalsKept

(* A revision of a stored memory on new evidence                           *)
LEMMA RevisedKeeps ==
    ASSUME LifecycleInv, NEW m \in Memories, NEW S \in SUBSET Anchors,
           Stored(m), S \in NewEvidence,
           artifact' = [artifact EXCEPT ![m] = Revised(m)],
           Link(m, Revision(m) + 1, S),
           Decide(m, Revision(m) + 1, "corroborated"),
           captured' \subseteq captured \cup {m},
           UNCHANGED <<events, reported, auto, page>>
    PROVE  /\ LedgerInv'
           /\ proposal' \in [Proposals -> ProposalRows \cup {NoProposal}] => TypeOK'
           /\ Revision(m)' = Revision(m) + 1
           /\ \A x \in Memories : Revision(x) <= Revision(x)'
           /\ \A x \in Memories : Revision(x) \in Nat /\ Revision(x)' \in Nat
<1> USE DEF LifecycleInv
<1> DEFINE n == Revision(m) + 1
<1>1. artifact[m] \in Artifacts /\ Status(m) \in Statuses /\ Revision(m) \in Revisions
    BY ArtifactFacts
<1>2. n \in Revisions /\ Revision(m) < n
    BY <1>1 DEF Revisions
<1>3. Revised(m) = [status |-> Status(m), revision |-> n]
  <2>1. PICK s \in Statuses, r \in Revisions : artifact[m] = [status |-> s, revision |-> r]
    BY <1>1 DEF Artifacts
  <2> QED
    BY <2>1 DEF Revised, Status, Revision
<1>4. backed' = backed \cup {<<m, n>>}
    BY DecideFacts DEF Outcomes
<1>5. S \in SUBSET (Anchors \ Known) /\ S # {}
  <2>1. S \in NewEvidence => S # {}
    BY FS_EmptySet DEF NewEvidence
  <2> QED
    BY <2>1, EvidenceFacts
<1> HIDE DEF n
<1>6. Link(m, n, S)
    BY DEF n
<1>7. /\ LedgerInv'
      /\ artifact' \in [Memories -> Artifacts \cup {Absent}]
      /\ links' \subseteq Memories \X Revisions \X Anchors
      /\ \A x \in Memories : Stored(x) => Stored(x)'
      /\ \A x \in Memories : Revision(x) <= Revision(x)'
    BY <1>1, <1>2, <1>3, <1>4, <1>5, <1>6, NewContent
<1>8. backed' \subseteq Memories \X Revisions
    BY <1>2, <1>4 DEF TypeOK
<1>9. Revision(m)' = n
    BY <1>3 DEF TypeOK, Revision
<1>10. \A x \in Memories : Revision(x) \in Nat /\ Revision(x)' \in Nat
    BY <1>7 DEF TypeOK, Revision, Artifacts, Absent, Revisions
<1> QED
    BY <1>7, <1>8, <1>9, <1>10 DEF TypeOK, n

(* review_memory_revision: the second of two proposals finds its target    *)
(* beyond what it expects.                                                 *)
LEMMA ConfirmRevisionKeeps ==
    ASSUME LifecycleInv, NEW p \in Proposals, NEW S \in SUBSET Anchors, ConfirmRevision(p, S)
    PROVE  LifecycleInv'
<1> USE DEF LifecycleInv
<1> DEFINE m == TargetOf[p]
<1>1. /\ m \in Memories /\ proposal[p].status = "pending" /\ Revision(m) = proposal[p].expected
      /\ proposal' = [proposal EXCEPT ![p].status = "confirmed"]
      /\ StoreRevision(m, S)
    BY ConstantsAssumption DEF ConfirmRevision, StillExpected, Settle
<1>2. proposal[p] \in ProposalRows
    BY <1>1 DEF TypeOK, NoProposal
<1>3. PICK e \in Revisions : proposal[p] = [status |-> "pending", expected |-> e]
    BY <1>1, <1>2 DEF ProposalRows
<1>4. /\ proposal' \in [Proposals -> ProposalRows \cup {NoProposal}]
      /\ Confirmed(p)' /\ proposal'[p].expected = proposal[p].expected
      /\ \A q \in Proposals \ {p} : proposal'[q] = proposal[q]
    BY <1>1, <1>2, <1>3 DEF TypeOK, ProposalRows, Confirmed
<1>5. \A q \in Proposals \ {p} : Confirmed(q)' = Confirmed(q)
    BY <1>4 DEF Confirmed
<1>6. Stored(m)
    BY <1>1, ArtifactFacts DEF StoreRevision
<1>7. /\ LedgerInv' /\ TypeOK'
      /\ Revision(m)' = Revision(m) + 1
      /\ \A x \in Memories : Revision(x) <= Revision(x)'
      /\ \A x \in Memories : Revision(x) \in Nat /\ Revision(x)' \in Nat
  <2>1. /\ S \in NewEvidence
        /\ artifact' = [artifact EXCEPT ![m] = Revised(m)]
        /\ Link(m, Revision(m) + 1, S)
        /\ Decide(m, Revision(m) + 1, "corroborated")
        /\ UNCHANGED <<events, reported, captured, auto, page>>
    BY <1>1 DEF StoreRevision
  <2> HIDE DEF m
  <2> QED
    BY <2>1, <1>1, <1>4, <1>6, RevisedKeeps
<1>8. \A q \in Proposals : /\ TargetOf[q] \in Memories /\ proposal'[q].expected = proposal[q].expected
                           /\ Confirmed(q) => proposal[q].expected \in Nat
    BY <1>4, ConstantsAssumption DEF TypeOK, Confirmed, NoProposal, ProposalRows, Revisions
<1>9. ConfirmedPassed'
  <2> SUFFICES ASSUME NEW q \in Proposals, Confirmed(q)'
               PROVE  proposal'[q].expected < Revision(TargetOf[q])'
    BY DEF ConfirmedPassed
  <2>1. CASE q = p
    BY <2>1, <1>1, <1>4, <1>7
  <2>2. CASE q # p
    BY <2>2, <1>4, <1>5, <1>7, <1>8 DEF ConfirmedPassed
  <2> QED
    BY <2>1, <2>2
<1>10. OneConfirmedPerRevision'
  <2>1. \A q \in Proposals \ {p} : Confirmed(q) /\ TargetOf[q] = TargetOf[p] => proposal[q].expected # proposal[p].expected
    BY <1>1, <1>7, <1>8 DEF ConfirmedPassed
  <2> QED
    BY <2>1, <1>5, <1>8 DEF OneConfirmedPerRevision
<1> QED
    BY <1>7, <1>9, <1>10

(* What touches proposals that are not confirmed, and the page, only       *)
LEMMA AsideKeeps ==
    ASSUME LifecycleInv, UNCHANGED <<artifact, links, backed, events, reported, captured>>,
           auto' \subseteq auto \cup captured,
           page' \in [Reviewers -> Requests \cup {NoRequest}],
           proposal' \in [Proposals -> ProposalRows \cup {NoProposal}],
           \A p \in Proposals : proposal'[p] = proposal[p] \/ ~Confirmed(p)'
    PROVE  LifecycleInv'
<1> USE DEF LifecycleInv
<1>1. LedgerInv'
    BY DEF LedgerInv, LinksBehind, EvidenceOwned, ReportsKnown, ActiveIsBacked, ServedHasEvidence,
           ChangesReachTheLive, Stored, Status, Revision, Evidence, Live
<1>2. TypeOK'
    BY DEF TypeOK, Stored
<1>3. \A p \in Proposals : Confirmed(p)' => Confirmed(p) /\ proposal'[p] = proposal[p]
    BY DEF Confirmed
<1>4. ConfirmedPassed' /\ OneConfirmedPerRevision'
    BY <1>3 DEF ConfirmedPassed, OneConfirmedPerRevision, Revision
<1> QED
    BY <1>1, <1>2, <1>4

-----------------------------------------------------------------------------
(* The invariant of the specification *)

LEMMA InitEstablishes == Init => LifecycleInv
<1> SUFFICES ASSUME Init
             PROVE  LifecycleInv
  OBVIOUS
<1>1. \A m \in Memories : Status(m) = "absent" /\ ~Stored(m)
  BY DEF Init, Status, Stored, Absent
<1>2. \A p \in Proposals : ~Confirmed(p)
  BY DEF Init, Confirmed, NoProposal
<1>3. LedgerInv
  BY <1>1 DEF Init, LedgerInv, LinksBehind, EvidenceOwned, ReportsKnown, ActiveIsBacked, ServedHasEvidence,
              ChangesReachTheLive, Live
<1> QED
  BY <1>2, <1>3 DEF Init, LifecycleInv, TypeOK, ConfirmedPassed, OneConfirmedPerRevision

LEMMA StepKeeps == LifecycleInv /\ [Next]_vars => LifecycleInv'
<1> SUFFICES ASSUME LifecycleInv, [Next]_vars
             PROVE  LifecycleInv'
    OBVIOUS
<1> USE DEF LifecycleInv
<1>1. /\ page \in [Reviewers -> Requests \cup {NoRequest}]
      /\ proposal \in [Proposals -> ProposalRows \cup {NoProposal}]
    BY DEF TypeOK
<1>2. ASSUME NEW m \in Memories, NEW S \in SUBSET Anchors, NEW b \in BOOLEAN, IntakeNew(m, b, S)
      PROVE  LifecycleInv'
  <2> DEFINE s == IF b THEN "active" ELSE "candidate"
  <2>1. s \in Statuses /\ 1 \in Revisions
    BY DEF Statuses, Revisions
  <2>2. /\ ~Stored(m) /\ S \in NewEvidence
        /\ artifact' = [artifact EXCEPT ![m] = [status |-> s, revision |-> 1]]
        /\ Link(m, 1, S) /\ auto' \subseteq auto \cup {m}
        /\ UNCHANGED <<events, reported, captured, proposal, page>>
    BY <1>2 DEF IntakeNew
  <2>3. Decide(m, 1, IF s = "active" THEN "corroborated" ELSE "needs_review")
    BY <1>2 DEF IntakeNew
  <2> HIDE DEF s
  <2> QED
    BY <2>1, <2>2, <2>3, NewMemoryKeeps
<1>3. ASSUME NEW m \in Memories, NEW S \in SUBSET Anchors, NEW s \in Statuses, NEW r \in 1..LastRevision[m],
             Capture(m, s, r, S)
      PROVE  LifecycleInv'
  <2>1. r \in Revisions
    BY ConstantsAssumption DEF Revisions
  <2> QED
    BY <1>3, <2>1, NewMemoryKeeps DEF Capture
<1>4. ASSUME NEW m \in Memories, NEW S \in SUBSET Anchors, IntakeRevision(m, S)
      PROVE  LifecycleInv'
  <2>1. Stored(m)
    BY <1>4, ArtifactFacts DEF IntakeRevision, StoreRevision
  <2> QED
    BY <1>1, <1>4, <2>1, RevisedKeeps, ProposalsKept DEF IntakeRevision, StoreRevision
<1>5. ASSUME NEW m \in Memories, NEW S \in SUBSET Anchors, Revise(m, S)
      PROVE  LifecycleInv'
    BY <1>1, <1>5, RevisedKeeps, ProposalsKept DEF Revise
<1>6. ASSUME NEW m \in Memories, NEW outcome \in Outcomes, AssureCommand(m, outcome)
      PROVE  LifecycleInv'
  <2>1. Assure(m, Revision(m), outcome) /\ page' = page
    BY <1>6 DEF AssureCommand
  <2>2. Revision(m) \in Revisions
    BY <2>1, ArtifactFacts DEF Assure
  <2> QED
    BY <1>1, <2>1, <2>2, AssureKeeps
<1>7. ASSUME NEW m \in Memories, NEW v \in Reviewers, PageRead(v, m)
      PROVE  LifecycleInv'
  <2>1. Revision(m) \in Revisions
    BY <1>7, ArtifactFacts DEF PageRead
  <2>2. page' \in [Reviewers -> Requests \cup {NoRequest}]
    BY <1>1, <1>7, <2>1 DEF PageRead, Requests
  <2> QED
    BY <1>1, <1>7, <2>2, AsideKeeps DEF PageRead
<1>8. ASSUME NEW m \in Memories, NEW s, s \in {"disputed", "archived", "superseded"}, Transition(m, s)
      PROVE  LifecycleInv'
  <2>1. MayBecome(m, s) /\ artifact' = [artifact EXCEPT ![m].status = s]
        /\ UNCHANGED <<links, backed, events, reported, captured, auto, proposal, page>>
    BY <1>8 DEF Transition
  <2>2. Stored(m)
    BY <2>1, TransitionFacts, ArtifactFacts DEF Statuses
  <2>3. s = "disputed" => Evidence(m, Revision(m)) # {}
    BY <2>1, TransitionFacts DEF LedgerInv, ServedHasEvidence
  <2>4. /\ LedgerInv'
        /\ artifact' \in [Memories -> Artifacts \cup {Absent}]
        /\ \A x \in Memories : Stored(x) => Stored(x)'
        /\ \A x \in Memories : Revision(x)' = Revision(x)
    BY <1>8, <2>1, <2>2, <2>3, TransitionFacts, NewStatus
  <2>5. TypeOK'
    BY <2>1, <2>4 DEF TypeOK
  <2>6. \A x \in Memories : Revision(x) \in Nat
    BY ArtifactFacts DEF Revisions
  <2> QED
    BY <2>1, <2>4, <2>5, <2>6, ProposalsKept
<1>9. ASSUME NEW p \in Proposals, Propose(p)
      PROVE  LifecycleInv'
  <2>1. Revision(TargetOf[p]) \in Revisions
    BY <1>9, ConstantsAssumption, ArtifactFacts DEF Propose
  <2>2. proposal' \in [Proposals -> ProposalRows \cup {NoProposal}]
    BY <1>1, <1>9, <2>1 DEF Propose, ProposalRows
  <2>3. \A q \in Proposals : proposal'[q] = proposal[q] \/ ~Confirmed(q)'
    BY <1>1, <1>9 DEF Propose, Confirmed
  <2> QED
    BY <1>1, <1>9, <2>2, <2>3, AsideKeeps DEF Propose
<1>10. ASSUME NEW p \in Proposals, RejectRevision(p)
       PROVE  LifecycleInv'
  <2>1. PICK e \in Revisions : proposal[p] = [status |-> "pending", expected |-> e]
    BY <1>1, <1>10 DEF RejectRevision, ProposalRows, NoProposal
  <2>2. proposal' = [proposal EXCEPT ![p].status = "rejected"]
    BY <1>10 DEF RejectRevision, Settle
  <2>3. proposal' \in [Proposals -> ProposalRows \cup {NoProposal}]
    BY <1>1, <2>1, <2>2 DEF ProposalRows
  <2>4. \A q \in Proposals : proposal'[q] = proposal[q] \/ ~Confirmed(q)'
    BY <1>1, <2>1, <2>2 DEF Confirmed
  <2> QED
    BY <1>1, <1>10, <2>3, <2>4, AsideKeeps DEF RejectRevision
<1>11. ASSUME NEW v \in Reviewers, page[v] # NoRequest, page' = [page EXCEPT ![v] = NoRequest]
       PROVE  /\ page[v].memory \in Memories /\ page[v].revision \in Revisions
              /\ page' \in [Reviewers -> Requests \cup {NoRequest}]
    BY <1>1, <1>11 DEF Requests
<1>12. ASSUME NEW v \in Reviewers, PageAct(v)
       PROVE  LifecycleInv'
  <2>1. page[v].memory \in Memories /\ page[v].revision \in Revisions
        /\ page' \in [Reviewers -> Requests \cup {NoRequest}]
    BY <1>11, <1>12 DEF PageAct
  <2>2. CASE EditAndConfirm(page[v].memory, page[v].revision)
    BY <2>1, <2>2, EditAndConfirmKeeps
  <2>3. CASE \E o \in Outcomes : Assure(page[v].memory, page[v].revision, o)
    BY <2>1, <2>3, AssureKeeps
  <2> QED
    BY <1>12, <2>2, <2>3 DEF PageAct, Outcomes
<1>13. ASSUME NEW v \in Reviewers, PageGivesUp(v)
       PROVE  LifecycleInv'
  <2>1. page' \in [Reviewers -> Requests \cup {NoRequest}]
    BY <1>11, <1>13 DEF PageGivesUp
  <2> QED
    BY <1>1, <1>13, <2>1, AsideKeeps DEF PageGivesUp
<1>14. CASE UNCHANGED vars
    BY <1>1, <1>14, AsideKeeps DEF vars
<1>15. ASSUME NEW S \in SUBSET captured, Open(S)
       PROVE  LifecycleInv'
    BY <1>1, <1>15, AsideKeeps DEF Open
<1>16. CASE Next
  <2>1. CASE \E m \in Memories, S \in SUBSET Anchors :
                \/ \E b \in BOOLEAN : IntakeNew(m, b, S)
                \/ \E s \in Statuses, r \in 1..LastRevision[m] : Capture(m, s, r, S)
                \/ IntakeRevision(m, S)
                \/ Revise(m, S)
    BY <2>1, <1>2, <1>3, <1>4, <1>5
  <2>2. CASE \E m \in Memories :
                \/ \E outcome \in Outcomes : AssureCommand(m, outcome)
                \/ \E v \in Reviewers : PageRead(v, m)
                \/ Dispute(m) \/ Archive(m)
                \/ \E by \in Memories : Supersede(m, by)
    BY <2>2, <1>6, <1>7, <1>8 DEF Dispute, Archive, Supersede
  <2>3. CASE \E p \in Proposals : (\E S \in SUBSET Anchors : ConfirmRevision(p, S)) \/ Propose(p) \/ RejectRevision(p)
    BY <2>3, <1>9, <1>10, ConfirmRevisionKeeps
  <2>4. CASE \E v \in Reviewers : PageAct(v) \/ PageGivesUp(v)
    BY <2>4, <1>12, <1>13
  <2>5. CASE \E a \in Anchors : SourceChange(a) \/ SourceChangeFails(a)
    BY <2>5, SourceChangeKeeps, SourceChangeFailsKeeps
  <2>6. CASE \E S \in SUBSET captured : Open(S)
    BY <2>6, <1>15
  <2> QED
    BY <1>16, <2>1, <2>2, <2>3, <2>4, <2>5, <2>6 DEF Next
<1> QED
    BY <1>14, <1>16

(* The inductive invariant, which the theorems below unfold.               *)
THEOREM LifecycleInvariant == Spec => []LifecycleInv
BY InitEstablishes, StepKeeps, PTL DEF Spec

(* The type invariant                                                      *)
THEOREM TypeCorrect == Spec => []TypeOK
<1>1. LifecycleInv => TypeOK
  BY DEF LifecycleInv
<1> QED
  BY <1>1, LifecycleInvariant, PTL

(* No memory is served that was not corroborated in its current revision,  *)
(* or of which a source change came after (assure, record_source_change).  *)
THEOREM ActiveIsBackedHolds == Spec => []ActiveIsBacked
<1>1. LifecycleInv => ActiveIsBacked
  BY DEF LifecycleInv, LedgerInv
<1> QED
  BY <1>1, LifecycleInvariant, PTL

(* ... or that rests on no evidence (insert_memory_rows, import_record).   *)
THEOREM ServedHasEvidenceHolds == Spec => []ServedHasEvidence
<1>1. LifecycleInv => ServedHasEvidence
  BY DEF LifecycleInv, LedgerInv
<1> QED
  BY <1>1, LifecycleInvariant, PTL

(* No report of a source change that could not be recorded was about a     *)
(* memory that is not retired (record_source_change).                      *)
THEOREM ChangesReachTheLiveHolds == Spec => []ChangesReachTheLive
<1>1. LifecycleInv => ChangesReachTheLive
  BY DEF LifecycleInv, LedgerInv
<1> QED
  BY <1>1, LifecycleInvariant, PTL

(* Of the proposals to revise one revision of a memory, at most one is     *)
(* confirmed (review_memory_revision).                                     *)
THEOREM OneConfirmedHolds == Spec => []OneConfirmedPerRevision
<1>1. LifecycleInv => OneConfirmedPerRevision
  BY DEF LifecycleInv
<1> QED
  BY <1>1, LifecycleInvariant, PTL

-----------------------------------------------------------------------------
(* What is retired                                                         *)

(* One step, for a memory: a status it had or may come to have, or one it  *)
(* gets while it is live                                                   *)
LEMMA RetiredStep ==
    ASSUME TypeOK, [Next]_vars, NEW m \in Memories, Stored(m), ~Live(m)
    PROVE  Status(m)' \in {Status(m), "archived"}
<1>1. ASSUME NEW n \in Memories, NEW st, artifact' = [artifact EXCEPT ![n].status = st],
             Status(n) = st \/ MayBecome(n, st)
      PROVE  Status(m)' \in {Status(m), "archived"}
  <2>1. CASE n = m
    BY <1>1, <2>1, TransitionFacts, ArtifactFacts DEF TypeOK, Status, Artifacts
  <2>2. CASE n # m
    BY <1>1, <2>2 DEF TypeOK, Status
  <2> QED
    BY <2>1, <2>2
<1>2. ASSUME NEW n \in Memories, NEW x, artifact' = [artifact EXCEPT ![n] = x],
             n = m => x.status = Status(m)
      PROVE  Status(m)' \in {Status(m), "archived"}
    BY <1>2 DEF TypeOK, Status
<1>3. ASSUME NEW n \in Memories, Stored(n)
      PROVE  Revised(n).status = Status(n)
    BY <1>3, ArtifactFacts DEF Revised, Status, Artifacts
<1>4. CASE UNCHANGED artifact
    BY <1>4 DEF Status
<1>5. ASSUME NEW n \in Memories, NEW S \in SUBSET Anchors, (\E b \in BOOLEAN : IntakeNew(n, b, S))
             \/ \E s \in Statuses, r \in 1..LastRevision[n] : Capture(n, s, r, S)
      PROVE  Status(m)' \in {Status(m), "archived"}
    BY <1>2, <1>5 DEF IntakeNew, Capture
<1>6. ASSUME NEW n \in Memories, NEW S \in SUBSET Anchors, StoreRevision(n, S) \/ Revise(n, S)
      PROVE  Status(m)' \in {Status(m), "archived"}
  <2>1. Stored(n) /\ artifact' = [artifact EXCEPT ![n] = Revised(n)]
    BY <1>6, ArtifactFacts DEF StoreRevision, Revise
  <2> QED
    BY <1>2, <1>3, <2>1
<1>7. ASSUME NEW n \in Memories, NEW r, EditAndConfirm(n, r)
      PROVE  Status(m)' \in {Status(m), "archived"}
  <2>1. n # m
    BY <1>7 DEF EditAndConfirm, Live
  <2> QED
    BY <1>2, <1>7, <2>1 DEF EditAndConfirm
<1>8. ASSUME NEW n \in Memories, NEW r, NEW o, Assure(n, r, o)
      PROVE  Status(m)' \in {Status(m), "archived"}
    BY <1>1, <1>8 DEF Assure, MayBecomeOrBe
<1>9. ASSUME NEW n \in Memories, NEW s, Transition(n, s)
      PROVE  Status(m)' \in {Status(m), "archived"}
    BY <1>1, <1>9 DEF Transition
<1>10. ASSUME NEW a \in Anchors, SourceChange(a)
       PROVE  Status(m)' \in {Status(m), "archived"}
  <2>1. CASE m \in Affected(a)
    <3>1. Status(m) = Doubted(m) \/ MayBecome(m, Doubted(m))
      BY <1>10, <2>1 DEF SourceChange, MayBecomeOrBe
    <3>2. artifact'[m] = [artifact[m] EXCEPT !.status = Doubted(m)]
      BY <1>10, <2>1 DEF SourceChange
    <3>3. Status(m)' = Doubted(m)
      BY <3>2, ArtifactFacts DEF Status, Artifacts
    <3> QED
      BY <3>1, <3>3, TransitionFacts
  <2>2. CASE m \notin Affected(a)
    BY <1>10, <2>2 DEF SourceChange, Status
  <2> QED
    BY <2>1, <2>2
<1>11. ASSUME NEW v \in Reviewers, PageAct(v)
       PROVE  Status(m)' \in {Status(m), "archived"}
  <2>1. page[v].memory \in Memories
    BY <1>11 DEF PageAct, TypeOK, Requests
  <2> QED
    BY <1>7, <1>8, <1>11, <2>1 DEF PageAct
<1>12. CASE UNCHANGED vars
    BY <1>4, <1>12 DEF vars
<1>13. CASE Next
  <2>1. CASE \E n \in Memories, S \in SUBSET Anchors :
                \/ \E b \in BOOLEAN : IntakeNew(n, b, S)
                \/ \E s \in Statuses, r \in 1..LastRevision[n] : Capture(n, s, r, S)
                \/ IntakeRevision(n, S)
                \/ Revise(n, S)
    BY <2>1, <1>5, <1>6 DEF IntakeRevision
  <2>2. CASE \E n \in Memories :
                \/ \E outcome \in Outcomes : AssureCommand(n, outcome)
                \/ \E v \in Reviewers : PageRead(v, n)
                \/ Dispute(n) \/ Archive(n)
                \/ \E by \in Memories : Supersede(n, by)
    BY <2>2, <1>4, <1>8, <1>9 DEF AssureCommand, PageRead, Dispute, Archive, Supersede
  <2>3. CASE \E p \in Proposals : (\E S \in SUBSET Anchors : ConfirmRevision(p, S)) \/ Propose(p) \/ RejectRevision(p)
    BY <2>3, <1>4, <1>6, ConstantsAssumption DEF ConfirmRevision, Propose, RejectRevision
  <2>4. CASE \E v \in Reviewers : PageAct(v) \/ PageGivesUp(v)
    BY <2>4, <1>4, <1>11 DEF PageGivesUp
  <2>5. CASE \E a \in Anchors : SourceChange(a) \/ SourceChangeFails(a)
    BY <2>5, <1>4, <1>10 DEF SourceChangeFails
  <2>6. CASE \E S \in SUBSET captured : Open(S)
    BY <2>6, <1>4 DEF Open
  <2> QED
    BY <1>13, <2>1, <2>2, <2>3, <2>4, <2>5, <2>6 DEF Next
<1> QED
    BY <1>12, <1>13

(* No step of the vault or of the page brings a retired memory back        *)
(* (can_transition_to and its callers).                                    *)
THEOREM RetiredForGoodHolds == Spec => RetiredForGood
<1>1. TypeOK /\ [Next]_vars => [\A m \in Memories : Stored(m) /\ ~Live(m) => Status(m)' \in {Status(m), "archived"}]_vars
  BY RetiredStep
<1> QED
  BY <1>1, TypeCorrect, PTL DEF Spec, RetiredForGood
=============================================================================
