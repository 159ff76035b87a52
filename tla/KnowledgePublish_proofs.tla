----------------------- MODULE KnowledgePublish_proofs -----------------------
(***************************************************************************)
(* Theorems about KnowledgePublish, for every number of proposals, keys,   *)
(* people, processes, publications and crashes.                            *)
(***************************************************************************)
EXTENDS KnowledgePublish, TLAPS

-----------------------------------------------------------------------------
(* Type correctness *)

LEMMA TypeInit == Init => TypeOK
BY ConstantsAssumption
   DEF Init, TypeOK, Attempted, Attempts, NoAttempt, Editions, NoEdition, Statuses, Modes,
       IntentStates, Places, Publishing, Maintaining

LEMMA TypeStep == TypeOK /\ [Next]_vars => TypeOK'
<1> SUFFICES ASSUME TypeOK, [Next]_vars PROVE TypeOK'
    OBVIOUS
<1> USE ConstantsAssumption
        DEF TypeOK, Attempted, Attempts, NoAttempt, NoEdition, Statuses, Modes, IntentStates,
            Places, Publishing, Maintaining, proposalVars, controlVars, fileVars,
            processVars, Move
<1>1. ASSUME NEW q \in Proposals, Propose(q) PROVE TypeOK'
    BY <1>1 DEF Propose
<1>2. ASSUME NEW q \in Proposals, NEW h \in Humans, Approve(q, h) PROVE TypeOK'
    BY <1>2 DEF Approve, AwaitsSecondHuman
<1>3. ASSUME NEW q \in Proposals, Decline(q) PROVE TypeOK'
    BY <1>3 DEF Decline
<1>4. ASSUME NEW q \in Proposals, MarkSourceChanged(q) PROVE TypeOK'
    BY <1>4 DEF MarkSourceChanged
<1>5. ASSUME NEW a \in Agents, NEW m \in Modes, SetDelegationMode(a, m) PROVE TypeOK'
    BY <1>5 DEF SetDelegationMode
<1>6. ASSUME NEW p \in Procs, NEW q \in Proposals, Reserve(p, q) PROVE TypeOK'
    BY <1>6 DEF Reserve, Editions
<1>7. ASSUME NEW p \in Procs, WriteManifest(p) PROVE TypeOK'
    BY <1>7 DEF WriteManifest, Move
<1>8. ASSUME NEW p \in Procs, WriteMarkdown(p) PROVE TypeOK'
    BY <1>8 DEF WriteMarkdown
<1>9. ASSUME NEW p \in Procs, WriteFails(p) PROVE TypeOK'
    BY <1>9 DEF WriteFails
<1>10. ASSUME NEW p \in Procs, Commit(p) PROVE TypeOK'
  <2>1. job[p] \in Attempted
    BY <1>10 DEF Commit
  <2>2. current' \subseteq Attempted
    BY <1>10, <2>1 DEF Commit, CurrentAfter, NewestAmong
  <2> QED
    BY <1>10, <2>1, <2>2 DEF Commit
<1>11. ASSUME NEW p \in Procs, CommitFails(p) PROVE TypeOK'
    BY <1>11 DEF CommitFails
<1>12. ASSUME NEW p \in Procs, ReadBack(p) PROVE TypeOK'
    BY <1>12 DEF ReadBack
<1>13. ASSUME NEW p \in Procs, ReadBackFails(p) PROVE TypeOK'
    BY <1>13 DEF ReadBackFails
<1>14. ASSUME NEW p \in Procs, QuarantineCheck(p) PROVE TypeOK'
    BY <1>14 DEF QuarantineCheck, Settled
<1>15. ASSUME NEW p \in Procs, QuarantineMove(p) PROVE TypeOK'
    BY <1>15 DEF QuarantineMove
<1>16. ASSUME NEW p \in Procs, QuarantineRelease(p) PROVE TypeOK'
    BY <1>16 DEF QuarantineRelease
<1>17. ASSUME NEW p \in Procs, QuarantineFails(p) PROVE TypeOK'
    BY <1>17 DEF QuarantineFails
<1>18. ASSUME NEW p \in Procs, Open(p) PROVE TypeOK'
    BY <1>18 DEF Open
<1>19. ASSUME NEW p \in Procs, RecoverComplete(p) PROVE TypeOK'
    BY <1>19 DEF RecoverComplete, IsOldest
<1>20. ASSUME NEW p \in Procs, RecoverPartial(p) PROVE TypeOK'
    BY <1>20 DEF RecoverPartial, IsOldest, FilesOf, Editions
<1>21. ASSUME NEW p \in Procs, RecoverRelease(p) PROVE TypeOK'
    BY <1>21 DEF RecoverRelease
<1>22. ASSUME NEW p \in Procs, RecoverDone(p) PROVE TypeOK'
    BY <1>22 DEF RecoverDone
<1>23. ASSUME NEW p \in Procs, RebuildCommand(p) PROVE TypeOK'
    BY <1>23 DEF RebuildCommand
<1>24. ASSUME NEW p \in Procs, RebuildScan(p) PROVE TypeOK'
    BY <1>24 DEF RebuildScan, Abort
<1>25. ASSUME NEW p \in Procs, RebuildProject(p) PROVE TypeOK'
  <2>1. CASE ~(found[p] \subseteq markdown)
    <3>1. Abort(p) /\ UNCHANGED <<projection, current, intent, status, approvals, policy, attempt,
                                  reserved, receipts, manifest, markdown, crashes>>
      BY <1>25, <2>1 DEF RebuildProject
    <3>2. UNCHANGED Attempted
      BY <3>1
    <3> HIDE DEF Attempted
    <3> QED
      BY <3>1, <3>2 DEF Abort
  <2>2. CASE found[p] \subseteq markdown
    <3>1. found[p] \subseteq Attempted
      OBVIOUS
    <3>2. current' \subseteq found[p] /\ projection' = found[p]
      BY <1>25, <2>2 DEF RebuildProject, NewestAmong
    <3>3. intent' \in [Editions -> IntentStates] /\ Attempted' = Attempted
      BY <1>25, <2>2, <3>1 DEF RebuildProject, IntentsAfter
    <3>4. status' \in [Proposals -> Statuses]
      BY <1>25, <2>2 DEF RebuildProject
    <3>5. /\ pc' = [pc EXCEPT ![p] = "recover"] /\ pc[p] = "project"
          /\ found' = [found EXCEPT ![p] = {}]
          /\ UNCHANGED <<job, todo, approvals, policy, attempt, reserved, receipts, manifest,
                         markdown, crashes>>
      BY <1>25, <2>2 DEF RebuildProject
    <3>6. Attempted' = {e \in Editions : intent'[e] # "none"}
      BY <1>25, <2>2, <3>1 DEF RebuildProject, IntentsAfter
    <3> HIDE DEF Attempted
    <3> QED
      BY <3>1, <3>2, <3>3, <3>4, <3>5, <3>6
  <2> QED
    BY <2>1, <2>2
<1>26. ASSUME NEW p \in Procs, Exit(p) PROVE TypeOK'
    BY <1>26 DEF Exit, Abort
<1>27. ASSUME NEW p \in Procs, Crash(p) PROVE TypeOK'
    BY <1>27 DEF Crash, Abort
<1>28. CASE UNCHANGED vars
    BY <1>28 DEF vars
<1> QED
    BY <1>1, <1>2, <1>3, <1>4, <1>5, <1>6, <1>7, <1>8, <1>9, <1>10, <1>11, <1>12, <1>13, <1>14, <1>15, <1>16, <1>17, <1>18, <1>19, <1>20, <1>21, <1>22, <1>23, <1>24, <1>25, <1>26, <1>27, <1>28
       DEF Next, Govern, Publication, Maintenance

(* Every variable keeps its type, whatever the processes do. *)
THEOREM TypeCorrect == Spec => []TypeOK
BY TypeInit, TypeStep, PTL DEF Spec

-----------------------------------------------------------------------------
(* Governance: these hold however the processes interleave *)

HasQuorum(q) ==
    /\ approvals[q] # {}
    /\ q \in TwoHumans => \E g, h \in approvals[q] : g # h

(* A quorum is found when the proposal turns approved and is still there   *)
(* when its edition is reserved: approvals are never withdrawn.            *)
QuorumInv ==
    /\ TypeOK
    /\ \A q \in Proposals : status[q] = "approved" => HasQuorum(q)
    /\ \A e \in Attempted : attempt[e].delegated \/ HasQuorum(attempt[e].proposal)

LEMMA QuorumInit == Init => QuorumInv
<1> SUFFICES ASSUME Init PROVE QuorumInv
    OBVIOUS
<1>1. TypeOK
    BY TypeInit
<1> QED
    BY <1>1 DEF Init, QuorumInv, Attempted

LEMMA QuorumStep == QuorumInv /\ [Next]_vars => QuorumInv'
<1> SUFFICES ASSUME QuorumInv, [Next]_vars PROVE QuorumInv'
    OBVIOUS
<1>0. TypeOK /\ TypeOK'
    BY TypeStep DEF QuorumInv
<1>t. /\ status \in [Proposals -> Statuses]
      /\ approvals \in [Proposals -> SUBSET Humans]
      /\ attempt \in [Editions -> Attempts \cup {NoAttempt}]
    BY <1>0 DEF TypeOK
<1> USE <1>0, <1>t DEF QuorumInv, HasQuorum, Attempted, Move, proposalVars, controlVars,
            fileVars, processVars
<1>1. ASSUME NEW q \in Proposals, Propose(q) PROVE QuorumInv'
    BY <1>1 DEF Propose
<1>2. ASSUME NEW q \in Proposals, NEW h \in Humans, Approve(q, h) PROVE QuorumInv'
  <2>1. approvals' = [approvals EXCEPT ![q] = @ \cup {h}] /\ UNCHANGED attempt
    BY <1>2 DEF Approve
  <2>2. ASSUME NEW r \in Proposals, HasQuorum(r) PROVE HasQuorum(r)'
    BY <2>1, <2>2
  <2>3. status'[q] = "approved" => HasQuorum(q)'
    <3>1. approvals'[q] = approvals[q] \cup {h}
      BY <2>1
    <3>2. ASSUME status'[q] = "approved" PROVE q \notin TwoHumans \/ approvals[q] \ {h} # {}
      BY <1>2, <3>2 DEF Approve, AwaitsSecondHuman
    <3> QED
      BY <3>1, <3>2
  <2>4. \A r \in Proposals : status'[r] = "approved" => HasQuorum(r)'
    BY <1>2, <2>2, <2>3 DEF Approve
  <2>5. \A e \in Attempted : attempt[e] \in Attempts
    OBVIOUS
  <2> QED
    BY <2>1, <2>2, <2>4, <2>5 DEF Attempts
<1>3. ASSUME NEW q \in Proposals, Decline(q) PROVE QuorumInv'
    BY <1>3 DEF Decline
<1>4. ASSUME NEW q \in Proposals, MarkSourceChanged(q) PROVE QuorumInv'
    BY <1>4 DEF MarkSourceChanged
<1>5. ASSUME NEW a \in Agents, NEW m \in Modes, SetDelegationMode(a, m) PROVE QuorumInv'
    BY <1>5 DEF SetDelegationMode
<1>6. ASSUME NEW p \in Procs, NEW q \in Proposals, Reserve(p, q) PROVE QuorumInv'
  <2>1. PICK delegated \in BOOLEAN, e \in Editions, n \in Editions :
          /\ Eligible(q, delegated)
          /\ attempt' = [attempt EXCEPT ![e] =
                           [proposal |-> q, number |-> n, delegated |-> delegated]]
    <3> HIDE <1>0, <1>t DEF QuorumInv
    <3> QED BY <1>6 DEF Reserve
  <2>2. UNCHANGED <<status, approvals>>
    BY <1>6 DEF Reserve
  <2>3. delegated \/ HasQuorum(q)
    BY <2>1 DEF Eligible, InPriorStatus
  <2> QED
    BY <2>1, <2>2, <2>3
<1>7. ASSUME NEW p \in Procs, WriteManifest(p) PROVE QuorumInv'
    BY <1>7 DEF WriteManifest
<1>8. ASSUME NEW p \in Procs, WriteMarkdown(p) PROVE QuorumInv'
    BY <1>8 DEF WriteMarkdown
<1>9. ASSUME NEW p \in Procs, WriteFails(p) PROVE QuorumInv'
    BY <1>9 DEF WriteFails
<1>10. ASSUME NEW p \in Procs, Commit(p) PROVE QuorumInv'
    BY <1>10 DEF Commit
<1>11. ASSUME NEW p \in Procs, CommitFails(p) PROVE QuorumInv'
    BY <1>11 DEF CommitFails
<1>12. ASSUME NEW p \in Procs, ReadBack(p) PROVE QuorumInv'
    BY <1>12 DEF ReadBack
<1>13. ASSUME NEW p \in Procs, ReadBackFails(p) PROVE QuorumInv'
    BY <1>13 DEF ReadBackFails
<1>14. ASSUME NEW p \in Procs, QuarantineCheck(p) PROVE QuorumInv'
    BY <1>14 DEF QuarantineCheck
<1>15. ASSUME NEW p \in Procs, QuarantineMove(p) PROVE QuorumInv'
    BY <1>15 DEF QuarantineMove
<1>16. ASSUME NEW p \in Procs, QuarantineRelease(p) PROVE QuorumInv'
    BY <1>16 DEF QuarantineRelease
<1>17. ASSUME NEW p \in Procs, QuarantineFails(p) PROVE QuorumInv'
    BY <1>17 DEF QuarantineFails
<1>18. ASSUME NEW p \in Procs, Open(p) PROVE QuorumInv'
    BY <1>18 DEF Open
<1>19. ASSUME NEW p \in Procs, RecoverComplete(p) PROVE QuorumInv'
    BY <1>19 DEF RecoverComplete
<1>20. ASSUME NEW p \in Procs, RecoverPartial(p) PROVE QuorumInv'
    BY <1>20 DEF RecoverPartial
<1>21. ASSUME NEW p \in Procs, RecoverRelease(p) PROVE QuorumInv'
    BY <1>21 DEF RecoverRelease
<1>22. ASSUME NEW p \in Procs, RecoverDone(p) PROVE QuorumInv'
    BY <1>22 DEF RecoverDone
<1>23. ASSUME NEW p \in Procs, RebuildCommand(p) PROVE QuorumInv'
    BY <1>23 DEF RebuildCommand
<1>24. ASSUME NEW p \in Procs, RebuildScan(p) PROVE QuorumInv'
    BY <1>24 DEF RebuildScan, Abort
<1>25. ASSUME NEW p \in Procs, RebuildProject(p) PROVE QuorumInv'
    BY <1>25 DEF RebuildProject, Materialised, IntentsAfter, Abort
<1>26. ASSUME NEW p \in Procs, Exit(p) PROVE QuorumInv'
    BY <1>26 DEF Exit, Abort
<1>27. ASSUME NEW p \in Procs, Crash(p) PROVE QuorumInv'
    BY <1>27 DEF Crash, Abort
<1>28. CASE UNCHANGED vars
    BY <1>28 DEF vars
<1> QED
    BY <1>1, <1>2, <1>3, <1>4, <1>5, <1>6, <1>7, <1>8, <1>9, <1>10, <1>11, <1>12, <1>13, <1>14, <1>15, <1>16, <1>17, <1>18, <1>19, <1>20, <1>21, <1>22, <1>23, <1>24, <1>25, <1>26, <1>27, <1>28
       DEF Next, Govern, Publication, Maintenance

(* No edition is ever projected without its approvals, not even by the     *)
(* recovery of a crashed publication or against a racing one.              *)
THEOREM QuorumHolds == Spec => []HumanQuorum
<1>1. QuorumInv => HumanQuorum
    BY DEF QuorumInv, HumanQuorum, HasQuorum, TypeOK
<1> QED
    BY QuorumInit, QuorumStep, <1>1, PTL DEF Spec

(* Published, declined or stale, a proposal never becomes reviewable again. *)
KeepsTerminal ==
    \A q \in Proposals :
        /\ status[q] \in {"rejected", "changes_requested", "materialized"}
              => status'[q] \in {status[q], "stale"}
        /\ status[q] = "stale" => status'[q] = "stale"

DelegatedStep ==
    \A e \in receipts' \ receipts :
        LET q == attempt[e].proposal IN
        /\ policy[AuthorOf[q]] = "delegated_local"
        /\ status[q] = "submitted"
        /\ e \in projection'

LEMMA TerminalStep == TypeOK /\ [Next]_vars => KeepsTerminal
<1> SUFFICES ASSUME TypeOK, [Next]_vars PROVE KeepsTerminal
    OBVIOUS
<1>0. status \in [Proposals -> Statuses]
    BY DEF TypeOK
<1> USE <1>0 DEF KeepsTerminal, proposalVars
<1>1. ASSUME NEW q \in Proposals, Propose(q) PROVE KeepsTerminal
    BY <1>1 DEF Propose
<1>2. ASSUME NEW q \in Proposals, NEW h \in Humans, Approve(q, h) PROVE KeepsTerminal
    BY <1>2 DEF Approve
<1>3. ASSUME NEW q \in Proposals, Decline(q) PROVE KeepsTerminal
    BY <1>3 DEF Decline
<1>4. ASSUME NEW q \in Proposals, MarkSourceChanged(q) PROVE KeepsTerminal
    BY <1>4 DEF MarkSourceChanged
<1>5. ASSUME NEW a \in Agents, NEW m \in Modes, SetDelegationMode(a, m) PROVE KeepsTerminal
    BY <1>5 DEF SetDelegationMode
<1>6. ASSUME NEW p \in Procs, NEW q \in Proposals, Reserve(p, q) PROVE KeepsTerminal
    BY <1>6 DEF Reserve
<1>7. ASSUME NEW p \in Procs, WriteManifest(p) PROVE KeepsTerminal
    BY <1>7 DEF WriteManifest
<1>8. ASSUME NEW p \in Procs, WriteMarkdown(p) PROVE KeepsTerminal
    BY <1>8 DEF WriteMarkdown
<1>9. ASSUME NEW p \in Procs, WriteFails(p) PROVE KeepsTerminal
    BY <1>9 DEF WriteFails
<1>10. ASSUME NEW p \in Procs, Commit(p) PROVE KeepsTerminal
    BY <1>10 DEF Commit, InPriorStatus
<1>11. ASSUME NEW p \in Procs, CommitFails(p) PROVE KeepsTerminal
    BY <1>11 DEF CommitFails
<1>12. ASSUME NEW p \in Procs, ReadBack(p) PROVE KeepsTerminal
    BY <1>12 DEF ReadBack
<1>13. ASSUME NEW p \in Procs, ReadBackFails(p) PROVE KeepsTerminal
    BY <1>13 DEF ReadBackFails
<1>14. ASSUME NEW p \in Procs, QuarantineCheck(p) PROVE KeepsTerminal
    BY <1>14 DEF QuarantineCheck
<1>15. ASSUME NEW p \in Procs, QuarantineMove(p) PROVE KeepsTerminal
    BY <1>15 DEF QuarantineMove
<1>16. ASSUME NEW p \in Procs, QuarantineRelease(p) PROVE KeepsTerminal
    BY <1>16 DEF QuarantineRelease
<1>17. ASSUME NEW p \in Procs, QuarantineFails(p) PROVE KeepsTerminal
    BY <1>17 DEF QuarantineFails
<1>18. ASSUME NEW p \in Procs, Open(p) PROVE KeepsTerminal
    BY <1>18 DEF Open
<1>19. ASSUME NEW p \in Procs, RecoverComplete(p) PROVE KeepsTerminal
    BY <1>19 DEF RecoverComplete
<1>20. ASSUME NEW p \in Procs, RecoverPartial(p) PROVE KeepsTerminal
    BY <1>20 DEF RecoverPartial
<1>21. ASSUME NEW p \in Procs, RecoverRelease(p) PROVE KeepsTerminal
    BY <1>21 DEF RecoverRelease
<1>22. ASSUME NEW p \in Procs, RecoverDone(p) PROVE KeepsTerminal
    BY <1>22 DEF RecoverDone
<1>23. ASSUME NEW p \in Procs, RebuildCommand(p) PROVE KeepsTerminal
    BY <1>23 DEF RebuildCommand
<1>24. ASSUME NEW p \in Procs, RebuildScan(p) PROVE KeepsTerminal
    BY <1>24 DEF RebuildScan
<1>25. ASSUME NEW p \in Procs, RebuildProject(p) PROVE KeepsTerminal
    BY <1>25 DEF RebuildProject, Materialised
<1>26. ASSUME NEW p \in Procs, Exit(p) PROVE KeepsTerminal
    BY <1>26 DEF Exit
<1>27. ASSUME NEW p \in Procs, Crash(p) PROVE KeepsTerminal
    BY <1>27 DEF Crash
<1>28. CASE UNCHANGED vars
    BY <1>28 DEF vars
<1> QED
    BY <1>1, <1>2, <1>3, <1>4, <1>5, <1>6, <1>7, <1>8, <1>9, <1>10, <1>11, <1>12, <1>13, <1>14, <1>15, <1>16, <1>17, <1>18, <1>19, <1>20, <1>21, <1>22, <1>23, <1>24, <1>25, <1>26, <1>27, <1>28
       DEF Next, Govern, Publication, Maintenance

LEMMA DelegatedStepHolds == TypeOK /\ [Next]_vars => DelegatedStep
<1> SUFFICES ASSUME TypeOK, [Next]_vars PROVE DelegatedStep
    OBVIOUS
<1>1. ASSUME NEW p \in Procs, Commit(p) PROVE DelegatedStep
    BY <1>1 DEF Commit, DelegatedStep, Eligible, InPriorStatus
<1>2. ASSUME UNCHANGED receipts PROVE DelegatedStep
    BY <1>2 DEF DelegatedStep
<1>3. CASE UNCHANGED vars
    BY <1>2, <1>3 DEF vars, controlVars
<1>4. CASE Govern
    BY <1>2, <1>4 DEF Govern, Propose, Approve, Decline, MarkSourceChanged, SetDelegationMode,
                      controlVars
<1>5. ASSUME NEW p \in Procs, NEW q \in Proposals, Reserve(p, q) PROVE DelegatedStep
    BY <1>2, <1>5 DEF Reserve
<1>6. ASSUME NEW p \in Procs, Publication(p) PROVE DelegatedStep
    BY <1>1, <1>2, <1>6
       DEF Publication, WriteManifest, WriteMarkdown, WriteFails, CommitFails, ReadBack,
           ReadBackFails, QuarantineCheck, QuarantineMove, QuarantineRelease, QuarantineFails,
           controlVars
<1>7. ASSUME NEW p \in Procs, Maintenance(p) PROVE DelegatedStep
    BY <1>2, <1>7
       DEF Maintenance, RecoverComplete, RecoverPartial, RecoverRelease, RecoverDone,
           RebuildScan, RebuildProject, controlVars
<1>8. ASSUME NEW p \in Procs, Open(p) \/ RebuildCommand(p) \/ Exit(p) \/ Crash(p)
      PROVE DelegatedStep
    BY <1>2, <1>8 DEF Open, RebuildCommand, Exit, Crash, controlVars
<1> QED
    BY <1>3, <1>4, <1>5, <1>6, <1>7, <1>8 DEF Next

(* Delegated receipts appear only where delegation is enabled and nobody   *)
(* has reviewed the proposal, whichever processes race or crash.           *)
THEOREM DelegationBoundaryHolds == Spec => DelegationBoundary
BY TypeInit, TypeStep, DelegatedStepHolds, PTL DEF Spec, DelegationBoundary, DelegatedStep

(* A proposal with a delegated receipt is materialized, or stale since.    *)
WinnerInv ==
    /\ TypeOK
    /\ \A e \in receipts : status[attempt[e].proposal] \in {"materialized", "stale"}
    /\ OneDelegatedWinner

(* A step that adds a receipt is the commit of that one edition; no other  *)
(* step changes what a publication was.                                    *)
LEMMA ReceiptStep ==
    ASSUME TypeOK, [Next]_vars
    PROVE  /\ \A e \in receipts : attempt'[e] = attempt[e]
           /\ \/ receipts' = receipts
              \/ \E e \in Editions :
                     /\ receipts' = receipts \cup {e} /\ UNCHANGED attempt
                     /\ attempt[e].proposal \in Proposals
                     /\ status'[attempt[e].proposal] = "materialized"
                     /\ status[attempt[e].proposal] = "submitted"
<1> USE DEF TypeOK, Attempted
<1>1. ASSUME NEW p \in Procs, Commit(p), receipts' # receipts
      PROVE  \E e \in Editions :
                 /\ receipts' = receipts \cup {e} /\ UNCHANGED attempt
                 /\ attempt[e].proposal \in Proposals
                 /\ status'[attempt[e].proposal] = "materialized"
                 /\ status[attempt[e].proposal] = "submitted"
  <2> DEFINE e == job[p]
  <2>1. pc[p] = "files" /\ e # NoEdition
    BY <1>1 DEF Commit, Move, Publishing
  <2>2. e \in Editions /\ intent[e] # "none" /\ attempt[e] \in Attempts \cup {NoAttempt}
    BY <2>1
  <2>3. attempt[e].delegated /\ receipts' = receipts \cup {e} /\ UNCHANGED attempt
    BY <1>1 DEF Commit
  <2>4. attempt[e] \in Attempts
    BY <2>2, <2>3 DEF NoAttempt
  <2>5. attempt[e].proposal \in Proposals
    BY <2>4 DEF Attempts
  <2> QED
    BY <1>1, <2>2, <2>3, <2>5 DEF Commit, Eligible, InPriorStatus
<1>2. ASSUME NEW p \in Procs, NEW q \in Proposals, Reserve(p, q)
      PROVE  receipts' = receipts /\ \A e \in receipts : attempt'[e] = attempt[e]
    BY <1>2 DEF Reserve
<1>3. ASSUME NEW p \in Procs, Commit(p) PROVE UNCHANGED attempt
    BY <1>3 DEF Commit
<1>4. CASE Govern \/ UNCHANGED vars
    BY <1>4 DEF Govern, Propose, Approve, Decline, MarkSourceChanged, SetDelegationMode,
                controlVars, vars
<1>5. ASSUME NEW p \in Procs, Publication(p), ~Commit(p) PROVE UNCHANGED <<attempt, receipts>>
    BY <1>5
       DEF Publication, WriteManifest, WriteMarkdown, WriteFails, CommitFails, ReadBack,
           ReadBackFails, QuarantineCheck, QuarantineMove, QuarantineRelease, QuarantineFails,
           controlVars
<1>6. ASSUME NEW p \in Procs, Maintenance(p) \/ Open(p) \/ RebuildCommand(p) \/ Exit(p) \/ Crash(p)
      PROVE UNCHANGED <<attempt, receipts>>
    BY <1>6
       DEF Maintenance, RecoverComplete, RecoverPartial, RecoverRelease, RecoverDone,
           RebuildScan, RebuildProject, Open, RebuildCommand, Exit, Crash, controlVars
<1> QED
    BY <1>1, <1>2, <1>3, <1>4, <1>5, <1>6 DEF Next

LEMMA WinnerStep == WinnerInv /\ [Next]_vars => WinnerInv'
<1> SUFFICES ASSUME WinnerInv, [Next]_vars PROVE WinnerInv'
    OBVIOUS
<1>1. TypeOK /\ TypeOK' /\ KeepsTerminal
    BY TypeStep, TerminalStep DEF WinnerInv
<1>2. \A e \in receipts : attempt[e] \in Attempts
    BY <1>1 DEF TypeOK, WinnerInv, Attempted
<1>3. \A e \in receipts : /\ attempt'[e] = attempt[e] /\ attempt[e].proposal \in Proposals
                          /\ status'[attempt[e].proposal] \in {"materialized", "stale"}
    BY <1>1, <1>2, ReceiptStep DEF WinnerInv, KeepsTerminal, Attempts
<1>4. CASE receipts' = receipts
    BY <1>1, <1>3, <1>4 DEF WinnerInv, OneDelegatedWinner
<1>5. ASSUME NEW e \in Editions, receipts' = receipts \cup {e}, UNCHANGED attempt,
             status'[attempt[e].proposal] = "materialized",
             status[attempt[e].proposal] = "submitted"
      PROVE  WinnerInv'
    BY <1>1, <1>3, <1>5 DEF WinnerInv, OneDelegatedWinner
<1> QED
    BY <1>1, <1>4, <1>5, ReceiptStep

(* However opens, rebuilds and publications interleave, a proposal is      *)
(* published under delegation at most once.                                *)
THEOREM OneDelegatedWinnerHolds == Spec => []OneDelegatedWinner
<1>1. Init => WinnerInv
    BY TypeInit DEF Init, WinnerInv, OneDelegatedWinner
<1>2. WinnerInv => OneDelegatedWinner
    BY DEF WinnerInv
<1> QED
    BY <1>1, WinnerStep, <1>2, PTL DEF Spec

-----------------------------------------------------------------------------
(* Recovery, when no open or rebuild overlaps a publication *)

(* The discipline of the stores and the processes is inductive together    *)
(* with the properties it is kept for.                                     *)
SerialInv ==
    /\ TypeOK
    /\ SerialDiscipline
    /\ FilesBackEditions
    /\ EditionNumbersUnique
    /\ OneEditionPerProposal

LEMMA SerialInit == Init => SerialInv
<1> SUFFICES ASSUME Init PROVE SerialInv
    OBVIOUS
<1>1. TypeOK
    BY TypeInit
<1>2. SerialDiscipline
    BY DEF Init, SerialDiscipline, IntentBooks, JobPhases, JobsDistinct, MaintenanceAlone,
           Recovering, Maintaining
<1> QED
    BY <1>1, <1>2 DEF Init, SerialInv, FilesBackEditions, EditionNumbersUnique,
                      OneEditionPerProposal

LEMMA SerialStep ==
    ASSUME SerialisedOpen, SerialInv, [Next]_vars
    PROVE  SerialInv'
<1>0. TypeOK /\ TypeOK'
    BY TypeStep DEF SerialInv
<1>t. /\ attempt \in [Editions -> Attempts \cup {NoAttempt}]
      /\ intent \in [Editions -> IntentStates]
      /\ reserved \subseteq Editions /\ projection \subseteq Editions
      /\ manifest \subseteq Editions /\ markdown \subseteq Editions
      /\ pc \in [Procs -> Places]
      /\ job \in [Procs -> Editions \cup {NoEdition}]
      /\ \A p \in Procs : job[p] # NoEdition <=> pc[p] \in Publishing \cup {"release"}
      /\ todo \in [Procs -> SUBSET Editions]
      /\ found \in [Procs -> SUBSET Editions]
    BY <1>0 DEF TypeOK, Attempted
<1> USE <1>0, <1>t
        DEF SerialInv, SerialDiscipline, IntentBooks, JobPhases, JobsDistinct, MaintenanceAlone,
            Recovering, FilesBackEditions, EditionNumbersUnique, OneEditionPerProposal,
            Key, Number, Publishing, Maintaining, Places, Move,
            proposalVars, controlVars, fileVars, processVars
<1>1. ASSUME NEW q \in Proposals, Propose(q) PROVE SerialInv'
    BY <1>1 DEF Propose
<1>2. ASSUME NEW q \in Proposals, NEW h \in Humans, Approve(q, h) PROVE SerialInv'
    BY <1>2 DEF Approve
<1>3. ASSUME NEW q \in Proposals, Decline(q) PROVE SerialInv'
    BY <1>3 DEF Decline
<1>4. ASSUME NEW q \in Proposals, MarkSourceChanged(q) PROVE SerialInv'
    BY <1>4 DEF MarkSourceChanged
<1>5. ASSUME NEW a \in Agents, NEW m \in Modes, SetDelegationMode(a, m) PROVE SerialInv'
    BY <1>5 DEF SetDelegationMode
<1>6. ASSUME NEW p \in Procs, NEW q \in Proposals, Reserve(p, q) PROVE SerialInv'
  <2>1. PICK delegated \in BOOLEAN, e \in Editions, n \in Editions :
          /\ intent[e] = "none"
          /\ IsNextNumber(n, KeyOf[q])
          /\ attempt' = [attempt EXCEPT ![e] =
                           [proposal |-> q, number |-> n, delegated |-> delegated]]
          /\ intent' = [intent EXCEPT ![e] = "prepared"]
          /\ reserved' = reserved \cup {e}
          /\ job' = [job EXCEPT ![p] = e]
    <3> HIDE <1>0, <1>t DEF SerialInv
    <3> QED BY <1>6 DEF Reserve
  <2>2. /\ pc[p] = "ready" /\ pc' = [pc EXCEPT ![p] = "reserved"]
        /\ UNCHANGED <<projection, manifest, markdown, todo, found>>
        /\ \A r \in Procs : pc[r] \notin Maintaining
        /\ \A f \in reserved : attempt[f].proposal # q
    BY <1>6 DEF Reserve, Undisturbed, AlreadyReserved
  <2>3. e \notin reserved /\ e \notin projection /\ e # NoEdition
    BY <2>1 DEF Editions, NoEdition
  <2>4. \A r \in Procs : job[r] # e
    BY <1>0, <2>1, <2>3 DEF TypeOK
  <2>5. SerialDiscipline'
    BY <2>1, <2>2, <2>3, <2>4
  <2>6. \A f \in reserved : attempt'[f] = attempt[f]
    BY <2>1, <2>3
  <2>7. attempt'[e].proposal = q /\ attempt'[e].number = n
    BY <2>1
  <2>8. \A f \in reserved : KeyOf[attempt[f].proposal] = KeyOf[q] => attempt[f].number # n
    <3>1. ASSUME NEW f \in reserved, KeyOf[attempt[f].proposal] = KeyOf[q]
          PROVE  attempt[f].number \in NumbersTaken(KeyOf[q])
      BY <3>1 DEF NumbersTaken
    <3>2. \A m \in NumbersTaken(KeyOf[q]) : m < n
      BY <2>1 DEF IsNextNumber
    <3> QED
      BY <3>1, <3>2 DEF Editions
  <2>9. EditionNumbersUnique'
    BY <2>1, <2>2, <2>6, <2>7, <2>8
  <2>10. OneEditionPerProposal'
    BY <2>1, <2>2, <2>6, <2>7
  <2> QED
    BY <2>2, <2>5, <2>9, <2>10
<1>7. ASSUME NEW p \in Procs, WriteManifest(p) PROVE SerialInv'
    BY <1>7 DEF WriteManifest
<1>8. ASSUME NEW p \in Procs, WriteMarkdown(p) PROVE SerialInv'
    BY <1>8 DEF WriteMarkdown
<1>9. ASSUME NEW p \in Procs, WriteFails(p) PROVE SerialInv'
    BY <1>9 DEF WriteFails
<1>10. ASSUME NEW p \in Procs, Commit(p) PROVE SerialInv'
    BY <1>10 DEF Commit
<1>11. ASSUME NEW p \in Procs, CommitFails(p) PROVE SerialInv'
    BY <1>11 DEF CommitFails
<1>12. ASSUME NEW p \in Procs, ReadBack(p) PROVE SerialInv'
    BY <1>12 DEF ReadBack
<1>13. ASSUME NEW p \in Procs, ReadBackFails(p) PROVE SerialInv'
    BY <1>13 DEF ReadBackFails
<1>14. ASSUME NEW p \in Procs, QuarantineCheck(p) PROVE SerialInv'
    BY <1>14 DEF QuarantineCheck, Settled
<1>15. ASSUME NEW p \in Procs, QuarantineMove(p) PROVE SerialInv'
    BY <1>15 DEF QuarantineMove
<1>16. ASSUME NEW p \in Procs, QuarantineRelease(p) PROVE SerialInv'
    BY <1>16 DEF QuarantineRelease
<1>17. ASSUME NEW p \in Procs, QuarantineFails(p) PROVE SerialInv'
    BY <1>17 DEF QuarantineFails
<1>18. ASSUME NEW p \in Procs, Open(p) PROVE SerialInv'
  <2>1. job[p] = NoEdition /\ \A e \in Editions : e # NoEdition
    BY <1>18 DEF Open, Editions, NoEdition
  <2> QED
    BY <1>18, <2>1 DEF Open, Quiescent
<1>19. ASSUME NEW p \in Procs, RecoverComplete(p) PROVE SerialInv'
    BY <1>19 DEF RecoverComplete, IsOldest, Complete
<1>20. ASSUME NEW p \in Procs, RecoverPartial(p) PROVE SerialInv'
    BY <1>20 DEF RecoverPartial, IsOldest, Complete, FilesOf
<1>21. ASSUME NEW p \in Procs, RecoverRelease(p) PROVE SerialInv'
  <2>1. /\ job[p] \in Editions /\ intent[job[p]] = "prepared"
        /\ job[p] \notin manifest \cup markdown
        /\ job[p] \notin projection
        /\ job[p] \notin todo[p]
    BY <1>21 DEF RecoverRelease
  <2>2. \A r \in Procs \ {p} :
           pc[r] \in {"down", "ready"} /\ job[r] = NoEdition /\ todo[r] = {}
    BY <1>21 DEF RecoverRelease
  <2>3. /\ pc' = [pc EXCEPT ![p] = "recover"]
        /\ intent' = [intent EXCEPT ![job[p]] = "recoverable"]
        /\ reserved' = reserved \ {job[p]}
        /\ job' = [job EXCEPT ![p] = NoEdition]
        /\ UNCHANGED <<attempt, projection, manifest, markdown, todo, found>>
    BY <1>21 DEF RecoverRelease
  <2>4. IntentBooks'
    BY <2>1, <2>3
  <2>5. JobPhases' /\ JobsDistinct' /\ MaintenanceAlone'
    BY <2>2, <2>3
  <2>6. Recovering'
    <3>1. \A e \in todo[p] : e \in Editions /\ e # NoEdition
      BY DEF Editions, NoEdition
    <3> QED
      BY <2>1, <2>2, <2>3, <3>1
  <2> QED
    BY <2>3, <2>4, <2>5, <2>6
<1>22. ASSUME NEW p \in Procs, RecoverDone(p) PROVE SerialInv'
    BY <1>22 DEF RecoverDone
<1>23. ASSUME NEW p \in Procs, RebuildCommand(p) PROVE SerialInv'
    BY <1>23 DEF RebuildCommand, Quiescent
<1>24. ASSUME NEW p \in Procs, RebuildScan(p) PROVE SerialInv'
    BY <1>24 DEF RebuildScan, Abort
<1>25. ASSUME NEW p \in Procs, RebuildProject(p) PROVE SerialInv'
    BY <1>25 DEF RebuildProject, IntentsAfter, Abort
<1>26. ASSUME NEW p \in Procs, Exit(p) PROVE SerialInv'
    BY <1>26 DEF Exit, Abort
<1>27. ASSUME NEW p \in Procs, Crash(p) PROVE SerialInv'
    BY <1>27 DEF Crash, Abort
<1>28. CASE UNCHANGED vars
    BY <1>28 DEF vars
<1> QED
    BY <1>1, <1>2, <1>3, <1>4, <1>5, <1>6, <1>7, <1>8, <1>9, <1>10, <1>11, <1>12, <1>13, <1>14, <1>15, <1>16, <1>17, <1>18, <1>19, <1>20, <1>21, <1>22, <1>23, <1>24, <1>25, <1>26, <1>27, <1>28
       DEF Next, Govern, Publication, Maintenance

THEOREM SerialInvariant ==
    ASSUME SerialisedOpen
    PROVE  Spec => []SerialInv
<1>1. SerialInv /\ [Next]_vars => SerialInv'
    BY SerialStep
<1> QED
    BY SerialInit, <1>1, PTL DEF Spec

(* No file of a resolvable edition is ever taken away. *)
THEOREM FilesStay == ASSUME SerialisedOpen PROVE Spec => []FilesBackEditions
<1>1. SerialInv => FilesBackEditions
    BY DEF SerialInv
<1> QED
    BY SerialInvariant, <1>1, PTL

(* The discipline recovery relies on, stated of the control store, the     *)
(* files and the processes, holds in every state.                          *)
THEOREM SerialDisciplineHolds == ASSUME SerialisedOpen PROVE Spec => []SerialDiscipline
<1>1. SerialInv => SerialDiscipline
    BY DEF SerialInv
<1> QED
    BY SerialInvariant, <1>1, PTL

(* Edition numbers are unique per key, however many publications crash.    *)
THEOREM NumbersUnique == ASSUME SerialisedOpen PROVE Spec => []EditionNumbersUnique
<1>1. SerialInv => EditionNumbersUnique
    BY DEF SerialInv
<1> QED
    BY SerialInvariant, <1>1, PTL

(* A proposal is published at most once, however often it is retried.      *)
THEOREM PublishedOnce == ASSUME SerialisedOpen PROVE Spec => []OneEditionPerProposal
<1>1. SerialInv => OneEditionPerProposal
    BY DEF SerialInv
<1> QED
    BY SerialInvariant, <1>1, PTL

(* What is refused with nothing of it under way *)
RefusedStep ==
    \A q \in Proposals :
        Refused(q) /\ ~AlreadyReserved(q)
          => /\ Refused(q)' /\ ~AlreadyReserved(q)'
             /\ \A e \in projection' : attempt'[e].proposal # q

(* A step that reserves is Reserve, for a proposal in a publishable state;  *)
(* every other step leaves the reservations or takes some back.            *)
LEMMA ReservationStep ==
    ASSUME TypeOK, [Next]_vars
    PROVE  \/ reserved' \subseteq reserved /\ UNCHANGED attempt
           \/ \E e \in Editions, q \in Proposals :
                  /\ intent[e] = "none" /\ reserved' = reserved \cup {e}
                  /\ attempt'[e].proposal = q /\ ~Refused(q)
                  /\ \A f \in reserved : attempt'[f] = attempt[f]
<1> DEFINE Shrinks == reserved' \subseteq reserved /\ UNCHANGED attempt
<1>1. ASSUME NEW p \in Procs, NEW q \in Proposals, Reserve(p, q)
      PROVE  \E e \in Editions :
                 /\ intent[e] = "none" /\ reserved' = reserved \cup {e}
                 /\ attempt'[e].proposal = q /\ ~Refused(q)
                 /\ \A f \in reserved : attempt'[f] = attempt[f]
  <2>1. PICK delegated \in BOOLEAN, e \in Editions, n \in Editions :
          /\ Eligible(q, delegated)
          /\ intent[e] = "none"
          /\ attempt' = [attempt EXCEPT ![e] =
                           [proposal |-> q, number |-> n, delegated |-> delegated]]
          /\ reserved' = reserved \cup {e}
    BY <1>1 DEF Reserve
  <2>2. attempt \in [Editions -> Attempts \cup {NoAttempt}]
        /\ reserved \subseteq Editions /\ e \notin reserved
    BY <2>1 DEF TypeOK, Attempted
  <2>3. ~Refused(q)
    BY <2>1 DEF Eligible, InPriorStatus, Refused
  <2> QED
    BY <2>1, <2>2, <2>3
<1>2. CASE Govern \/ UNCHANGED vars
    BY <1>2 DEF Govern, Propose, Approve, Decline, MarkSourceChanged, SetDelegationMode,
                controlVars, vars
<1>3. ASSUME NEW p \in Procs, Publication(p) PROVE Shrinks
    BY <1>3
       DEF Publication, WriteManifest, WriteMarkdown, WriteFails, Commit, CommitFails, ReadBack,
           ReadBackFails, QuarantineCheck, QuarantineMove, QuarantineRelease, QuarantineFails,
           controlVars
<1>4. ASSUME NEW p \in Procs, Maintenance(p) \/ Open(p) \/ RebuildCommand(p) \/ Exit(p) \/ Crash(p)
      PROVE Shrinks
    BY <1>4
       DEF Maintenance, RecoverComplete, RecoverPartial, RecoverRelease, RecoverDone,
           RebuildScan, RebuildProject, Open, RebuildCommand, Exit, Crash, controlVars
<1> QED
    BY <1>1, <1>2, <1>3, <1>4 DEF Next

LEMMA RefusedStepHolds ==
    ASSUME SerialisedOpen, SerialInv, [Next]_vars
    PROVE  RefusedStep
<1>1. TypeOK /\ SerialInv' /\ KeepsTerminal
    BY SerialStep, TerminalStep DEF SerialInv
<1>2. SUFFICES ASSUME NEW q \in Proposals, Refused(q), ~AlreadyReserved(q)
               PROVE  /\ Refused(q)' /\ ~AlreadyReserved(q)'
                      /\ \A e \in projection' : attempt'[e].proposal # q
    BY DEF RefusedStep
<1>3. Refused(q)'
    BY <1>1, <1>2 DEF KeepsTerminal, Refused
<1>4. ~AlreadyReserved(q)'
    BY <1>1, <1>2, ReservationStep DEF AlreadyReserved
<1>5. projection' \subseteq reserved'
    BY <1>1 DEF SerialInv, SerialDiscipline, IntentBooks
<1> QED
    BY <1>3, <1>4, <1>5 DEF AlreadyReserved

(* What is turned down or stale with no publication of it under way never  *)
(* comes into the vault, through any retry, crash, quarantine or rebuild.  *)
THEOREM RefusedStaysOutHolds == ASSUME SerialisedOpen PROVE Spec => RefusedStaysOut
<1>1. SerialInv /\ [Next]_vars => SerialInv'
    BY SerialStep
<1>2. SerialInv /\ [Next]_vars => RefusedStep
    BY RefusedStepHolds
<1> QED
    BY SerialInit, <1>1, <1>2, PTL DEF Spec, RefusedStaysOut, RefusedStep

-----------------------------------------------------------------------------
(* Refinement: the vault is the ledger of EditionLedger *)

CurrentIsNewest == current = NewestAmong(projection)

(* Rows are never dropped, and what they say never changes. *)
Grows ==
    /\ projection \subseteq projection'
    /\ \A e \in projection : attempt'[e] = attempt[e]

LEMMA LedgerStep ==
    ASSUME SerialisedOpen, SerialInv, CurrentIsNewest, [Next]_vars
    PROVE  Grows /\ CurrentIsNewest'
<1>0. TypeOK /\ SerialInv'
    BY SerialStep DEF SerialInv
<1>1. CASE UNCHANGED <<attempt, projection, current>>
    BY <1>1 DEF Grows, CurrentIsNewest, NewestAmong, Key, Number
<1>2. ASSUME NEW p \in Procs, Commit(p) PROVE Grows /\ CurrentIsNewest'
  <2>1. /\ projection' = projection \cup {job[p]}
        /\ current' = CurrentAfter(job[p])
        /\ UNCHANGED attempt
    BY <1>2 DEF Commit
  <2> QED
    BY <2>1 DEF Grows, CurrentIsNewest, CurrentAfter, NewestAmong, Key, Number
<1>3. ASSUME NEW p \in Procs, RebuildProject(p) PROVE Grows /\ CurrentIsNewest'
  <2>1. CASE found[p] \subseteq markdown
    <3>1. projection' = found[p] /\ current' = NewestAmong(found[p]) /\ UNCHANGED attempt
      BY <1>3, <2>1 DEF RebuildProject
    <3>2. projection \subseteq found[p]
      BY <1>3 DEF RebuildProject, SerialInv, SerialDiscipline, Recovering, FilesBackEditions
    <3> QED
      BY <3>1, <3>2 DEF Grows, CurrentIsNewest, NewestAmong, Key, Number
  <2>2. CASE ~(found[p] \subseteq markdown)
    BY <1>1, <1>3, <2>2 DEF RebuildProject
  <2> QED
    BY <2>1, <2>2
<1>4. ASSUME NEW p \in Procs, NEW q \in Proposals, Reserve(p, q) PROVE Grows /\ CurrentIsNewest'
  <2>1. PICK e \in Editions :
          /\ intent[e] = "none"
          /\ \A f \in Editions \ {e} : attempt'[f] = attempt[f]
    BY <1>0, <1>4 DEF Reserve, TypeOK
  <2>2. e \notin projection /\ projection \subseteq Editions
    BY <1>0, <2>1 DEF TypeOK, Attempted
  <2>3. UNCHANGED <<projection, current>>
    BY <1>4 DEF Reserve
  <2> QED
    BY <2>1, <2>2, <2>3 DEF Grows, CurrentIsNewest, NewestAmong, Key, Number
<1>5. CASE Govern
    BY <1>1, <1>5 DEF Govern, Propose, Approve, Decline, MarkSourceChanged, SetDelegationMode,
                      controlVars
<1>6. ASSUME NEW p \in Procs, Publication(p) PROVE Grows /\ CurrentIsNewest'
    BY <1>1, <1>2, <1>6
       DEF Publication, WriteManifest, WriteMarkdown, WriteFails, CommitFails, ReadBack,
           ReadBackFails, QuarantineCheck, QuarantineMove, QuarantineRelease, QuarantineFails,
           controlVars
<1>7. ASSUME NEW p \in Procs, Maintenance(p) PROVE Grows /\ CurrentIsNewest'
    BY <1>1, <1>3, <1>7
       DEF Maintenance, RecoverComplete, RecoverPartial, RecoverRelease, RecoverDone,
           RebuildScan, controlVars
<1>8. ASSUME NEW p \in Procs, Open(p) \/ RebuildCommand(p) \/ Exit(p) \/ Crash(p)
      PROVE Grows /\ CurrentIsNewest'
    BY <1>1, <1>8 DEF Open, RebuildCommand, Exit, Crash, controlVars
<1>9. CASE UNCHANGED vars
    BY <1>1, <1>9 DEF vars, controlVars
<1> QED
    BY <1>4, <1>5, <1>6, <1>7, <1>8, <1>9 DEF Next

Published == {Entry(e) : e \in projection}
Newest == {Entry(e) : e \in current}

LEMMA LedgerState ==
    SerialInv /\ CurrentIsNewest => /\ Ledger!OneNumberPerKey(Published)
                                    /\ Ledger!OneEntryPerProposal(Published)
                                    /\ Newest = Ledger!NewestOf(Published)
<1> SUFFICES ASSUME SerialInv, CurrentIsNewest
             PROVE  /\ Ledger!OneNumberPerKey(Published)
                    /\ Ledger!OneEntryPerProposal(Published)
                    /\ Newest = Ledger!NewestOf(Published)
    OBVIOUS
<1>1. Ledger!OneNumberPerKey(Published)
    BY DEF SerialInv, EditionNumbersUnique, Ledger!OneNumberPerKey, Published, Entry
<1>2. Ledger!OneEntryPerProposal(Published)
    BY DEF SerialInv, OneEditionPerProposal, Ledger!OneEntryPerProposal, Published, Entry
<1>3. Newest = Ledger!NewestOf(Published)
  <2>1. ASSUME NEW e \in current PROVE Entry(e) \in Ledger!NewestOf(Published)
    BY <2>1 DEF CurrentIsNewest, NewestAmong, Ledger!NewestOf, Published, Entry
  <2>2. ASSUME NEW e \in projection, Entry(e) \in Ledger!NewestOf(Published)
        PROVE  e \in current
    <3>1. \A b \in Published : b.key = Entry(e).key => b.number <= Entry(e).number
      BY <2>2 DEF Ledger!NewestOf
    <3>2. ASSUME NEW f \in projection, Key(f) = Key(e) PROVE Number(f) <= Number(e)
      <4>1. Entry(f) \in Published
        BY DEF Published
      <4>2. Entry(f).key = Entry(e).key => Entry(f).number <= Entry(e).number
        BY <3>1, <4>1
      <4> QED
        BY <3>2, <4>2 DEF Entry
    <3> QED
      BY <3>2 DEF CurrentIsNewest, NewestAmong
  <2>3. Ledger!NewestOf(Published) \subseteq Published
    BY DEF Ledger!NewestOf
  <2> QED
    BY <2>1, <2>2, <2>3 DEF Published, Newest
<1> QED
    BY <1>1, <1>2, <1>3

(* Every behaviour of the vault, with its crashes, retries, recoveries and *)
(* rebuilds, is a behaviour of the append-only ledger.                     *)
THEOREM ImplementsLedger == ASSUME SerialisedOpen PROVE Spec => LedgerSpec
<1> DEFINE LedgerInv == SerialInv /\ CurrentIsNewest
<1>1. Init => LedgerInv /\ Ledger!Init
    BY SerialInit DEF Init, CurrentIsNewest, NewestAmong, Ledger!Init
<1>2. LedgerInv /\ [Next]_vars => LedgerInv'
    BY SerialStep, LedgerStep
<1>3. LedgerInv /\ LedgerInv' /\ [Next]_vars => [Ledger!Publish]_<<Published, Newest>>
  <2> SUFFICES ASSUME LedgerInv, LedgerInv', [Next]_vars PROVE Ledger!Publish
      OBVIOUS
  <2>1. Grows
      BY LedgerStep
  <2>2. Published \subseteq Published'
      BY <2>1 DEF Grows, Published, Entry, Key, Number
  <2>3. /\ Ledger!OneNumberPerKey(Published)'
        /\ Ledger!OneEntryPerProposal(Published)'
        /\ (Newest = Ledger!NewestOf(Published))'
      BY LedgerState, PTL
  <2> QED
      BY <2>2, <2>3 DEF Ledger!Publish, Published, Newest, Ledger!OneNumberPerKey,
                        Ledger!OneEntryPerProposal, Ledger!NewestOf
<1> QED
    BY <1>1, <1>2, <1>3, PTL DEF Spec, LedgerSpec, Ledger!Spec, Ledger!ledgerVars, Published,
                                 Newest
=============================================================================
