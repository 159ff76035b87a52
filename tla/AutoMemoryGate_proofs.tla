----------------------- MODULE AutoMemoryGate_proofs -----------------------
(***************************************************************************)
(* Theorems about AutoMemoryGate, for every number of processes, vaults,   *)
(* changes of the switch, triggers, writes, crashes and lost files.        *)
(***************************************************************************)
EXTENDS AutoMemoryGate, TLAPS

-----------------------------------------------------------------------------
(* Type correctness *)

(* What a process is about to report was written.  What it admitted was    *)
(* accepted.                                                               *)
TypeInv ==
    /\ TypeOK
    /\ \A p \in Procs : pc[p] \in {"written", "confirmed"} => seen[p].toggle \in 1..toggles
    /\ \A p \in Procs : pc[p] = "admitted" /\ task[p].trigger # 0 => Accepted(task[p].trigger)

LEMMA TaskFields ==
    /\ \A k \in Tasks : k.trigger \in TriggerIds \cup {0}
    /\ \A k \in Tasks : k.kind = "none" => k = NoTask
    /\ NoTask \in Tasks /\ NoTask.kind = "none" /\ NoTask.trigger = 0
    /\ Claim \in Tasks \ {NoTask} /\ Claim.trigger = 0
    /\ Initiative \in Tasks \ {NoTask}
    /\ Toggle \in Tasks \ {NoTask}
    /\ \A t \in TriggerIds : Submission(t) \in Tasks \ {NoTask}
<1>1. Toggle.kind = "toggle" /\ Toggle.trigger = 0
    BY DEF Toggle
<1>2. \A t \in TriggerIds : /\ Submission(t).kind = "intake" /\ Submission(t).trigger = t
    BY DEF Submission
<1>3. /\ NoTask.kind = "none" /\ NoTask.trigger = 0
      /\ Claim.kind = "claim" /\ Claim.trigger = 0
      /\ Initiative.kind = "intake" /\ Initiative.trigger = 0
    BY DEF NoTask, Claim, Initiative
<1> QED
    BY <1>1, <1>2, <1>3 DEF Tasks

LEMMA TypeInit == Init => TypeInv
<1> SUFFICES ASSUME Init PROVE TypeInv
    OBVIOUS
<1>1. Missing \in Configs /\ Missing.toggle = 0
    BY DEF Missing, Configs
<1>2. /\ triggers \in [TriggerIds -> [version : Nat, toggle : Nat, vault : Vaults] \cup {NoTrigger}]
      /\ pc \in [Procs -> Places] /\ task \in [Procs -> Tasks] /\ seen \in [Procs -> Configs]
    BY <1>1, TaskFields DEF Init, Places
<1>3. \A p \in Procs : task[p] = NoTask /\ pc[p] = "idle"
    BY DEF Init
<1>4. /\ lock = NoProc /\ stale = FALSE /\ kept = TRUE /\ crowded = {} /\ config = Missing /\ toggles = 0 /\ returned = {}
      /\ spent = {} /\ written = 0 /\ crashes = 0 /\ losses = 0
    BY DEF Init
<1>5. /\ config \in Configs /\ config.toggle <= toggles /\ returned \subseteq 1..toggles
      /\ toggles \in 0..MaxToggles /\ written \in 0..MaxWrites
      /\ crashes \in 0..MaxCrashes /\ losses \in 0..MaxLosses
    BY <1>1, <1>4, ConstantsAssumption
<1>6. stale \in BOOLEAN /\ ~stale /\ kept \in BOOLEAN
    BY <1>4
<1>7. TypeOK
    BY <1>2, <1>3, <1>4, <1>5, <1>6 DEF TypeOK
<1> QED
    BY <1>3, <1>7 DEF TypeInv

LEMMA TypeStep == TypeInv /\ [Next]_vars => TypeInv'
<1> SUFFICES ASSUME TypeInv, [Next]_vars PROVE TypeInv'
    OBVIOUS
<1> USE ConstantsAssumption, TaskFields
        DEF TypeInv, TypeOK, Configs, Places, Holding, Move, Finish, lockVars, switchVars,
            vaultVars, boundVars, processVars, Close, Holders
<1>1. ASSUME NEW p \in Procs, CallToggle(p) PROVE TypeInv'
    BY <1>1 DEF CallToggle, Accepted
<1>2. ASSUME NEW p \in Procs, NEW w \in Tasks \ {NoTask}, CallWriter(p, w) PROVE TypeInv'
    BY <1>2 DEF CallWriter, Accepted
<1>3. ASSUME NEW p \in Procs, Begin(p) PROVE TypeInv'
    BY <1>3 DEF Begin, Accepted
<1>4. ASSUME NEW p \in Procs, BeginReturns(p) PROVE TypeInv'
    BY <1>4 DEF BeginReturns, Accepted, Missing
<1>5. ASSUME NEW p \in Procs, Acquire(p) PROVE TypeInv'
  <2>1. /\ pc' = [pc EXCEPT ![p] = "holding"] /\ pc[p] = "waiting" /\ lock' = p
        /\ UNCHANGED <<kept, config, toggles, returned, triggers, spent, written, crashes, losses,
                       task, seen>>
    BY <1>5 DEF Acquire
  <2>2. ~stale' /\ stale' \in BOOLEAN
    BY <1>5 DEF Acquire
  <2>3. crowded' \subseteq Holders'
    BY <1>5, <2>1 DEF Acquire
  <2> QED
    BY <2>1, <2>2, <2>3 DEF Accepted
<1>6. ASSUME NEW p \in Procs, FindStale(p) PROVE TypeInv'
    BY <1>6 DEF FindStale, Accepted
<1>7. ASSUME NEW p \in Procs, Break(p) PROVE TypeInv'
  <2>1. kept' \in BOOLEAN
    BY <1>7 DEF Break
  <2>2. /\ pc' = [pc EXCEPT ![p] = "waiting"] /\ pc[p] = "breaking" /\ lock' = NoProc
        /\ UNCHANGED <<config, toggles, returned, triggers, spent, written, crashes, losses,
                       task, seen, crowded>>
    BY <1>7 DEF Break
  <2>3. ~stale' /\ stale' \in BOOLEAN
    BY <1>7 DEF Break
  <2> QED
    BY <2>1, <2>2, <2>3 DEF Accepted
<1>8. ASSUME NEW p \in Procs, GiveUp(p) PROVE TypeInv'
    BY <1>8 DEF GiveUp, Accepted, Missing
<1>9. ASSUME NEW p \in Procs, Release(p) PROVE TypeInv'
  <2>1. returned' \subseteq 1..toggles
    <3>1. CASE pc[p] = "confirmed" /\ returned' = returned \cup {seen[p].toggle}
      <4>1. seen[p].toggle \in 1..toggles /\ returned \subseteq 1..toggles
        BY <3>1
      <4> QED
        BY <3>1, <4>1, Zenon
    <3>2. CASE UNCHANGED returned
      BY <3>2
    <3> QED
      BY <1>9, <3>1, <3>2 DEF Release
  <2>2. /\ pc' = [pc EXCEPT ![p] = "idle"] /\ task' = [task EXCEPT ![p] = NoTask]
        /\ seen' = [seen EXCEPT ![p] = Missing]
        /\ lock' = NoProc /\ crowded' = crowded \ {p}
        /\ UNCHANGED <<kept, config, toggles, triggers, spent, written, crashes, losses>>
    BY <1>9 DEF Release
  <2>3. ~stale' /\ stale' \in BOOLEAN
    BY <1>9 DEF Release
  <2> QED
    BY <2>1, <2>2, <2>3 DEF Accepted, Missing
<1>10. ASSUME NEW p \in Procs, ReadSwitch(p) PROVE TypeInv'
    BY <1>10 DEF ReadSwitch, Accepted
<1>11. ASSUME NEW p \in Procs, WriteSwitch(p) PROVE TypeInv'
    BY <1>11 DEF WriteSwitch, NextVersion, Accepted
<1>12. ASSUME NEW p \in Procs, WriteSwitchFails(p) PROVE TypeInv'
    BY <1>12 DEF WriteSwitchFails, Accepted, Missing
<1>13. ASSUME NEW p \in Procs, ReadBack(p) PROVE TypeInv'
  <2>1. UNCHANGED <<lock, stale, kept, config, toggles, returned, triggers, spent, written,
                    crashes, losses, crowded>>
    BY <1>13 DEF ReadBack
  <2>2. CASE pc[p] = "written" /\ pc' = [pc EXCEPT ![p] = "confirmed"] /\ UNCHANGED <<task, seen>>
    BY <2>1, <2>2 DEF Accepted
  <2>3. CASE /\ pc[p] = "written" /\ pc' = [pc EXCEPT ![p] = "closing"]
             /\ task' = [task EXCEPT ![p] = NoTask] /\ seen' = [seen EXCEPT ![p] = Missing]
    BY <2>1, <2>3 DEF Accepted, Missing
  <2> QED
    BY <1>13, <2>2, <2>3 DEF ReadBack
<1>14. ASSUME NEW p \in Procs, Admit(p) PROVE TypeInv'
    BY <1>14 DEF Admit, Current, Accepted
<1>15. ASSUME NEW p \in Procs, Decline(p) PROVE TypeInv'
    BY <1>15 DEF Decline, Accepted, Missing
<1>16. ASSUME NEW p \in Procs, CommitClaim(p) PROVE TypeInv'
    BY <1>16 DEF CommitClaim, Accepted, Missing
<1>17. ASSUME NEW p \in Procs, CommitIntake(p) PROVE TypeInv'
    BY <1>17 DEF CommitIntake, Accepted, Missing
<1>18. ASSUME NEW p \in Procs, CommitFails(p) PROVE TypeInv'
    BY <1>18 DEF CommitFails, Accepted, Missing
<1>19. ASSUME NEW p \in Procs, Crash(p) PROVE TypeInv'
    BY <1>19 DEF Crash, Accepted, Missing
<1>23. ASSUME NEW p \in Procs, AcquireFails(p) PROVE TypeInv'
  <2>1. /\ pc' = [pc EXCEPT ![p] = "idle"] /\ task' = [task EXCEPT ![p] = NoTask]
        /\ seen' = [seen EXCEPT ![p] = Missing]
        /\ lock' = p /\ crashes' = crashes + 1 /\ crashes < MaxCrashes
        /\ crowded' = crowded \ {p} /\ pc[p] = "waiting"
        /\ UNCHANGED <<kept, config, toggles, returned, triggers, spent, written, losses>>
    BY <1>23 DEF AcquireFails
  <2>2. ~stale' /\ stale' \in BOOLEAN
    BY <1>23 DEF AcquireFails
  <2> QED
    BY <2>1, <2>2 DEF Accepted, Missing
<1>20. CASE Age
    BY <1>20 DEF Age, Accepted
<1>21. CASE LoseConfig
    BY <1>21 DEF LoseConfig, Accepted, Missing
<1>22. CASE UNCHANGED vars
    BY <1>22 DEF vars, Accepted
<1> QED
    BY <1>1, <1>2, <1>3, <1>4, <1>5, <1>6, <1>7, <1>8, <1>9, <1>10, <1>11, <1>12, <1>13, <1>14, <1>15, <1>16, <1>17, <1>18, <1>19, <1>20, <1>21, <1>22, <1>23
       DEF Next, Work

(* Every variable keeps its type, whatever the locks, losses and crashes.  *)
THEOREM TypeCorrect == Spec => []TypeOK
<1>1. TypeInv => TypeOK
    BY DEF TypeInv
<1> QED
    BY TypeInit, TypeStep, <1>1, PTL DEF Spec

-----------------------------------------------------------------------------
(* The lock, whoever removes it                                            *)

(* Until a holder's lock file is removed, who holds the lock created the   *)
(* file that is there, and has it alone.  After that two may hold it, and  *)
(* both are known for it.  While a process has the lock alone the switch   *)
(* stays as it read it, unless its file is lost.  As long as neither has   *)
(* happened, every change of the switch has the version of its number.     *)
LockKept ==
    /\ kept => crowded = {} /\ \A p \in Holders : lock = p
    /\ \A p, r \in Holders : p # r => p \in crowded /\ r \in crowded

SwitchKept ==
    /\ \A p \in Procs \ crowded : pc[p] \in {"read", "admitted"}
                        => seen[p] = config \/ (config = Missing /\ losses > 0)
    /\ \A p \in Procs : pc[p] = "admitted" => seen[p].enabled

VersionsKept ==
    losses = 0 /\ kept =>
        /\ config.version = config.toggle /\ config.toggle = toggles
        /\ \A t \in TriggerIds : Accepted(t) => triggers[t].version = triggers[t].toggle
        /\ \A p \in Procs : pc[p] = "admitted" /\ task[p].trigger # 0
                            => triggers[task[p].trigger].toggle = seen[p].toggle

GateInv == TypeInv /\ LockKept /\ SwitchKept /\ VersionsKept

LEMMA GateInit == Init => GateInv
<1> SUFFICES ASSUME Init PROVE GateInv
    OBVIOUS
<1>1. TypeInv
    BY TypeInit
<1>2. \A p \in Procs : pc[p] = "idle"
    BY DEF Init
<1>3. LockKept /\ SwitchKept
    BY <1>2 DEF Init, LockKept, SwitchKept, Holders, Holding
<1>4. config.version = 0 /\ config.toggle = 0 /\ toggles = 0
    BY DEF Init, Missing
<1>5. \A t \in TriggerIds : ~Accepted(t)
    BY DEF Init, Accepted
<1> QED
    BY <1>1, <1>2, <1>3, <1>4, <1>5 DEF GateInv, VersionsKept

LEMMA LockStep ==
    ASSUME TypeInv, TypeInv', LockKept, [Next]_vars
    PROVE  LockKept'
<1> USE ConstantsAssumption, TypeInv, TypeInv', LockKept
        DEF LockKept, Holders, TypeInv, TypeOK, Holding, Move, Finish, Close, lockVars
<1>1. ASSUME NEW p \in Procs, CallToggle(p) PROVE LockKept'
    BY <1>1 DEF CallToggle
<1>2. ASSUME NEW p \in Procs, NEW w, CallWriter(p, w) PROVE LockKept'
    BY <1>2 DEF CallWriter
<1>3. ASSUME NEW p \in Procs, Begin(p) \/ BeginReturns(p) \/ GiveUp(p) PROVE LockKept'
    BY <1>3 DEF Begin, BeginReturns, GiveUp
<1>4. ASSUME NEW p \in Procs, Acquire(p) PROVE LockKept'
    BY <1>4 DEF Acquire, Free
<1>5. ASSUME NEW p \in Procs, FindStale(p) PROVE LockKept'
    BY <1>5 DEF FindStale, LooksStale
<1>6. ASSUME NEW p \in Procs, Break(p) PROVE LockKept'
    BY <1>6 DEF Break
<1>7. ASSUME NEW p \in Procs, Release(p) PROVE LockKept'
    BY <1>7 DEF Release
<1>8. ASSUME NEW p \in Procs, ReadSwitch(p) \/ WriteSwitch(p) \/ WriteSwitchFails(p) \/ ReadBack(p)
      PROVE LockKept'
    BY <1>8 DEF ReadSwitch, WriteSwitch, WriteSwitchFails, ReadBack
<1>9. ASSUME NEW p \in Procs, Admit(p) \/ Decline(p) \/ CommitClaim(p) \/ CommitIntake(p) \/ CommitFails(p)
      PROVE LockKept'
    BY <1>9 DEF Admit, Decline, CommitClaim, CommitIntake, CommitFails
<1>13. ASSUME NEW p \in Procs, AcquireFails(p) PROVE LockKept'
    BY <1>13 DEF AcquireFails, Free
<1>10. ASSUME NEW p \in Procs, Crash(p) PROVE LockKept'
    BY <1>10 DEF Crash
<1>11. CASE Age
    BY <1>11 DEF Age, processVars
<1>12. CASE LoseConfig \/ UNCHANGED vars
    BY <1>12 DEF LoseConfig, vars, processVars
<1> QED
    BY <1>1, <1>2, <1>3, <1>4, <1>5, <1>6, <1>7, <1>8, <1>9, <1>10, <1>11, <1>12, <1>13 DEF Next, Work

(* Until a holder's lock file is removed no two processes hold the lock;   *)
(* and two who do are both crowded, whatever was removed.                  *)
LEMMA Alone ==
    ASSUME LockKept
    PROVE  /\ OneHolder
           /\ \A p \in Holders \ crowded : \A r \in Holders : r = p
BY DEF LockKept, OneHolder

LEMMA SwitchStep ==
    ASSUME TypeInv, TypeInv', LockKept, SwitchKept, [Next]_vars
    PROVE  SwitchKept'
<1>a. \A p \in Holders \ crowded : \A r \in Holders : r = p
    BY Alone
<1> USE ConstantsAssumption, SwitchKept
        DEF SwitchKept, TypeInv, TypeOK, Holding, Move, Finish, Close, boundVars, switchVars
<1>1. ASSUME NEW p \in Procs, CallToggle(p) PROVE SwitchKept'
    BY <1>1, TypeInv DEF CallToggle
<1>2. ASSUME NEW p \in Procs, NEW w, CallWriter(p, w) PROVE SwitchKept'
    BY <1>2, TypeInv DEF CallWriter
<1>3. ASSUME NEW p \in Procs, Begin(p) \/ BeginReturns(p) \/ GiveUp(p) \/ AcquireFails(p)
      PROVE SwitchKept'
    BY <1>3, TypeInv DEF AcquireFails, Begin, BeginReturns, GiveUp
<1>4. ASSUME NEW p \in Procs, Acquire(p) \/ FindStale(p) \/ Break(p) PROVE SwitchKept'
    BY <1>4, TypeInv DEF Acquire, FindStale, Break
<1>5. ASSUME NEW p \in Procs, Release(p) PROVE SwitchKept'
    BY <1>5, TypeInv DEF Release
<1>6. ASSUME NEW p \in Procs, ReadSwitch(p) PROVE SwitchKept'
    BY <1>6, TypeInv DEF ReadSwitch
<1>7. ASSUME NEW p \in Procs, WriteSwitch(p) PROVE SwitchKept'
  <2>1. \A r \in Procs \ crowded : pc'[r] \notin {"read", "admitted"}
    BY <1>7, <1>a, TypeInv DEF WriteSwitch, Holders
  <2>2. crowded' = crowded /\ \A r \in Procs : pc'[r] = "admitted"
                                  => pc[r] = "admitted" /\ seen'[r] = seen[r]
    BY <1>7, TypeInv DEF WriteSwitch
  <2> QED
    BY <2>1, <2>2
<1>8. ASSUME NEW p \in Procs, WriteSwitchFails(p) \/ ReadBack(p) PROVE SwitchKept'
    BY <1>8, TypeInv DEF WriteSwitchFails, ReadBack
<1>9. ASSUME NEW p \in Procs, Admit(p) PROVE SwitchKept'
    BY <1>9, TypeInv DEF Admit, Enabled
<1>10. ASSUME NEW p \in Procs, Decline(p) \/ CommitClaim(p) \/ CommitIntake(p) \/ CommitFails(p)
       PROVE SwitchKept'
    BY <1>10, TypeInv DEF Decline, CommitClaim, CommitIntake, CommitFails
<1>11. ASSUME NEW p \in Procs, Crash(p) PROVE SwitchKept'
    BY <1>11, TypeInv DEF Crash
<1>12. CASE LoseConfig
    BY <1>12, TypeInv DEF LoseConfig, processVars
<1>13. CASE Age \/ UNCHANGED vars
    BY <1>13, TypeInv DEF Age, vars, processVars
<1> QED
    BY <1>1, <1>2, <1>3, <1>4, <1>5, <1>6, <1>7, <1>8, <1>9, <1>10, <1>11, <1>12, <1>13 DEF Next, Work

LEMMA VersionsStep ==
    ASSUME TypeInv, TypeInv', LockKept, SwitchKept, VersionsKept, [Next]_vars
    PROVE  VersionsKept'
<1> SUFFICES ASSUME losses' = 0, kept' PROVE VersionsKept'
    BY DEF VersionsKept
<1>b. losses = 0 /\ kept /\ config.version = config.toggle /\ config.toggle = toggles
  <2>1. UNCHANGED <<losses, kept>> \/ (losses' = losses + 1 /\ kept' = kept)
        \/ (losses' = losses /\ \E p \in Procs : Break(p))
    BY DEF Next, Work, CallToggle, CallWriter, Begin, BeginReturns, Acquire, AcquireFails,
           FindStale, Break, GiveUp, Release, ReadSwitch, WriteSwitch, WriteSwitchFails, ReadBack,
           Admit, Decline, CommitClaim, CommitIntake, CommitFails, Crash, Age, LoseConfig,
           boundVars, lockVars, vars
  <2>2. ASSUME NEW p \in Procs, Break(p) PROVE kept
    BY <2>2 DEF Break
  <2>3. kept
    BY <2>1, <2>2
  <2>4. losses = 0
    <3>1. losses \in Nat
      BY ConstantsAssumption DEF TypeInv, TypeOK
    <3>2. losses' = losses \/ losses' = losses + 1
      BY <2>1
    <3> QED
      BY <3>1, <3>2
  <2> QED
    BY <2>3, <2>4 DEF VersionsKept
<1>a. \A p, r \in Procs : pc[p] \in Holding /\ pc[r] \in Holding => p = r
    BY <1>b, Alone DEF OneHolder, Holders
<1>c. \A p \in Procs : pc[p] \in {"read", "admitted"} => seen[p] = config
    BY <1>b DEF SwitchKept, LockKept
<1> DEFINE Versions == \A t \in TriggerIds : Accepted(t) => triggers[t].version = triggers[t].toggle
           Fresh == \A p \in Procs : pc[p] = "admitted" /\ task[p].trigger # 0
                        => triggers[task[p].trigger].toggle = seen[p].toggle
<1>d. Versions /\ Fresh
    BY <1>b DEF VersionsKept
<1>e. config'.version = config'.toggle /\ config'.toggle = toggles' /\ Versions' /\ Fresh' => VersionsKept'
    BY DEF VersionsKept
<1>f. ASSUME UNCHANGED <<config, toggles, triggers>>,
             \A p \in Procs : pc'[p] = "admitted" =>
                 pc[p] = "admitted" /\ task'[p] = task[p] /\ seen'[p] = seen[p]
      PROVE  VersionsKept'
    BY <1>b, <1>d, <1>e, <1>f DEF Accepted
<1> HIDE DEF Versions, Fresh
<1> USE DEF TypeInv, TypeOK, Move, Finish, Close, switchVars, vaultVars
<1>1. ASSUME NEW p \in Procs, CallToggle(p) PROVE VersionsKept'
    BY <1>1, <1>f DEF CallToggle
<1>2. ASSUME NEW p \in Procs, NEW w, CallWriter(p, w) PROVE VersionsKept'
    BY <1>2, <1>f DEF CallWriter
<1>3. ASSUME NEW p \in Procs, Begin(p) \/ BeginReturns(p) \/ GiveUp(p) \/ Acquire(p)
             \/ AcquireFails(p) \/ FindStale(p) \/ Break(p)
      PROVE VersionsKept'
    BY <1>3, <1>f DEF AcquireFails, Begin, BeginReturns, GiveUp, Acquire, FindStale, Break
<1>4. ASSUME NEW p \in Procs, Release(p) \/ ReadSwitch(p) \/ WriteSwitchFails(p) \/ ReadBack(p)
      PROVE VersionsKept'
    BY <1>4, <1>f DEF Release, ReadSwitch, WriteSwitchFails, ReadBack
<1>5. ASSUME NEW p \in Procs, Decline(p) \/ CommitFails(p) \/ Crash(p) PROVE VersionsKept'
    BY <1>5, <1>f DEF Decline, CommitFails, Crash
<1>6. CASE Age \/ UNCHANGED vars
    BY <1>6, <1>f DEF Age, vars, processVars
<1>7. CASE LoseConfig
    BY <1>7, <1>b DEF LoseConfig
<1>8. ASSUME NEW p \in Procs, WriteSwitch(p) PROVE VersionsKept'
  <2>1. config'.version = toggles + 1 /\ config'.toggle = toggles + 1 /\ toggles' = toggles + 1
    BY <1>8, <1>b, <1>c DEF WriteSwitch, NextVersion
  <2>2. \A r \in Procs : pc'[r] # "admitted"
    BY <1>8, <1>a DEF WriteSwitch, Holding
  <2>3. UNCHANGED triggers
    BY <1>8 DEF WriteSwitch
  <2> QED
    BY <2>1, <2>2, <2>3, <1>d, <1>e DEF Accepted, Versions, Fresh
<1>9. ASSUME NEW p \in Procs, Admit(p) PROVE VersionsKept'
  <2>1. UNCHANGED <<config, toggles, triggers, task>> /\ seen' = [seen EXCEPT ![p] = config]
    BY <1>9 DEF Admit
  <2>2. \A r \in Procs : pc'[r] = "admitted" => r = p
    BY <1>9, <1>a DEF Admit, Holding
  <2>3. task[p].trigger # 0 => /\ Accepted(task[p].trigger)
                               /\ triggers[task[p].trigger].version = config.version
    BY <1>9 DEF Admit, Current
  <2>4. task[p].trigger # 0 => task[p].trigger \in TriggerIds
    BY TaskFields
  <2>5. seen'[p] = config
    BY <2>1
  <2> QED
    BY <2>1, <2>2, <2>3, <2>4, <2>5, <1>b, <1>d, <1>e DEF Accepted, Versions, Fresh
<1>10. ASSUME NEW p \in Procs, CommitClaim(p) PROVE VersionsKept'
  <2>1. UNCHANGED <<config, toggles>> /\ seen[p] = config
    BY <1>10, <1>c DEF CommitClaim
  <2>2. \A r \in Procs : pc'[r] # "admitted"
    BY <1>10, <1>a DEF CommitClaim, Holding
  <2>3. Versions'
    BY <1>10, <1>b, <1>d, <2>1 DEF CommitClaim, Accepted, Configs, Versions
  <2> QED
    BY <2>1, <2>2, <2>3, <1>b, <1>e DEF Fresh
<1>11. ASSUME NEW p \in Procs, CommitIntake(p) PROVE VersionsKept'
    BY <1>11, <1>f DEF CommitIntake
<1> QED
    BY <1>1, <1>2, <1>3, <1>4, <1>5, <1>6, <1>7, <1>8, <1>9, <1>10, <1>11 DEF Next, Work

(* What the lock is worth, whichever lock files are removed: its holders,  *)
(* the switch and the versions are as LockKept, SwitchKept and VersionsKept *)
(* say.                                                                    *)
THEOREM GateInvariant == Spec => []GateInv
<1>1. GateInv /\ [Next]_vars => GateInv'
    BY TypeStep, LockStep, SwitchStep, VersionsStep DEF GateInv
<1> QED
    BY GateInit, <1>1, PTL DEF Spec

(* The lock excludes until a process removes the file of one that holds it. *)
THEOREM OneHolderHolds == Spec => []OneHolder
<1>1. GateInv => OneHolder
    BY Alone DEF GateInv
<1> QED
    BY GateInvariant, <1>1, PTL

(* Until the switch's file is lost or a holder's lock file removed, a      *)
(* trigger from before a change of the switch is never admitted.           *)
THEOREM TriggersExpireHolds == Spec => []TriggersExpire
<1>1. GateInv => TriggersExpire
    BY DEF GateInv, VersionsKept, TypeInv, TypeOK, TriggersExpire
<1> QED
    BY GateInvariant, <1>1, PTL

(* A process that moves while the switch or a vault changes is the one     *)
(* that changes it.                                                        *)
LEMMA WhoChanges ==
    ASSUME TypeInv, [Next]_vars, NEW p \in Procs, pc'[p] # pc[p]
    PROVE  /\ Lands => pc[p] = "admitted"
           /\ config' # config => WriteSwitch(p)
<1>1. PICK r \in Procs : \/ CallToggle(r) \/ Work(r) \/ Crash(r)
                         \/ \E w \in Tasks : CallWriter(r, w)
    BY TaskFields DEF Next, Age, LoseConfig, processVars, vars
<1>2. r = p
    BY <1>1 DEF Work, CallToggle, CallWriter, Begin, BeginReturns, Acquire, AcquireFails,
           FindStale, Break, GiveUp, Release, ReadSwitch, WriteSwitch, WriteSwitchFails, ReadBack,
           Admit, Decline, CommitClaim, CommitIntake, CommitFails, Crash, Move, Finish, Close,
           TypeInv, TypeOK
<1>3. Lands => CommitClaim(p) \/ CommitIntake(p)
    BY <1>1, <1>2
       DEF Lands, Work, CallToggle, CallWriter, Begin, BeginReturns, Acquire, AcquireFails,
           FindStale, Break, GiveUp, Release, ReadSwitch, WriteSwitch, WriteSwitchFails, ReadBack,
           Admit, Decline, CommitFails, Crash, vaultVars
<1>4. config' # config => WriteSwitch(p)
    BY <1>1, <1>2
       DEF Work, CallToggle, CallWriter, Begin, BeginReturns, Acquire, AcquireFails,
           FindStale, Break, GiveUp, Release, ReadSwitch, WriteSwitchFails, ReadBack,
           Admit, Decline, CommitClaim, CommitIntake, CommitFails, Crash, switchVars
<1> QED
    BY <1>3, <1>4 DEF CommitClaim, CommitIntake, Close, Move

(* Who has the lock alone writes nothing automatic once a disable has      *)
(* returned.                                                               *)
THEOREM NoWriteAfterDisableHolds == Spec => NoWriteAfterDisable
<1> DEFINE LandsEnabled ==
               \A p \in Holders \ crowded : Lands /\ pc'[p] # pc[p] => ~DisableReturned
<1>1. ASSUME GateInv, [Next]_vars PROVE LandsEnabled
  <2> USE <1>1 DEF GateInv, TypeInv, TypeOK
  <2>1. SUFFICES ASSUME NEW p \in Holders \ crowded, Lands, pc'[p] # pc[p]
                 PROVE  ~DisableReturned
    OBVIOUS
  <2>2. p \in Procs \ crowded /\ pc[p] = "admitted"
    BY <2>1, WhoChanges DEF Holders
  <2>3. seen[p].enabled /\ (seen[p] = config \/ config = Missing)
    BY <2>2 DEF SwitchKept
  <2>4. 0 \notin returned
    BY ConstantsAssumption
  <2> QED
    BY <2>3, <2>4 DEF DisableReturned, Missing
<1>2. GateInv /\ [Next]_vars => [LandsEnabled]_vars
    BY <1>1
<1> QED
    BY GateInvariant, <1>2, PTL DEF NoWriteAfterDisable, Spec

(* Who has the lock alone gives a change of the switch a later version.    *)
THEOREM VersionsIncreaseHolds == Spec => VersionsIncrease
<1> DEFINE Later == \A p \in Holders \ crowded :
                        pc'[p] # pc[p] /\ config' # config => config'.version > config.version
<1>1. ASSUME GateInv, [Next]_vars PROVE Later
  <2> USE <1>1 DEF GateInv, TypeInv, TypeOK
  <2>1. SUFFICES ASSUME NEW p \in Holders \ crowded, pc'[p] # pc[p], config' # config
                 PROVE  config'.version > config.version
    OBVIOUS
  <2>2. p \in Procs \ crowded /\ WriteSwitch(p)
    BY <2>1, WhoChanges DEF Holders
  <2>3. seen[p] = config \/ config = Missing
    BY <2>2 DEF WriteSwitch, Move, SwitchKept
  <2>4. config'.version = seen[p].version + 1 /\ seen[p].version \in Nat
    BY <2>2 DEF WriteSwitch, NextVersion, Configs
  <2> QED
    BY <2>3, <2>4 DEF Missing
<1>2. GateInv /\ [Next]_vars => [Later]_vars
    BY <1>1
<1> QED
    BY GateInvariant, <1>2, PTL DEF VersionsIncrease, Spec
=============================================================================
