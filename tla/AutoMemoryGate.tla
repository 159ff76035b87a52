--------------------------- MODULE AutoMemoryGate ---------------------------
(***************************************************************************)
(* The machine-wide switch for automatic memory and the writers behind it  *)
(* (crates/art-agent-store, AutoMemoryConfigStore in lib.rs, the claims in *)
(* lib.rs and intake in intake.rs).  The switch is a file, replaced by     *)
(* renaming, and a lock file serialises its changes with the admission and *)
(* commit of automatic memories in every Agent's vault.  A lock file older *)
(* than thirty seconds is taken for a crashed process's and is removed.    *)
(*                                                                         *)
(* What a memory says, the budget and the idempotency of requests are in   *)
(* module MemoryIntake: here an admitted writer writes or does not.        *)
(* Intake on request of the user takes the lock as well and never looks at *)
(* the switch: to the others it is a writer that does not write.           *)
(***************************************************************************)
EXTENDS Naturals, FiniteSets

CONSTANTS
    Procs,        \* processes: MCP servers, hooks, governance pages
    Vaults,       \* Agent vaults
    VaultOf,      \* [Procs -> Vaults]
    NoProc,       \* no process
    MaxToggles,   \* bound: changes of the switch ever written
    MaxTriggers,  \* bound: accepted triggers
    MaxWrites,    \* bound: automatic memories written
    MaxCrashes,   \* bound: process crashes, and locks created in vain
    MaxLosses     \* bound: the switch's file removed or damaged

ASSUME ConstantsAssumption ==
    /\ VaultOf \in [Procs -> Vaults]
    /\ NoProc \notin Procs
    /\ MaxToggles \in Nat /\ MaxTriggers \in Nat /\ MaxWrites \in Nat
    /\ MaxCrashes \in Nat /\ MaxLosses \in Nat

TriggerIds == 1..MaxTriggers

VARIABLES
    lock,      \* the process that created .auto-memory.lock, or NoProc
    stale,     \* the lock file is older than thirty seconds
    kept,      \* history: no holder's lock file was removed as an old one
    config,    \* the switch: [enabled, version] and which toggle wrote it
    toggles,   \* toggles written so far
    returned,  \* toggles whose set_enabled returned Ok
    triggers,  \* accepted triggers: what the switch was, and the vault
    spent,     \* triggers a memory was written for
    written,   \* automatic memories written
    crashes, losses,
    pc,        \* where a process is
    task,      \* what it does: [kind, trigger]
    seen,      \* the switch as it last read, or wrote, it
    crowded    \* history: holders that have not held the lock alone

lockVars == <<lock, stale, kept>>
switchVars == <<config, toggles, returned>>
vaultVars == <<triggers, spent, written>>
boundVars == <<crashes, losses>>
processVars == <<pc, task, seen, crowded>>
vars == <<lockVars, switchVars, vaultVars, boundVars, processVars>>

Configs == [enabled : BOOLEAN, version : Nat, toggle : Nat]
Missing == [enabled |-> FALSE, version |-> 0, toggle |-> 0]

NoTask == [kind |-> "none", trigger |-> 0]
Toggle == [kind |-> "toggle", trigger |-> 0]
Claim == [kind |-> "claim", trigger |-> 0]
Initiative == [kind |-> "intake", trigger |-> 0]
Submission(t) == [kind |-> "intake", trigger |-> t]
Tasks == {NoTask, Toggle, Claim, Initiative} \cup {Submission(t) : t \in TriggerIds}

Holding == {"holding", "read", "admitted", "written", "confirmed", "closing"}
Places == {"idle", "entering", "waiting", "breaking"} \cup Holding

NoTrigger == [version |-> 0, toggle |-> 0, vault |-> "none"]
Accepted(t) == triggers[t] # NoTrigger

Init ==
    /\ lock = NoProc /\ stale = FALSE /\ kept = TRUE
    /\ config = Missing /\ toggles = 0 /\ returned = {}
    /\ triggers = [t \in TriggerIds |-> NoTrigger] /\ spent = {} /\ written = 0
    /\ crashes = 0 /\ losses = 0
    /\ pc = [p \in Procs |-> "idle"]
    /\ task = [p \in Procs |-> NoTask]
    /\ seen = [p \in Procs |-> Missing]
    /\ crowded = {}

Move(p, from, to) == pc[p] = from /\ pc' = [pc EXCEPT ![p] = to]
Finish(p) ==
    /\ pc' = [pc EXCEPT ![p] = "idle"]
    /\ task' = [task EXCEPT ![p] = NoTask]
    /\ seen' = [seen EXCEPT ![p] = Missing]
    /\ crowded' = crowded \ {p}
(* What is left to do is to drop the lock. *)
Close(p, from) ==
    /\ Move(p, from, "closing")
    /\ task' = [task EXCEPT ![p] = NoTask]
    /\ seen' = [seen EXCEPT ![p] = Missing]
    /\ UNCHANGED crowded

-----------------------------------------------------------------------------
(* A call starts.  Writers look at the switch, then start an immediate     *)
(* transaction, then ask for the lock: database before lock, always.       *)

CallToggle(p) ==
    /\ Move(p, "idle", "waiting")
    /\ task' = [task EXCEPT ![p] = Toggle]
    /\ UNCHANGED <<lockVars, switchVars, vaultVars, boundVars, seen, crowded>>

(* A claim looks at the switch and is refused at once if it is off; intake *)
(* remembers whether it is on.                                             *)
CallWriter(p, w) ==
    /\ Move(p, "idle", "entering")
    /\ w = Claim => config.enabled
    /\ task' = [task EXCEPT ![p] = w]
    /\ seen' = [seen EXCEPT ![p].enabled = config.enabled]
    /\ UNCHANGED <<lockVars, switchVars, vaultVars, boundVars, crowded>>

InTransaction(p) ==
    task[p].kind \in {"claim", "intake"} /\ pc[p] \in {"waiting", "breaking", "holding", "admitted"}
VaultFree(p) == \A r \in Procs : VaultOf[r] = VaultOf[p] => ~InTransaction(r)

Begin(p) ==
    /\ Move(p, "entering", "waiting")
    /\ VaultFree(p)
    /\ UNCHANGED <<lockVars, switchVars, vaultVars, boundVars, task, seen, crowded>>

(* The database is busy for too long, or the request is a repeated one.    *)
BeginReturns(p) ==
    /\ pc[p] = "entering"
    /\ Finish(p)
    /\ UNCHANGED <<lockVars, switchVars, vaultVars, boundVars>>

-----------------------------------------------------------------------------
(* acquire_auto_memory_config_lock *)

Holders == {p \in Procs : pc[p] \in Holding}

(* create_new: only who finds no file makes it. *)
Free_OrStale == lock = NoProc \/ stale
Free == lock = NoProc

Acquire(p) ==
    /\ Move(p, "waiting", "holding")
    /\ Free
    /\ lock' = p /\ stale' = FALSE
    /\ crowded' = IF Holders = {} THEN crowded ELSE crowded \cup Holders \cup {p}
    /\ UNCHANGED <<kept, switchVars, vaultVars, boundVars, task, seen>>

(* The file is there but cannot be made private or synced: it stays.       *)
AcquireFails(p) ==
    /\ pc[p] = "waiting"
    /\ Free
    /\ crashes < MaxCrashes
    /\ crashes' = crashes + 1
    /\ lock' = p /\ stale' = FALSE
    /\ Finish(p)
    /\ UNCHANGED <<kept, switchVars, vaultVars, losses>>

LooksStale_Never == FALSE
LooksStale == lock # NoProc /\ stale

(* Looking at the age of the file and removing it are two steps: whatever  *)
(* file is there by then is removed, also one that is new.                 *)
FindStale(p) ==
    /\ Move(p, "waiting", "breaking")
    /\ LooksStale
    /\ UNCHANGED <<lockVars, switchVars, vaultVars, boundVars, task, seen, crowded>>

Break(p) ==
    /\ Move(p, "breaking", "waiting")
    /\ lock' = NoProc /\ stale' = FALSE
    /\ kept' = (kept /\ lock \notin Holders)
    /\ UNCHANGED <<switchVars, vaultVars, boundVars, task, seen, crowded>>

(* Five seconds of waiting for a lock that is not stale *)
GiveUp(p) ==
    /\ pc[p] = "waiting"
    /\ lock # NoProc /\ ~LooksStale
    /\ Finish(p)
    /\ UNCHANGED <<lockVars, switchVars, vaultVars, boundVars>>

(* The lock file gets old: its process is gone, or is slow. *)
Age ==
    /\ lock # NoProc /\ ~stale
    /\ stale' = TRUE
    /\ UNCHANGED <<lock, kept, switchVars, vaultVars, boundVars, processVars>>

(* Whatever lock file is there is removed. *)
Release(p) ==
    /\ \/ pc[p] = "confirmed" /\ returned' = returned \cup {seen[p].toggle}
       \/ pc[p] = "closing" /\ UNCHANGED returned
    /\ lock' = NoProc /\ stale' = FALSE
    /\ Finish(p)
    /\ UNCHANGED <<kept, config, toggles, vaultVars, boundVars>>

-----------------------------------------------------------------------------
(* set_enabled *)

ReadSwitch(p) ==
    /\ Move(p, "holding", "read")
    /\ task[p].kind = "toggle"
    /\ seen' = [seen EXCEPT ![p] = config]
    /\ UNCHANGED <<lockVars, switchVars, vaultVars, boundVars, task, crowded>>

NextVersion_Kept(prior) == prior.version
NextVersion(prior) == prior.version + 1

(* What the caller wants it to be matters only here. *)
WriteSwitch(p) ==
    /\ Move(p, "read", "written")
    /\ toggles < MaxToggles
    /\ toggles' = toggles + 1
    /\ \E on \in BOOLEAN :
          config' = [enabled |-> on, version |-> NextVersion(seen[p]), toggle |-> toggles + 1]
    /\ seen' = [seen EXCEPT ![p] = config']
    /\ UNCHANGED <<lockVars, returned, vaultVars, boundVars, task, crowded>>

(* The temporary file cannot be written or renamed. *)
WriteSwitchFails(p) ==
    /\ Close(p, "read")
    /\ UNCHANGED <<lockVars, switchVars, vaultVars, boundVars>>

(* Ok if it reads back what it wrote; an error if it does not, or if the   *)
(* file could not be made private.                                         *)
ReadBack(p) ==
    /\ \/ Move(p, "written", "confirmed") /\ config.version = seen[p].version
          /\ UNCHANGED <<task, seen, crowded>>
       \/ Close(p, "written")
    /\ UNCHANGED <<lockVars, switchVars, vaultVars, boundVars>>

-----------------------------------------------------------------------------
(* claim_auto_memory_trigger and intake, behind the lock *)

(* The trigger was accepted, in this vault, by the switch as it is now.    *)
Current_AnyVersion(p, t) == t # 0 => Accepted(t) /\ triggers[t].vault = VaultOf[p]
Current(p, t) ==
    t # 0 => /\ Accepted(t) /\ triggers[t].vault = VaultOf[p]
             /\ triggers[t].version = config.version

Enabled_AsCalled(p) == seen[p].enabled
Enabled(p) == seen[p].enabled /\ config.enabled

Admit(p) ==
    /\ Move(p, "holding", "admitted")
    /\ task[p].kind \in {"claim", "intake"}
    /\ Enabled(p)
    /\ Current(p, task[p].trigger)
    /\ task[p].trigger \notin spent
    /\ seen' = [seen EXCEPT ![p] = config]
    /\ UNCHANGED <<lockVars, switchVars, vaultVars, boundVars, task, crowded>>

(* Disabled, not the trigger's time any more, a trigger used already, or   *)
(* one of the checks of MemoryIntake: at most a receipt is written.        *)
Decline(p) ==
    /\ Close(p, "holding")
    /\ task[p].kind \in {"claim", "intake"}
    /\ UNCHANGED <<lockVars, switchVars, vaultVars, boundVars>>

CommitClaim(p) ==
    /\ Close(p, "admitted")
    /\ task[p] = Claim
    /\ \E t \in TriggerIds :
        /\ ~Accepted(t) /\ \A s \in 1..(t - 1) : Accepted(s)
        /\ triggers' = [triggers EXCEPT ![t] = [version |-> seen[p].version,
                                                toggle |-> seen[p].toggle,
                                                vault |-> VaultOf[p]]]
    /\ UNCHANGED <<lockVars, switchVars, spent, written, boundVars>>

CommitIntake(p) ==
    /\ Close(p, "admitted")
    /\ task[p].kind = "intake"
    /\ written < MaxWrites
    /\ written' = written + 1
    /\ spent' = IF task[p].trigger = 0 THEN spent ELSE spent \cup {task[p].trigger}
    /\ UNCHANGED <<lockVars, switchVars, triggers, boundVars>>

CommitFails(p) ==
    /\ Close(p, "admitted")
    /\ UNCHANGED <<lockVars, switchVars, vaultVars, boundVars>>

-----------------------------------------------------------------------------
(* The lock file of a process that dies stays; its transaction does not.   *)
Crash(p) ==
    /\ pc[p] # "idle"
    /\ crashes < MaxCrashes
    /\ crashes' = crashes + 1
    /\ Finish(p)
    /\ UNCHANGED <<lockVars, switchVars, vaultVars, losses>>

(* A missing or damaged file counts as disabled, with version 0. *)
LoseConfig ==
    /\ config # Missing
    /\ losses < MaxLosses
    /\ losses' = losses + 1
    /\ config' = Missing
    /\ UNCHANGED <<lockVars, toggles, returned, vaultVars, crashes, processVars>>

Work(p) ==
    \/ Begin(p) \/ BeginReturns(p)
    \/ Acquire(p) \/ AcquireFails(p) \/ FindStale(p) \/ Break(p) \/ GiveUp(p) \/ Release(p)
    \/ ReadSwitch(p) \/ WriteSwitch(p) \/ WriteSwitchFails(p) \/ ReadBack(p)
    \/ Admit(p) \/ Decline(p) \/ CommitClaim(p) \/ CommitIntake(p) \/ CommitFails(p)

Next ==
    \/ \E p \in Procs :
        \/ CallToggle(p)
        \/ CallWriter(p, Claim) \/ CallWriter(p, Initiative)
        \/ \E t \in TriggerIds : Accepted(t) /\ CallWriter(p, Submission(t))
        \/ Work(p) \/ Crash(p)
    \/ Age \/ LoseConfig

Spec == Init /\ [][Next]_vars

(* Calls go on until they return, and files get old.  Nobody has to call.  *)
Fairness == WF_vars(Age) /\ \A p \in Procs : WF_vars(Work(p))
FairSpec == Spec /\ Fairness

-----------------------------------------------------------------------------
(* Properties *)

(* Every variable has its type, and who has a task is not idle. *)
TypeOK ==
    /\ lock \in Procs \cup {NoProc}
    /\ stale \in BOOLEAN
    /\ stale => lock # NoProc
    /\ config \in Configs
    /\ toggles \in 0..MaxToggles
    /\ config.toggle <= toggles
    /\ returned \subseteq 1..toggles
    /\ triggers \in [TriggerIds -> [version : Nat, toggle : Nat, vault : Vaults] \cup {NoTrigger}]
    /\ spent \subseteq {t \in TriggerIds : Accepted(t)}
    /\ written \in 0..MaxWrites
    /\ crashes \in 0..MaxCrashes
    /\ losses \in 0..MaxLosses
    /\ pc \in [Procs -> Places]
    /\ task \in [Procs -> Tasks]
    /\ \A p \in Procs : task[p] = NoTask <=> pc[p] \in {"idle", "closing"}
    /\ seen \in [Procs -> Configs]
    /\ kept \in BOOLEAN
    /\ crowded \subseteq Holders

(* One process at a time is between taking the lock and dropping it, until *)
(* somebody removes the lock file of a holder as an old one: of a holder   *)
(* that has taken thirty seconds, or of one that came while two processes  *)
(* were removing the file of a third.                                      *)
OneHolder == kept => \A p, r \in Holders : p = r

(* intake.rs: no automatic write lands, be it a claim or a memory, after a *)
(* disable has returned to its caller.  The code keeps that for whoever    *)
(* had the lock to itself, whatever happened to the lock before.           *)
Lands == triggers' # triggers \/ written' # written
DisableReturned == ~config.enabled /\ config.toggle \in returned
NoWriteAfterDisable ==
    [][\A p \in Holders \ crowded : Lands /\ pc'[p] # pc[p] => ~DisableReturned]_vars

(* Changes of the switch do not overwrite each other: every one that is    *)
(* written gets a later version than the one it replaces, if its writer    *)
(* had the lock to itself.                                                 *)
VersionsIncrease ==
    [][\A p \in Holders \ crowded :
         pc'[p] # pc[p] /\ config' # config => config'.version > config.version]_vars

(* A trigger is admitted only if the switch was not touched since it was   *)
(* accepted: off and on again counts, although it looks the same, unless   *)
(* versions were given twice: the switch file was lost and they have begun *)
(* anew, or a holder's lock file was removed and two have written at once. *)
TriggersExpire ==
    losses = 0 /\ kept =>
        \A p \in Procs : pc[p] = "admitted" /\ task[p].trigger # 0
                         => triggers[task[p].trigger].toggle = seen[p].toggle

(* A lock left by a crash does not close the switch for good: as long as   *)
(* there are calls, an old one is removed time and again.                  *)
Leftover == lock # NoProc /\ stale /\ pc[lock] \notin Holding
LeftoverBroken == ([]<>\E p \in Procs : pc[p] = "waiting") => []<>~Leftover
=============================================================================
