------------------------------ MODULE Startup ------------------------------
(***************************************************************************)
(* src/main.rs up to the manager: several softnet processes of one host    *)
(* start, become root through the set-user-ID bit or through sudo, and     *)
(* write the bootpd preferences that they share.  Manager takes over in    *)
(* phase "Started".                                                        *)
(***************************************************************************)
EXTENDS Integers, Sequences

CONSTANTS
    Process,
    Users,           \* user names, "root" among them; a group goes with each
    LeaseBits,       \* width of the integers that hold a lease time
    Leases           \* lease times given on the command line

Nobody == "nobody"

ASSUME StartupAssumption ==
    /\ Nobody \notin Process
    /\ "root" \in Users /\ Users \subseteq STRING
    /\ LeaseBits \in Nat \ {0}
    /\ Leases \subseteq 0 .. 2 ^ LeaseBits - 1

VARIABLES
    caller,          \* who started each process
    explicit,        \* the --user that it was started with, or "none"
    args,            \* the arguments of its current image
    real, effective, \* its user IDs
    phase,
    execs,           \* how often it was replaced by sudo
    user,            \* the user that the manager will drop privileges to
    outcome,         \* of the closure in configure_bootpd
    lock, preferences               \* the bootpd preferences: holder, committed lease time

identity == <<caller, explicit>>
shared == <<lock, preferences>>
image == <<args, real, effective, execs>>
startupVars == <<identity, image, phase, user, outcome, shared>>

Set(f, p, value) == f' = [f EXCEPT ![p] = value]

Final == {"Started", "Usage", "Failed"}

StartupInit ==
    /\ caller \in [Process -> Users]
    /\ explicit \in [Process -> Users \cup {"none"}]
    /\ \E times \in [Process -> Leases] :
         args = [p \in Process |->
                   [users |-> IF explicit[p] = "none" THEN <<>> ELSE <<explicit[p]>>,
                    done  |-> FALSE,
                    lease |-> times[p]]]
    /\ real = caller
    /\ \E setuid \in BOOLEAN :
         effective = [p \in Process |-> IF setuid THEN "root" ELSE caller[p]]
    /\ phase = [p \in Process |-> "Parse"]
    /\ execs = [p \in Process |-> 0]
    /\ user = [p \in Process |-> "none"]
    /\ outcome = [p \in Process |-> "Ok"]
    /\ lock = Nobody /\ preferences = 0

-----------------------------------------------------------------------------
(***************************************************************************)
(* try_main until the process is root.                                     *)
(***************************************************************************)
\* An argument that takes one value is given at most once
Parses(arguments) == Len(arguments.users) <= 1

ParseArgs(p) ==
    /\ phase[p] = "Parse"
    /\ Set(phase, p, IF Parses(args[p]) THEN "CheckRoot" ELSE "Usage")
    /\ UNCHANGED <<identity, image, user, outcome, shared>>

\* The names of the real user and group may be unknown
CheckRoot(p) ==
    /\ phase[p] = "CheckRoot"
    /\ \/ Set(phase, p, IF effective[p] = "root" THEN "Lock" ELSE "Probe")
       \/ Set(phase, p, "Failed")
    /\ UNCHANGED <<identity, image, user, outcome, shared>>

\* sudo_escalation_works: a second process with the same arguments, which only
\* parses them.  Sudo may refuse to run it.
ProbeSudo(p) ==
    /\ phase[p] = "Probe"
    /\ \/ ~ args[p].done /\ Parses(args[p]) /\ Set(phase, p, "Exec")
       \/ Set(phase, p, "Failed")
    /\ UNCHANGED <<identity, image, user, outcome, shared>>

\* Mutant: the caller's name is not passed on
Mut_EscalatedArgs(p) == [args[p] EXCEPT !.done = TRUE]

EscalatedArgs(p) ==
    [args[p] EXCEPT !.done = TRUE, !.users = Append(args[p].users, real[p])]

\* sudo replaces the process and starts softnet again, as root unless it is
\* configured otherwise; or the process ends, as exec or sudo failed
ExecSudo(p) ==
    /\ phase[p] = "Exec"
    /\ \/ /\ \E name \in Users : Set(real, p, name) /\ Set(effective, p, name)
          /\ Set(args, p, EscalatedArgs(p))
          /\ Set(execs, p, execs[p] + 1)
          /\ Set(phase, p, "Parse")
       \/ Set(phase, p, "Failed") /\ UNCHANGED image
    /\ UNCHANGED <<identity, user, outcome, shared>>

-----------------------------------------------------------------------------
(***************************************************************************)
(* configure_bootpd.                                                       *)
(***************************************************************************)
\* lease_time as i32
AsSigned(n) == IF n < 2 ^ (LeaseBits - 1) THEN n ELSE n - 2 ^ LeaseBits

\* Mutant: the result of SCPreferencesLock is ignored
Mut_LockPreferences(p) ==
    /\ phase[p] = "Lock"
    /\ lock' = IF lock = Nobody THEN p ELSE lock
    /\ Set(phase, p, "Commit")
    /\ UNCHANGED <<identity, image, user, outcome, preferences>>

\* SCPreferencesLock waits for the lock
LockPreferences(p) ==
    /\ phase[p] = "Lock" /\ lock = Nobody
    /\ lock' = p
    /\ Set(phase, p, "Commit")
    /\ UNCHANGED <<identity, image, user, outcome, preferences>>

LockFails(p) ==
    /\ phase[p] = "Lock"
    /\ Set(phase, p, "Failed")
    /\ UNCHANGED <<identity, image, user, outcome, shared>>

\* SCPreferencesSetValue and SCPreferencesCommitChanges
CommitPreferences(p) ==
    /\ phase[p] = "Commit"
    /\ \/ /\ preferences' = AsSigned(args[p].lease)
          /\ Set(phase, p, "Apply")
          /\ UNCHANGED outcome
       \/ /\ Set(outcome, p, "Err") /\ Set(phase, p, "Unlock")
          /\ UNCHANGED preferences
    /\ UNCHANGED <<identity, image, user, lock>>

ApplyPreferences(p) ==
    /\ phase[p] = "Apply"
    /\ \E value \in {"Ok", "Err"} : Set(outcome, p, value)
    /\ Set(phase, p, "Unlock")
    /\ UNCHANGED <<identity, image, user, shared>>

\* Mutant: the lock is left to the end of the process
Mut_UnlockPreferences(p) ==
    /\ phase[p] = "Unlock"
    /\ Set(phase, p, IF outcome[p] = "Err" THEN "Failed" ELSE "Manager")
    /\ lock' = IF outcome[p] = "Err" THEN Nobody ELSE lock
    /\ UNCHANGED <<identity, image, user, outcome, preferences>>

\* If SCPreferencesUnlock fails, so does configure_bootpd, and the lock goes with
\* the process
UnlockPreferences(p) ==
    /\ phase[p] = "Unlock"
    /\ lock' = Nobody
    /\ \/ outcome[p] = "Ok" /\ Set(phase, p, "Manager")
       \/ Set(phase, p, "Failed")
    /\ UNCHANGED <<identity, image, user, outcome, preferences>>

-----------------------------------------------------------------------------
\* Take the control descriptor, which may be invalid, and create the manager
CreateManager(p) ==
    /\ phase[p] = "Manager"
    /\ \/ /\ Set(user, p, IF args[p].users = <<>> THEN real[p] ELSE args[p].users[1])
          /\ Set(phase, p, "Started")
       \/ Set(phase, p, "Failed") /\ UNCHANGED user
    /\ UNCHANGED <<identity, image, outcome, shared>>

\* The process is killed; the system releases its lock
Kill(p) ==
    /\ phase[p] \notin Final
    /\ Set(phase, p, "Failed")
    /\ lock' = IF lock = p THEN Nobody ELSE lock
    /\ UNCHANGED <<identity, image, user, outcome, preferences>>

Step(p) ==
    \/ ParseArgs(p) \/ CheckRoot(p) \/ ProbeSudo(p) \/ ExecSudo(p)
    \/ LockPreferences(p) \/ CommitPreferences(p) \/ ApplyPreferences(p) \/ UnlockPreferences(p)
    \/ CreateManager(p)

Settled == (\A p \in Process : phase[p] \in Final) /\ UNCHANGED startupVars

StartupNext == (\E p \in Process : Step(p) \/ LockFails(p) \/ Kill(p)) \/ Settled

\* A process runs when it can
StartupSpec == StartupInit /\ [][StartupNext]_startupVars /\ \A p \in Process : WF_startupVars(Step(p))

-----------------------------------------------------------------------------
Signed == - (2 ^ (LeaseBits - 1)) .. 2 ^ (LeaseBits - 1) - 1

(***************************************************************************)
(* Whatever sudo does with the process, it calls sudo once at most.        *)
(***************************************************************************)
EscalatesOnce == \A p \in Process : execs[p] <= 1

(***************************************************************************)
(* The manager starts as root, and will drop its privileges to the user    *)
(* named on the command line or else to the one who started the process,   *)
(* even though sudo has replaced the real user in between.                 *)
(***************************************************************************)
DropsToCaller ==
    \A p \in Process : phase[p] = "Started" =>
        /\ effective[p] = "root"
        /\ user[p] = IF explicit[p] = "none" THEN caller[p] ELSE explicit[p]

(***************************************************************************)
(* What a process applies is what it has committed itself, and a process   *)
(* that is past configure_bootpd, or has ended, holds no lock.             *)
(***************************************************************************)
PreferencesExclusive ==
    \A p \in Process :
        /\ phase[p] = "Apply" => preferences = AsSigned(args[p].lease)
        /\ lock = p => phase[p] \in {"Commit", "Apply", "Unlock"}

(***************************************************************************)
(* Every process starts its manager or ends: sudo and the preferences lock *)
(* keep none of them forever.                                              *)
(***************************************************************************)
StartupEnds == \A p \in Process : <>(phase[p] \in Final)

(***************************************************************************)
(* README.md: the privileges are dropped to the calling user or to the one *)
(* given by --user and --group.  So a process with one --user argument     *)
(* does not fail over its own arguments.                                   *)
(***************************************************************************)
UserArgumentAccepted == \A p \in Process : phase[p] # "Usage"
=============================================================================
