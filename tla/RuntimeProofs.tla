--------------------------- MODULE RuntimeProofs ----------------------------
(***************************************************************************)
(* The process around its VMs: the startup, the callback handshake, the    *)
(* clock that the proxies share and the event loop.  They share no state:  *)
(* each section has its own specification and inductive invariant.         *)
(***************************************************************************)
EXTENDS Startup, SharedClock, Host, ProxyLoop, TLAPS

-----------------------------------------------------------------------------
(***************************************************************************)
(* The shared clock, for any number of proxies, timeouts and lags.  The    *)
(* inductive invariant follows the recent instant from the update of a     *)
(* proxy to its inspection: whoever stores meanwhile has read the system's *)
(* clock at most MaxLag before, and so at most MaxLag before this proxy    *)
(* did.                                                                    *)
(***************************************************************************)

\* The proxies in the middle of an update, and what the others may have overwritten
Updates ==
    \A p \in Proxies :
        /\ sample[p] <= system
        /\ step[p] # "Idle" => system <= sample[p] + MaxLag
        /\ step[p] = "Stored" => recent >= sample[p] - MaxLag

\* A flow's expiry, by the system's clock
Expiries ==
    \A p \in Proxies :
        /\ opened[p] <= system
        /\ flow[p] = NoFlow \/ flow[p].state = "Flow"
        /\ flow[p].state = "Flow" =>
              /\ flow[p].expires_at <= opened[p] + TIMEOUT
              /\ flow[p].expires_at >= opened[p] + TIMEOUT - 2 * MaxLag

ClockInv ==
    /\ TypeOK /\ recent <= system
    /\ Updates /\ Expiries
    /\ ClockLagBounded /\ LifetimeKept

\* What an inspection can rely on
LEMMA InspectionInstant ==
    ASSUME ClockInv, NEW p \in Proxies, step[p] = "Stored"
    PROVE  /\ system \in Nat /\ recent \in Nat
           /\ recent <= system /\ recent >= system - 2 * MaxLag
<1>1. system \in Nat /\ recent \in Nat /\ recent <= system /\ Updates /\ sample[p] \in Nat
  BY DEF ClockInv, TypeOK
<1> QED
  BY <1>1, ClockAssumption DEF Updates

\* An inspection says of a flow what its age allows, and opens flows that last as long
LEMMA InspectPreserves ==
    ASSUME ClockInv, NEW p \in Proxies, NEW authorised \in BOOLEAN, Inspect(p, authorised)
    PROVE  ClockInv'
<1>1. /\ system \in 0 .. MaxTime /\ recent \in 0 .. MaxTime
      /\ recent <= system /\ recent >= system - 2 * MaxLag
  BY InspectionInstant DEF Inspect, ClockInv, TypeOK
<1>2. Swept(p) \in [state: {"None", "Flow"}, expires_at: 0 .. MaxTime + TIMEOUT]
      /\ (Swept(p) = NoFlow \/ Swept(p) = flow[p])
      /\ (Swept(p) # flow[p] => recent >= flow[p].expires_at)
  BY ClockAssumption DEF ClockInv, TypeOK, Swept, NoFlow
<1>3. TypeOK'
  <2>1. next_sweep' \in [Proxies -> Nat] /\ opened' \in [Proxies -> 0 .. MaxTime]
        /\ seen' \in [Proxies -> [recent: 0 .. MaxTime, system: 0 .. MaxTime]]
        /\ step' \in [Proxies -> {"Idle", "Sampled", "Stored"}]
    BY <1>1, ClockAssumption DEF ClockInv, TypeOK, Inspect
  <2>2. flow' \in [Proxies -> [state: {"None", "Flow"}, expires_at: 0 .. MaxTime + TIMEOUT]]
    BY <1>1, <1>2, ClockAssumption DEF ClockInv, TypeOK, Inspect, Flow
  <2>3. verdict' \in [Proxies -> [said: {"Nothing", "Allowed", "Untracked"}, age: 0 .. MaxTime]]
    <3>1. system - opened[p] \in 0 .. MaxTime
      BY <1>1, ClockAssumption DEF ClockInv, TypeOK, Expiries
    <3> QED
      BY <3>1, ClockAssumption DEF ClockInv, TypeOK, Inspect, NoVerdict
  <2> QED
    BY <2>1, <2>2, <2>3 DEF ClockInv, TypeOK, Inspect
<1>4. recent' <= system' /\ Updates'
  BY DEF ClockInv, TypeOK, Updates, Inspect
<1>5. Expiries'
  <2> SUFFICES ASSUME NEW q \in Proxies
      PROVE  /\ opened'[q] <= system'
             /\ flow'[q] = NoFlow \/ flow'[q].state = "Flow"
             /\ flow'[q].state = "Flow" =>
                  /\ flow'[q].expires_at <= opened'[q] + TIMEOUT
                  /\ flow'[q].expires_at >= opened'[q] + TIMEOUT - 2 * MaxLag
    BY DEF Expiries
  <2>1. CASE q # p
    BY <2>1 DEF ClockInv, TypeOK, Expiries, Inspect
  <2>2. CASE q = p /\ authorised
    BY <1>1, <2>2, ClockAssumption DEF ClockInv, TypeOK, Expiries, Inspect, Flow
  <2>3. CASE q = p /\ ~ authorised
    BY <1>1, <1>2, <2>3 DEF ClockInv, TypeOK, Expiries, Inspect, NoFlow
  <2> QED
    BY <2>1, <2>2, <2>3
<1>6. ClockLagBounded'
  BY <1>1, ClockAssumption DEF ClockInv, TypeOK, ClockLagBounded, Inspect
<1>7. LifetimeKept'
  <2> SUFFICES ASSUME NEW q \in Proxies
      PROVE  /\ verdict'[q].said = "Allowed" => verdict'[q].age < TIMEOUT + 2 * MaxLag
             /\ verdict'[q].said = "Untracked" => verdict'[q].age >= TIMEOUT - 2 * MaxLag
    BY DEF LifetimeKept
  <2>1. CASE q # p
    BY <2>1 DEF ClockInv, TypeOK, LifetimeKept, Inspect
  <2>2. CASE q = p /\ (authorised \/ flow[p] = NoFlow)
    BY <2>2 DEF ClockInv, TypeOK, Inspect, NoVerdict
  <2>3. CASE q = p /\ ~ authorised /\ flow[p] # NoFlow
    <3>1. flow[p].state = "Flow" /\ flow[p].expires_at \in Nat /\ opened[p] \in Nat
      BY <2>3, ClockAssumption DEF ClockInv, TypeOK, Expiries
    <3>2. IsLive(Swept(p)) => system - opened[p] < TIMEOUT + 2 * MaxLag
      BY <1>1, <1>2, <3>1, ClockAssumption DEF ClockInv, Expiries, IsLive, NoFlow
    <3>3. ~ IsLive(Swept(p)) => system - opened[p] >= TIMEOUT - 2 * MaxLag
      BY <1>1, <1>2, <3>1, ClockAssumption DEF ClockInv, Expiries, IsLive
    <3>4. verdict'[p] = [said |-> IF IsLive(Swept(p)) THEN "Allowed" ELSE "Untracked",
                         age  |-> system - opened[p]]
      BY <2>3 DEF ClockInv, TypeOK, Inspect
    <3> QED
      BY <2>3, <3>2, <3>3, <3>4
  <2> QED
    BY <2>1, <2>2, <2>3
<1> QED
  BY <1>3, <1>4, <1>5, <1>6, <1>7 DEF ClockInv

\* Every step of the clock and the proxies preserves the invariant
LEMMA ClockInductive == ClockInv /\ [ClockNext]_clockVars => ClockInv'
<1> SUFFICES ASSUME ClockInv, [ClockNext]_clockVars PROVE ClockInv'
  OBVIOUS
<1>1. CASE Tick
  <2>1. TypeOK'
    BY <1>1, ClockAssumption DEF ClockInv, TypeOK, Tick, tables
  <2>2. recent' <= system' /\ Updates'
    BY <1>1, ClockAssumption DEF ClockInv, TypeOK, Updates, Tick, tables
  <2>3. Expiries'
    BY <1>1, ClockAssumption DEF ClockInv, TypeOK, Expiries, Tick, tables
  <2>4. ClockLagBounded' /\ LifetimeKept'
    BY <1>1 DEF ClockInv, ClockLagBounded, LifetimeKept, Tick, tables
  <2> QED
    BY <2>1, <2>2, <2>3, <2>4 DEF ClockInv
<1>2. ASSUME NEW p \in Proxies, Sample(p) PROVE ClockInv'
  <2>1. TypeOK' /\ recent' <= system' /\ Updates'
    BY <1>2, ClockAssumption DEF ClockInv, TypeOK, Updates, Sample, tables
  <2>2. Expiries' /\ ClockLagBounded' /\ LifetimeKept'
    BY <1>2 DEF ClockInv, Expiries, ClockLagBounded, LifetimeKept, Sample, tables
  <2> QED
    BY <2>1, <2>2 DEF ClockInv
<1>3. ASSUME NEW p \in Proxies, Store(p) PROVE ClockInv'
  <2>1. TypeOK' /\ recent' <= system'
    BY <1>3 DEF ClockInv, TypeOK, Updates, Store, tables
  <2>2. Updates'
    BY <1>3, ClockAssumption DEF ClockInv, TypeOK, Updates, Store
  <2>3. Expiries' /\ ClockLagBounded' /\ LifetimeKept'
    BY <1>3 DEF ClockInv, Expiries, ClockLagBounded, LifetimeKept, Store, tables
  <2> QED
    BY <2>1, <2>2, <2>3 DEF ClockInv
<1>4. ASSUME NEW p \in Proxies, NEW authorised \in BOOLEAN, Inspect(p, authorised) PROVE ClockInv'
  BY <1>4, InspectPreserves
<1>5. CASE UNCHANGED clockVars
  BY <1>5 DEF ClockInv, TypeOK, Updates, Expiries, ClockLagBounded, LifetimeKept, clockVars, tables
<1> QED
  BY <1>1, <1>2, <1>3, <1>4, <1>5 DEF ClockNext

\* The invariant holds from the start
LEMMA ClockInvariance == ClockSpec => []ClockInv
<1>1. ClockInit => ClockInv
  BY ClockAssumption DEF ClockInit, ClockInv, TypeOK, Updates, Expiries, ClockLagBounded, LifetimeKept,
     NoFlow, NoVerdict
<1> QED
  BY <1>1, ClockInductive, PTL DEF ClockSpec

(***************************************************************************)
(* The recent instant that inspect reads is never in the future and at     *)
(* most 2 * MaxLag old, however the updates of the proxies interleave.     *)
(***************************************************************************)
THEOREM LagIsBounded == ClockSpec => []ClockLagBounded
BY ClockInvariance, PTL DEF ClockInv

(***************************************************************************)
(* A flow outlives its timeout by less than 2 * MaxLag and is not cut      *)
(* short by more (match_existing_flow, sweep_if_due).                      *)
(***************************************************************************)
THEOREM LifetimeIsKept == ClockSpec => []LifetimeKept
BY ClockInvariance, PTL DEF ClockInv

-----------------------------------------------------------------------------
(***************************************************************************)
(* The callback handshake, for batches of every size and any number of     *)
(* packets.  The inductive invariant adds to the two properties that the   *)
(* sender exists while the interface is open, and that an acknowledgment   *)
(* left over when it closes still belongs to a parked callback.            *)
(***************************************************************************)

HostInv ==
    /\ pending \in Nat /\ permit \in {0, 1} /\ acks \in {0, 1}
    /\ draining \in {"No", "Yes"} /\ callback \in {"Idle", "Parked"}
    /\ OneTokenPerCallback
    /\ stage = "Open" => sender
    /\ acks > 0 => callback = "Parked" /\ drained = "Yes"

\* Every step of vmnet, the reader and finalize preserves the invariant
LEMMA HostInductive == HostInv /\ [HostNext]_hostVars => HostInv'
<1> SUFFICES ASSUME HostInv, [HostNext]_hostVars PROVE HostInv'
  OBVIOUS
<1> USE DEF HostInv, OneTokenPerCallback, handshake, interface, closing
<1>1. CASE Arrive
  BY <1>1 DEF Arrive
<1>2. CASE CallbackBegins
  BY <1>2 DEF CallbackBegins
<1>3. CASE CallbackReturns
  BY <1>3 DEF CallbackReturns
<1>4. CASE Read
  <2>1. CASE pending > 0 /\ ReadBatch
    BY <1>4, <2>1, HostAssumption DEF Read, ReadBatch, BatchSize
  <2>2. CASE ReadNothing
    BY <1>4, <2>2 DEF Read, ReadNothing
  <2> QED
    BY <1>4, <2>1, <2>2 DEF Read
<1>5. CASE Finalize
  BY <1>5 DEF Finalize
<1>6. CASE ClearCallback
  BY <1>6 DEF ClearCallback
<1>7. CASE ReleaseCallback
  BY <1>7 DEF ReleaseCallback
<1>8. CASE StopInterface
  BY <1>8 DEF StopInterface
<1>9. CASE UNCHANGED hostVars
  BY <1>9 DEF hostVars
<1> QED
  BY <1>1, <1>2, <1>3, <1>4, <1>5, <1>6, <1>7, <1>8, <1>9 DEF HostNext, Done

\* The invariant holds from Host::new on
LEMMA HostInvariance == HostSpec => []HostInv
<1>1. HostInit => HostInv
  BY DEF HostInit, HostInv, OneTokenPerCallback
<1> QED
  BY <1>1, HostInductive, PTL DEF HostSpec

(***************************************************************************)
(* A parked callback is owed exactly one token and an idle one none, so no *)
(* acknowledgment is ever stale or lost (Host::new, Host::read).           *)
(***************************************************************************)
THEOREM Handshake == HostSpec => []OneTokenPerCallback
BY HostInvariance, PTL DEF HostInv

(***************************************************************************)
(* A callback is released only after an empty read that followed its       *)
(* beginning (Host::read).                                                 *)
(***************************************************************************)
THEOREM DrainedBeforeRelease == HostSpec => []ReleasedWhenDrained
<1>1. HostInv => ReleasedWhenDrained
  BY DEF HostInv, ReleasedWhenDrained
<1> QED
  BY <1>1, HostInvariance, PTL

-----------------------------------------------------------------------------
(***************************************************************************)
(* The event loop, for turns and queues of every length.  The inductive    *)
(* invariant adds that a socket reports a reset only once its peer has     *)
(* closed: this is what makes is_disconnect recognise whichever read or    *)
(* write meets it.                                                         *)
(***************************************************************************)

LoopInv ==
    /\ faults \in Nat
    /\ reset = "Yes" => ~ is_connected
    /\ DisconnectIsClean

\* Whatever the VM's socket reports, its peer has gone and run returns Ok
LEMMA VmErrorIsClean ==
    ASSUME NEW error \in {"ConnectionReset", "EDESTADDRREQ"},
           ~ is_connected, VmError(error)
    PROVE  returned' = "Ok"
BY DEF VmError, Return, is_disconnect

\* A read from the VM, the first of a turn or a later one
LEMMA ReadFramePreserves ==
    ASSUME LoopInv, NEW remaining, ReadFrame(remaining)
    PROVE  LoopInv'
<1>1. CASE ProcessFromVm /\ Continue("Burst", remaining)
  BY <1>1 DEF LoopInv, ProcessFromVm, Continue, DisconnectIsClean, is_connected
<1>2. CASE /\ RecvResult = "ConnectionReset" /\ reset' = "No"
           /\ VmError("ConnectionReset")
           /\ UNCHANGED <<queue, peer, arrived, command, due, faults>>
  <2>1. ~ is_connected
    BY <1>2 DEF LoopInv, RecvResult
  <2>2. returned' = "Ok"
    BY <1>2, <2>1, VmErrorIsClean
  <2> QED
    BY <1>2, <2>2 DEF LoopInv, DisconnectIsClean, is_connected
<1> QED
  BY <1>1, <1>2 DEF ReadFrame

\* A write to the VM: a failure to send means that the peer has gone
LEMMA BatchWritePreserves ==
    ASSUME LoopInv, BatchWrite
    PROVE  LoopInv'
<1>1. reset' = "No" /\ UNCHANGED <<peer, faults>>
  BY DEF BatchWrite
<1>2. CASE SendResult = "Ok"
  <2>1. UNCHANGED returned
    BY <1>2 DEF BatchWrite, Continue
  <2> QED
    BY <1>1, <2>1 DEF LoopInv, DisconnectIsClean, is_connected
<1>3. CASE SendResult # "Ok"
  <2>1. SendResult \in {"ConnectionReset", "EDESTADDRREQ"} /\ ~ is_connected
    BY <1>3 DEF LoopInv, SendResult
  <2>2. returned' = "Ok"
    BY <1>3, <2>1, VmErrorIsClean DEF BatchWrite
  <2> QED
    BY <1>1, <2>2 DEF LoopInv, DisconnectIsClean, is_connected
<1> QED
  BY <1>2, <1>3

\* Every step of the loop and of the world around it preserves the invariant
LEMMA LoopInductive == LoopInv /\ [LoopNext]_loopVars => LoopInv'
<1> SUFFICES ASSUME LoopInv, [LoopNext]_loopVars PROVE LoopInv'
  OBVIOUS
<1>1. CASE ReadVm \/ BurstRead
  BY <1>1, ReadFramePreserves DEF ReadVm, BurstRead
<1>2. CASE BatchWrite
  BY <1>2, BatchWritePreserves
<1>3. CASE BurstEnds \/ ReadHost \/ BatchDrop \/ BatchEnds
  BY <1>3 DEF BurstEnds, ReadHost, BatchDrop, BatchEnds, Continue, socket, LoopInv, DisconnectIsClean,
     is_connected
<1>4. CASE ServeCommand \/ Maintain
  BY <1>4 DEF ServeCommand, Maintain, Return, Continue, socket, LoopInv, DisconnectIsClean, is_connected
<1>5. CASE Fails
  BY <1>5 DEF Fails, socket, LoopInv, DisconnectIsClean, is_connected
<1>6. CASE World
  <2>1. UNCHANGED <<returned, faults>>
    BY <1>6 DEF World
  <2>2. CASE VmCloses
    BY <2>1, <2>2 DEF VmCloses, LoopInv, DisconnectIsClean, is_connected
  <2>3. CASE VmSends \/ HostSends \/ TimerTicks \/ ManagerSends
    BY <2>1, <2>3 DEF VmSends, HostSends, TimerTicks, ManagerSends, socket, LoopInv, DisconnectIsClean,
       is_connected
  <2> QED
    BY <1>6, <2>2, <2>3 DEF World
<1>7. CASE Returned \/ UNCHANGED loopVars
  BY <1>7 DEF Returned, loopVars, socket, LoopInv, DisconnectIsClean, is_connected
<1> QED
  BY <1>1, <1>2, <1>3, <1>4, <1>5, <1>6, <1>7 DEF LoopNext, Turn

(***************************************************************************)
(* Whichever read or write meets the closed socket first, and whether or   *)
(* not an earlier one consumed the reset, a VM that goes away does not     *)
(* make Proxy::run fail.                                                   *)
(***************************************************************************)
THEOREM DisconnectsAreClean == LoopSpec => []DisconnectIsClean
<1>1. LoopInit => LoopInv
  BY DEF LoopInit, LoopInv, DisconnectIsClean, is_connected
<1>2. LoopInv => DisconnectIsClean
  BY DEF LoopInv
<1> QED
  BY <1>1, <1>2, LoopInductive, PTL DEF LoopSpec

-----------------------------------------------------------------------------
(***************************************************************************)
(* Startup, for any number of processes and users.  The inductive          *)
(* invariant remembers what sudo does to the arguments: the hidden option  *)
(* that a process was started by sudo comes together with the caller's     *)
(* name, and without it the process is still the one that was called.      *)
(***************************************************************************)

\* The first count of escalations (ExecSudo)
LEMMA OneAfterNone == ASSUME NEW m, NEW n, m = 0, n = m + 1 PROVE n <= 1
OBVIOUS

InBootpd == {"Commit", "Apply", "Unlock"}
AsRoot == InBootpd \cup {"Lock", "Manager", "Started"}

\* The arguments that the process was started with
Original(p) == IF explicit[p] = "none" THEN <<>> ELSE <<explicit[p]>>

Types ==
    /\ caller \in [Process -> Users] /\ explicit \in [Process -> Users \cup {"none"}]
    /\ args \in [Process -> [users: Seq(Users), done: BOOLEAN, lease: Leases]]
    /\ real \in [Process -> Users] /\ effective \in [Process -> Users]
    /\ phase \in [Process -> AsRoot \cup {"Parse", "CheckRoot", "Probe", "Exec", "Usage", "Failed"}]
    /\ execs \in [Process -> Nat]
    /\ user \in [Process -> Users \cup {"none"}]
    /\ outcome \in [Process -> {"Ok", "Err"}]
    /\ lock \in Process \cup {Nobody}

Escalation(p) ==
    /\ execs[p] <= 1
    /\ ~ args[p].done => execs[p] = 0 /\ real[p] = caller[p] /\ args[p].users = Original(p)
    /\ args[p].done => args[p].users = Append(Original(p), caller[p])
    /\ phase[p] = "Exec" => ~ args[p].done

Privileges(p) ==
    /\ phase[p] \in AsRoot \cup {"CheckRoot", "Probe", "Exec"} => Parses(args[p])
    /\ phase[p] \in AsRoot => effective[p] = "root"
    /\ phase[p] = "Started" =>
          user[p] = IF args[p].users = <<>> THEN real[p] ELSE args[p].users[1]

Preferences(p) ==
    /\ phase[p] \in InBootpd <=> lock = p
    /\ phase[p] = "Apply" => preferences = AsSigned(args[p].lease)

StartupInv == Types /\ \A p \in Process : Escalation(p) /\ Privileges(p) /\ Preferences(p)

\* A step that leaves a process's own variables alone preserves what is said of it
LEMMA OthersUndisturbed ==
    ASSUME NEW q \in Process, Escalation(q), Privileges(q),
           caller'[q] = caller[q], explicit'[q] = explicit[q], args'[q] = args[q],
           real'[q] = real[q], effective'[q] = effective[q], phase'[q] = phase[q],
           execs'[q] = execs[q], user'[q] = user[q]
    PROVE  Escalation(q)' /\ Privileges(q)'
BY DEF Escalation, Privileges, Original, Parses

\* Parsing, and the way to root up to the call of sudo
LEMMA BeforeExec ==
    ASSUME StartupInv, NEW p \in Process, ParseArgs(p) \/ CheckRoot(p) \/ ProbeSudo(p)
    PROVE  StartupInv'
<1>1. UNCHANGED <<identity, image, user, outcome, shared>>
      /\ \E v \in {"CheckRoot", "Usage", "Lock", "Probe", "Exec", "Failed"} :
            /\ phase' = [phase EXCEPT ![p] = v]
            /\ v \in {"CheckRoot", "Probe", "Exec", "Lock"} => Parses(args[p])
            /\ v = "Lock" => effective[p] = "root"
            /\ v = "Exec" => ~ args[p].done
            /\ phase[p] \notin InBootpd
  <2>1. CASE ParseArgs(p)
    BY <2>1 DEF ParseArgs, Set, InBootpd
  <2>2. CASE CheckRoot(p)
    BY <2>2 DEF StartupInv, Privileges, CheckRoot, Set, InBootpd
  <2>3. CASE ProbeSudo(p)
    BY <2>3 DEF ProbeSudo, Set, InBootpd
  <2> QED
    BY <2>1, <2>2, <2>3
<1> PICK v \in {"CheckRoot", "Usage", "Lock", "Probe", "Exec", "Failed"} :
        /\ phase' = [phase EXCEPT ![p] = v]
        /\ v \in {"CheckRoot", "Probe", "Exec", "Lock"} => Parses(args[p])
        /\ v = "Lock" => effective[p] = "root"
        /\ v = "Exec" => ~ args[p].done
        /\ phase[p] \notin InBootpd
  BY <1>1
<1>2. Types'
  BY <1>1 DEF StartupInv, Types, AsRoot, identity, image, shared
<1>3. ASSUME NEW q \in Process PROVE Escalation(q)' /\ Privileges(q)' /\ Preferences(q)'
  <2>1. CASE q # p
    BY <1>1, <2>1, OthersUndisturbed DEF StartupInv, Types, Preferences, identity, image, shared
  <2>2. CASE q = p
    <3>1. /\ phase'[p] = v
          /\ UNCHANGED <<caller, explicit, args, real, effective, execs, lock, preferences>>
      BY <1>1 DEF StartupInv, Types, identity, image, shared
    <3>2. Escalation(p) /\ Privileges(p) /\ Preferences(p)
      BY DEF StartupInv
    <3>3. Escalation(p)'
      BY <3>1, <3>2 DEF Escalation, Original, Parses
    <3>4. Privileges(p)' /\ Preferences(p)'
      BY <3>1, <3>2 DEF Privileges, Preferences, Parses, AsRoot, InBootpd
    <3> QED
      BY <2>2, <3>3, <3>4
  <2> QED
    BY <2>1, <2>2
<1> QED
  BY <1>2, <1>3 DEF StartupInv

\* sudo starts the process again with the caller's name, or the process ends
LEMMA ExecPreserves ==
    ASSUME StartupInv, NEW p \in Process, ExecSudo(p)
    PROVE  StartupInv'
<1>1. CASE phase' = [phase EXCEPT ![p] = "Failed"] /\ UNCHANGED image
  <2>1. Types'
    BY <1>1 DEF StartupInv, Types, AsRoot, ExecSudo, identity, image, shared
  <2>2. ASSUME NEW q \in Process PROVE Escalation(q)' /\ Privileges(q)' /\ Preferences(q)'
    <3>1. CASE q # p
      BY <1>1, <3>1, OthersUndisturbed
         DEF StartupInv, Types, Preferences, ExecSudo, identity, image, shared
    <3>2. CASE q = p
      BY <1>1, <3>2 DEF StartupInv, Types, Escalation, Privileges, Preferences, Original, Parses,
         AsRoot, InBootpd, ExecSudo, identity, image, shared
    <3> QED
      BY <3>1, <3>2
  <2> QED
    BY <2>1, <2>2 DEF StartupInv
<1>2. ASSUME NEW name \in Users,
             real' = [real EXCEPT ![p] = name], effective' = [effective EXCEPT ![p] = name],
             args' = [args EXCEPT ![p] = EscalatedArgs(p)],
             execs' = [execs EXCEPT ![p] = execs[p] + 1],
             phase' = [phase EXCEPT ![p] = "Parse"]
      PROVE  StartupInv'
  <2>1. UNCHANGED <<identity, user, outcome, shared>> /\ phase[p] = "Exec"
    BY DEF ExecSudo
  <2>2. /\ args[p] \in [users: Seq(Users), done: BOOLEAN, lease: Leases]
        /\ ~ args[p].done /\ execs[p] = 0 /\ real[p] = caller[p] /\ args[p].users = Original(p)
    BY <2>1 DEF StartupInv, Types, Escalation
  <2>3. /\ EscalatedArgs(p) \in [users: Seq(Users), done: BOOLEAN, lease: Leases]
        /\ EscalatedArgs(p).done
        /\ EscalatedArgs(p).users = Append(Original(p), caller[p])
    <3>1. real[p] \in Users
      BY DEF StartupInv, Types
    <3>2. Append(args[p].users, real[p]) \in Seq(Users)
      BY <2>2, <3>1
    <3> QED
      BY <2>2, <3>2 DEF EscalatedArgs
  <2>4. Types'
    <3>1. Types
      BY DEF StartupInv
    <3>2. args' \in [Process -> [users: Seq(Users), done: BOOLEAN, lease: Leases]]
      BY <1>2, <2>3, <3>1 DEF Types
    <3>3. real' \in [Process -> Users] /\ effective' \in [Process -> Users] /\ execs' \in [Process -> Nat]
      BY <1>2, <3>1 DEF Types
    <3>4. phase' \in [Process -> AsRoot \cup {"Parse", "CheckRoot", "Probe", "Exec", "Usage", "Failed"}]
      BY <1>2, <3>1 DEF Types
    <3> QED
      BY <2>1, <3>1, <3>2, <3>3, <3>4 DEF Types, identity, shared
  <2>5. ASSUME NEW q \in Process PROVE Escalation(q)' /\ Privileges(q)' /\ Preferences(q)'
    <3>1. CASE q # p
      BY <1>2, <2>1, <3>1, OthersUndisturbed DEF StartupInv, Types, Preferences, identity, shared
    <3>2. CASE q = p
      <4>1. args'[p] = EscalatedArgs(p) /\ execs'[p] = execs[p] + 1 /\ phase'[p] = "Parse"
        BY <1>2 DEF StartupInv, Types
      <4>2. Original(p)' = Original(p) /\ caller' = caller
        BY <2>1, Zenon DEF Original, identity
      <4>3. execs'[p] <= 1
        <5>1. execs[p] = 0 /\ execs'[p] = execs[p] + 1
          BY <2>2, <4>1, Zenon
        <5> QED
          BY <5>1, OneAfterNone, Zenon
      <4>4. Escalation(p)'
        <5>1. args'[p].done /\ args'[p].users = Append(Original(p)', caller'[p])
          BY <2>3, <4>1, <4>2, Zenon
        <5>2. phase'[p] # "Exec"
          BY <4>1
        <5> QED
          BY <4>3, <5>1, <5>2, Zenon DEF Escalation
      <4>5. Preferences(p)
        BY DEF StartupInv
      <4>6. Privileges(p)' /\ Preferences(p)'
        BY <2>1, <4>1, <4>5 DEF Privileges, Preferences, AsRoot, InBootpd, shared
      <4> QED
        BY <3>2, <4>4, <4>6
    <3> QED
      BY <3>1, <3>2
  <2> QED
    BY <2>4, <2>5 DEF StartupInv
<1> QED
  BY <1>1, <1>2 DEF ExecSudo, Set

\* configure_bootpd, and the end of a process in it or anywhere
LEMMA BootpdPreserves ==
    ASSUME StartupInv, NEW p \in Process,
           \/ LockPreferences(p) \/ CommitPreferences(p) \/ ApplyPreferences(p)
           \/ UnlockPreferences(p) \/ LockFails(p) \/ Kill(p)
    PROVE  StartupInv'
<1> USE DEF LockPreferences, CommitPreferences, ApplyPreferences, UnlockPreferences, LockFails,
        Kill, Set, Final
<1>1. UNCHANGED <<identity, image, user>> /\ phase[p] # "Started"
      /\ \E v \in InBootpd \cup {"Manager", "Failed"} :
            phase' = [phase EXCEPT ![p] = v] /\ (v # "Failed" => phase[p] \in AsRoot)
  BY DEF InBootpd, AsRoot, identity, image, shared
<1>2. Types'
  <2>1. /\ lock' \in {lock, p, Nobody}
        /\ outcome' \in {outcome, [outcome EXCEPT ![p] = "Ok"], [outcome EXCEPT ![p] = "Err"]}
    BY DEF shared
  <2> HIDE DEF LockPreferences, CommitPreferences, ApplyPreferences, UnlockPreferences,
           LockFails, Kill, Set, Final
  <2>2. outcome' \in [Process -> {"Ok", "Err"}] /\ lock' \in Process \cup {Nobody}
    BY <2>1 DEF StartupInv, Types
  <2>3. phase' \in [Process -> AsRoot \cup {"Parse", "CheckRoot", "Probe", "Exec", "Usage", "Failed"}]
    BY <1>1 DEF StartupInv, Types, AsRoot, InBootpd
  <2> QED
    BY <1>1, <2>2, <2>3 DEF StartupInv, Types, identity, image
<1>3. ASSUME NEW q \in Process PROVE Escalation(q)' /\ Privileges(q)'
  <2>1. CASE q # p
    BY <1>1, <2>1, OthersUndisturbed DEF StartupInv, Types, identity, image
  <2>2. CASE q = p
    <3> HIDE DEF LockPreferences, CommitPreferences, ApplyPreferences, UnlockPreferences,
             LockFails, Kill, Set, Final
    <3>1. PICK v \in InBootpd \cup {"Manager", "Failed"} :
             phase' = [phase EXCEPT ![p] = v] /\ (v # "Failed" => phase[p] \in AsRoot)
      BY <1>1
    <3>2. phase'[p] = v /\ UNCHANGED <<caller, explicit, args, real, effective, execs>>
      BY <1>1, <3>1 DEF StartupInv, Types, identity, image
    <3>3. Escalation(p)'
      BY <3>2 DEF StartupInv, Escalation, Original, InBootpd
    <3>4. Privileges(p)'
      BY <3>1, <3>2 DEF StartupInv, Privileges, Parses, AsRoot, InBootpd
    <3> QED
      BY <2>2, <3>3, <3>4
  <2> QED
    BY <2>1, <2>2
<1>4. ASSUME NEW q \in Process PROVE Preferences(q)'
  <2>1. p # Nobody /\ q # Nobody
    BY StartupAssumption
  <2>2. phase[q] \in InBootpd <=> lock = q
    BY DEF StartupInv, Preferences
  <2>3. phase[p] \in InBootpd <=> lock = p
    BY DEF StartupInv, Preferences
  <2>4. phase[q] = "Apply" => preferences = AsSigned(args[q].lease)
    BY DEF StartupInv, Preferences
  <2>5. args' = args /\ phase = [x \in Process |-> phase[x]]
    BY <1>1 DEF StartupInv, Types, image
  <2>6. CASE q # p
    <3>1. /\ \/ lock' = lock
             \/ lock = p /\ lock' = Nobody
             \/ lock = Nobody /\ lock' = p
          /\ preferences' = preferences \/ lock = p
      BY <2>3 DEF InBootpd, shared
    <3>2. phase'[q] = phase[q] /\ args'[q] = args[q]
      BY ONLY <1>1, <2>5, <2>6, q \in Process, p \in Process
    <3> QED
      BY ONLY <2>1, <2>2, <2>4, <2>6, <3>1, <3>2 DEF Preferences, InBootpd
  <2>7. CASE q = p
    BY <2>1, <2>3, <2>4, <2>5, <2>7 DEF Preferences, InBootpd, shared
  <2> QED
    BY <2>6, <2>7
<1> QED
  BY <1>2, <1>3, <1>4 DEF StartupInv

\* The manager gets the first --user, or the real user
LEMMA CreateManagerPreserves ==
    ASSUME StartupInv, NEW p \in Process, CreateManager(p)
    PROVE  StartupInv'
<1>1. UNCHANGED <<identity, image, outcome, shared>> /\ phase[p] = "Manager"
  BY DEF CreateManager
<1>2. CASE phase' = [phase EXCEPT ![p] = "Failed"] /\ UNCHANGED user
  <2>1. Types'
    BY <1>1, <1>2 DEF StartupInv, Types, AsRoot, identity, image, shared
  <2>2. ASSUME NEW q \in Process PROVE Escalation(q)' /\ Privileges(q)' /\ Preferences(q)'
    <3>1. CASE q # p
      BY <1>1, <1>2, <3>1, OthersUndisturbed
         DEF StartupInv, Types, Preferences, identity, image, shared
    <3>2. CASE q = p
      BY <1>1, <1>2, <3>2 DEF StartupInv, Types, Escalation, Privileges, Preferences, Original, Parses,
         AsRoot, InBootpd, identity, image, shared
    <3> QED
      BY <3>1, <3>2
  <2> QED
    BY <2>1, <2>2 DEF StartupInv
<1>3. CASE /\ user' = [user EXCEPT ![p] = IF args[p].users = <<>> THEN real[p]
                                              ELSE args[p].users[1]]
           /\ phase' = [phase EXCEPT ![p] = "Started"]
  <2>1. (IF args[p].users = <<>> THEN real[p] ELSE args[p].users[1]) \in Users
    BY DEF StartupInv, Types
  <2>2. Types'
    BY <1>1, <1>3, <2>1 DEF StartupInv, Types, AsRoot, identity, image, shared
  <2>3. ASSUME NEW q \in Process PROVE Escalation(q)' /\ Privileges(q)' /\ Preferences(q)'
    <3>1. CASE q # p
      BY <1>1, <1>3, <3>1, OthersUndisturbed
         DEF StartupInv, Types, Preferences, identity, image, shared
    <3>2. CASE q = p
      BY <1>1, <1>3, <3>2 DEF StartupInv, Types, Escalation, Privileges, Preferences, Original, Parses,
         AsRoot, InBootpd, identity, image, shared
    <3> QED
      BY <3>1, <3>2
  <2> QED
    BY <2>2, <2>3 DEF StartupInv
<1> QED
  BY <1>2, <1>3 DEF CreateManager, Set

\* Every step of every process preserves the invariant
LEMMA StartupInductive == StartupInv /\ [StartupNext]_startupVars => StartupInv'
<1> SUFFICES ASSUME StartupInv, [StartupNext]_startupVars PROVE StartupInv'
  OBVIOUS
<1>1. ASSUME NEW p \in Process, Step(p) \/ LockFails(p) \/ Kill(p) PROVE StartupInv'
  BY <1>1, BeforeExec, ExecPreserves, BootpdPreserves, CreateManagerPreserves DEF Step
<1>2. CASE UNCHANGED startupVars
  BY <1>2 DEF StartupInv, Types, Escalation, Privileges, Preferences, Original, Parses,
     startupVars, identity, image, shared
<1> QED
  BY <1>1, <1>2 DEF StartupNext, Settled

\* The invariant holds from the first image of every process on
LEMMA StartupInvariance == StartupSpec => []StartupInv
<1>1. StartupInit => StartupInv
  <2> SUFFICES ASSUME StartupInit PROVE StartupInv
    OBVIOUS
  <2>1. PICK times \in [Process -> Leases] :
          args = [p \in Process |-> [users |-> Original(p), done |-> FALSE, lease |-> times[p]]]
    BY DEF StartupInit, Original
  <2>2. ASSUME NEW p \in Process PROVE Original(p) \in Seq(Users)
    <3>1. CASE explicit[p] = "none"
      BY <3>1 DEF Original
    <3>2. CASE explicit[p] # "none"
      <4>1. explicit[p] \in Users
        BY <3>2 DEF StartupInit
      <4> QED
        BY <3>2, <4>1 DEF Original
    <3> QED
      BY <3>1, <3>2
  <2>3. effective \in [Process -> Users]
    BY StartupAssumption DEF StartupInit
  <2>4. Types
    BY <2>1, <2>2, <2>3 DEF StartupInit, Types, AsRoot
  <2>5. ASSUME NEW p \in Process PROVE Escalation(p) /\ Privileges(p) /\ Preferences(p)
    <3>1. /\ args[p].users = Original(p) /\ args[p].done = FALSE
          /\ phase[p] = "Parse" /\ execs[p] = 0 /\ real[p] = caller[p] /\ lock = Nobody
      BY <2>1 DEF StartupInit
    <3>2. Escalation(p)
      <4>1. execs[p] <= 1
        <5>1. execs[p] = 0
          BY <3>1, Zenon
        <5> QED
          BY ONLY <5>1
      <4> QED
        BY <3>1, <4>1, Zenon DEF Escalation
    <3>3. Privileges(p)
      BY <3>1 DEF Privileges, AsRoot, InBootpd
    <3>4. Preferences(p)
      BY <3>1, StartupAssumption DEF Preferences, InBootpd
    <3> QED
      BY <3>2, <3>3, <3>4
  <2> QED
    BY <2>4, <2>5 DEF StartupInv
<1> QED
  BY <1>1, StartupInductive, PTL DEF StartupSpec

(***************************************************************************)
(* No process calls sudo twice (the sudo_escalation_done option).          *)
(***************************************************************************)
THEOREM SudoOnce == StartupSpec => []EscalatesOnce
<1>1. StartupInv => EscalatesOnce
  BY DEF StartupInv, Escalation, EscalatesOnce
<1> QED
  BY <1>1, StartupInvariance, PTL

(***************************************************************************)
(* The manager starts as root and will become the user whom the command    *)
(* line names, or the caller (try_main).                                   *)
(***************************************************************************)
THEOREM PrivilegesReturn == StartupSpec => []DropsToCaller
<1>1. StartupInv => DropsToCaller
  <2> SUFFICES ASSUME StartupInv, NEW p \in Process, phase[p] = "Started"
               PROVE  /\ effective[p] = "root"
                      /\ user[p] = IF explicit[p] = "none" THEN caller[p] ELSE explicit[p]
    BY DEF DropsToCaller
  <2>1. /\ effective[p] = "root" /\ Len(args[p].users) <= 1
        /\ user[p] = IF args[p].users = <<>> THEN real[p] ELSE args[p].users[1]
    BY DEF StartupInv, Privileges, AsRoot, Parses
  <2>2. CASE ~ args[p].done
    <3>1. args[p].users = Original(p) /\ real[p] = caller[p]
      BY <2>2 DEF StartupInv, Escalation
    <3>2. CASE explicit[p] = "none"
      BY <2>1, <3>1, <3>2 DEF Original
    <3>3. CASE explicit[p] # "none"
      <4>1. args[p].users = <<explicit[p]>>
        BY <3>1, <3>3 DEF Original
      <4>2. args[p].users # <<>> /\ args[p].users[1] = explicit[p]
        BY <4>1
      <4> QED
        BY <2>1, <3>3, <4>2
    <3> QED
      BY <3>2, <3>3
  <2>3. CASE args[p].done
    <3>1. args[p].users = Append(Original(p), caller[p]) /\ caller[p] \in Users
      BY <2>3 DEF StartupInv, Types, Escalation
    <3>2. explicit[p] = "none"
      BY <2>1, <3>1 DEF StartupInv, Types, Original
    <3> QED
      BY <2>1, <3>1, <3>2 DEF Original
  <2> QED
    BY <2>2, <2>3
<1> QED
  BY <1>1, StartupInvariance, PTL

(***************************************************************************)
(* Nobody else's preferences are applied, and a process that is past them  *)
(* has no lock (configure_bootpd).                                         *)
(***************************************************************************)
THEOREM LockIsExclusive == StartupSpec => []PreferencesExclusive
<1>1. StartupInv => PreferencesExclusive
  BY DEF StartupInv, Preferences, PreferencesExclusive, InBootpd
<1> QED
  BY <1>1, StartupInvariance, PTL
=============================================================================
