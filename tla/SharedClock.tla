---------------------------- MODULE SharedClock ----------------------------
(***************************************************************************)
(* The clock of the flow tables, lib/proxy/mod.rs and lib/proxy/flows.     *)
(* coarsetime keeps one recent instant for the process: every proxy        *)
(* updates it when it has read a frame, and reads it back when it inspects *)
(* the frame.  An update is a reading of the system's clock and a store,   *)
(* so that two proxies on two threads can store in the wrong order and the *)
(* recent instant can step back.  Each proxy has a table of one flow.      *)
(***************************************************************************)
EXTENDS Integers

CONSTANTS
    Proxies,
    TIMEOUT, SWEEP_INTERVAL,
    MaxLag,          \* how long a proxy takes at most from an update to the inspection
    MaxTime          \* bound on time

ASSUME ClockAssumption ==
    /\ TIMEOUT \in Nat \ {0} /\ SWEEP_INTERVAL \in Nat \ {0}
    /\ MaxLag \in Nat /\ MaxTime \in Nat

VARIABLES
    system,          \* the system's clock
    recent,          \* coarsetime's recent instant
    step, sample,    \* each proxy: "Idle", "Sampled" or "Stored", and what it read
    flow,            \* its flow, or NoFlow
    opened,          \* when the flow was last authorised, by the system's clock
    next_sweep,
    seen,            \* the last inspection: recent instant and the system's clock
    verdict          \* what it said of return traffic, and the age of the flow

tables == <<flow, opened, next_sweep, seen, verdict>>
clockVars == <<system, recent, step, sample, tables>>

NoFlow == [state |-> "None", expires_at |-> 0]
Flow(expires_at) == [state |-> "Flow", expires_at |-> expires_at]
NoVerdict == [said |-> "Nothing", age |-> 0]

ClockInit ==
    /\ system = 0 /\ recent = 0
    /\ step = [p \in Proxies |-> "Idle"] /\ sample = [p \in Proxies |-> 0]
    /\ flow = [p \in Proxies |-> NoFlow] /\ opened = [p \in Proxies |-> 0]
    /\ next_sweep = [p \in Proxies |-> SWEEP_INTERVAL]
    /\ seen = [p \in Proxies |-> [recent |-> 0, system |-> 0]]
    /\ verdict = [p \in Proxies |-> NoVerdict]

\* Time passes, but no proxy is held up for longer than MaxLag
Tick ==
    /\ system < MaxTime
    /\ \A p \in Proxies : step[p] # "Idle" => system < sample[p] + MaxLag
    /\ system' = system + 1
    /\ UNCHANGED <<recent, step, sample, tables>>

\* Instant::update reads the clock ...
Sample(p) ==
    /\ step[p] = "Idle"
    /\ step' = [step EXCEPT ![p] = "Sampled"]
    /\ sample' = [sample EXCEPT ![p] = system]
    /\ UNCHANGED <<system, recent, tables>>

\* ... and stores what it has read
Store(p) ==
    /\ step[p] = "Sampled"
    /\ recent' = sample[p]
    /\ step' = [step EXCEPT ![p] = "Stored"]
    /\ UNCHANGED <<system, sample, tables>>

\* sweep_if_due
Swept(p) ==
    IF recent >= next_sweep[p] /\ recent >= flow[p].expires_at THEN NoFlow ELSE flow[p]

\* Mutant: an entry counts until it is swept
Mut_IsLive(f) == f.state = "Flow"

\* match_existing_flow
IsLive(f) == f.state = "Flow" /\ recent < f.expires_at

\* inspect of a frame, and commit: one that the policy authorises, in the direction
\* that opens or refreshes the flow, or return traffic.  One update serves a whole
\* batch of frames from the host.
Inspect(p, authorised) ==
    /\ step[p] = "Stored"
    /\ \E place \in {"Idle", "Stored"} : step' = [step EXCEPT ![p] = place]
    /\ next_sweep' = [next_sweep EXCEPT ![p] =
                        IF recent >= next_sweep[p] THEN recent + SWEEP_INTERVAL ELSE @]
    /\ flow' = [flow EXCEPT ![p] = IF authorised THEN Flow(recent + TIMEOUT) ELSE Swept(p)]
    /\ opened' = [opened EXCEPT ![p] = IF authorised THEN system ELSE @]
    /\ seen' = [seen EXCEPT ![p] = [recent |-> recent, system |-> system]]
    /\ verdict' = [verdict EXCEPT ![p] =
                     IF authorised \/ flow[p] = NoFlow THEN NoVerdict
                     ELSE [said |-> IF IsLive(Swept(p)) THEN "Allowed" ELSE "Untracked",
                           age  |-> system - opened[p]]]
    /\ UNCHANGED <<system, recent, sample>>

ClockNext ==
    \/ Tick
    \/ \E p \in Proxies : Sample(p) \/ Store(p) \/ \E authorised \in BOOLEAN : Inspect(p, authorised)

ClockSpec == ClockInit /\ [][ClockNext]_clockVars

-----------------------------------------------------------------------------
TypeOK ==
    /\ system \in 0 .. MaxTime /\ recent \in 0 .. MaxTime
    /\ step \in [Proxies -> {"Idle", "Sampled", "Stored"}] /\ sample \in [Proxies -> 0 .. MaxTime]
    /\ flow \in [Proxies -> [state: {"None", "Flow"}, expires_at: 0 .. MaxTime + TIMEOUT]]
    /\ opened \in [Proxies -> 0 .. MaxTime] /\ next_sweep \in [Proxies -> Nat]
    /\ seen \in [Proxies -> [recent: 0 .. MaxTime, system: 0 .. MaxTime]]
    /\ verdict \in [Proxies -> [said: {"Nothing", "Allowed", "Untracked"}, age: 0 .. MaxTime]]

(***************************************************************************)
(* The instant that an inspection uses is never in the future, and at most *)
(* twice MaxLag old: the proxy's own update may be overwritten by one that *)
(* another proxy began before it.                                          *)
(***************************************************************************)
ClockLagBounded ==
    \A p \in Proxies : seen[p].recent \in seen[p].system - 2 * MaxLag .. seen[p].system

(***************************************************************************)
(* By the system's clock, return traffic passes for no longer than TIMEOUT *)
(* after the flow was last authorised and is not refused before it, give   *)
(* or take the lag of the shared clock, although the clock can step back   *)
(* after a flow has expired.                                               *)
(***************************************************************************)
LifetimeKept ==
    \A p \in Proxies :
        /\ verdict[p].said = "Allowed" => verdict[p].age < TIMEOUT + 2 * MaxLag
        /\ verdict[p].said = "Untracked" => verdict[p].age >= TIMEOUT - 2 * MaxLag
=============================================================================
