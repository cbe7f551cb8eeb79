-------------------------------- MODULE Host --------------------------------
(***************************************************************************)
(* The host side of a proxy (host.rs): the handshake between vmnet's event *)
(* callback, which runs on a GCD thread, and the asynchronous reader, and  *)
(* the order in which finalize takes them apart.                           *)
(*                                                                         *)
(* The callback leaves a permit in Notify and parks until the reader       *)
(* acknowledges that the interface is empty.  read is dropped whenever     *)
(* another branch of the proxy's select completes: nothing is lost with it,*)
(* because draining and the permit live outside, so Read is simply a step  *)
(* that may be late.                                                       *)
(***************************************************************************)
EXTENDS Integers

CONSTANTS
    read_max_packets,    \* packets in one batch
    MaxArrivals          \* bound on the packets that arrive

ASSUME HostAssumption == read_max_packets \in Nat \ {0} /\ MaxArrivals \in Nat

VARIABLES
    pending, arrivals,   \* packets in the interface, and arrived so far
    event,               \* vmnet has packets to announce
    registered,          \* the event callback is set
    callback,            \* "Idle", or "Parked" in recv()
    permit,              \* Notify's stored permits, at most one
    draining,            \* the reader's flag: "No" or "Yes"
    acks,                \* buffered acknowledgments, sync_channel(1)
    sender,              \* callback_can_continue_tx.is_some()
    drained,             \* the reader saw the interface empty after the callback began
    stage,               \* of finalize: "Open", "Clear", "Release", "Stop" or "Closed"
    attempts, finalized

interface == <<pending, arrivals, event, registered>>
handshake == <<callback, permit, draining, acks, drained>>
closing == <<sender, stage, attempts, finalized>>
hostVars == <<interface, handshake, closing>>

-----------------------------------------------------------------------------
(***************************************************************************)
(* vmnet.  Events that occur while the callback runs are delivered as one  *)
(* when it returns.                                                        *)
(***************************************************************************)
Arrive ==
    /\ arrivals < MaxArrivals
    /\ arrivals' = arrivals + 1
    /\ pending' = pending + 1
    /\ event' = TRUE
    /\ UNCHANGED <<registered, handshake, closing>>

\* The callback's first line
CallbackBegins ==
    /\ event /\ registered /\ callback = "Idle"
    /\ event' = FALSE
    /\ callback' = "Parked"
    /\ permit' = 1
    /\ drained' = "No"
    /\ UNCHANGED <<pending, arrivals, registered, draining, acks, closing>>

\* recv() returns with an acknowledgment, or because the sender is gone
CallbackReturns ==
    /\ callback = "Parked"
    /\ \/ acks > 0 /\ acks' = acks - 1
       \/ acks = 0 /\ ~ sender /\ UNCHANGED acks
    /\ callback' = "Idle"
    /\ UNCHANGED <<interface, permit, draining, drained, closing>>

-----------------------------------------------------------------------------
(***************************************************************************)
(* Host::read, one turn of its loop.                                       *)
(***************************************************************************)
BatchSize == IF pending < read_max_packets THEN pending ELSE read_max_packets

\* Mutant: the reader awaits another callback after every batch
Mut_ReadBatch_Await ==
    /\ pending' = pending - BatchSize
    /\ draining' = "No"
    /\ UNCHANGED <<acks, drained>>

\* Packets: stay ready, the callback may cover several batches
ReadBatch ==
    /\ pending' = pending - BatchSize
    /\ draining' = "Yes"
    /\ UNCHANGED <<acks, drained>>

\* Mutant: the reader stays ready after it has seen the interface empty
Mut_ReadNothing ==
    /\ draining' = "Yes"
    /\ drained' = "Yes"
    /\ acks' = IF sender THEN 1 ELSE acks
    /\ UNCHANGED pending

\* VmnetReadNothing: try_send drops the acknowledgment if one is buffered
ReadNothing ==
    /\ draining' = "No"
    /\ drained' = "Yes"
    /\ acks' = IF sender THEN 1 ELSE acks
    /\ UNCHANGED pending

Read ==
    /\ stage = "Open"
    /\ draining = "Yes" \/ permit > 0
    /\ permit' = IF draining = "Yes" THEN permit ELSE 0
    /\ IF pending > 0 THEN ReadBatch ELSE ReadNothing
    /\ UNCHANGED <<arrivals, event, registered, callback, closing>>

-----------------------------------------------------------------------------
(***************************************************************************)
(* Host::finalize, and Drop if it failed.                                  *)
(***************************************************************************)
\* Proxy::run is over, for whatever reason
Finalize ==
    /\ stage = "Open"
    /\ stage' = "Clear"
    /\ UNCHANGED <<interface, handshake, sender, attempts, finalized>>

\* clear_event_callback may fail, and the rest is done all the same
ClearCallback ==
    /\ stage = "Clear"
    /\ registered' \in {FALSE, registered}
    /\ stage' = "Release"
    /\ UNCHANGED <<pending, arrivals, event, handshake, sender, attempts, finalized>>

\* Mutant: the sender is kept, and with it a parked callback
Mut_ReleaseCallback ==
    /\ stage = "Release"
    /\ stage' = "Stop"
    /\ UNCHANGED <<interface, handshake, sender, attempts, finalized>>

ReleaseCallback ==
    /\ stage = "Release"
    /\ sender' = FALSE
    /\ stage' = "Stop"
    /\ UNCHANGED <<interface, handshake, attempts, finalized>>

\* interface.finalize() waits for a callback in progress.  If it fails, drop
\* calls finalize once more.
StopInterface ==
    /\ stage = "Stop" /\ callback = "Idle"
    /\ attempts' = attempts + 1
    /\ finalized' \in BOOLEAN
    /\ stage' = IF finalized' \/ attempts' = 2 THEN "Closed" ELSE "Clear"
    /\ registered' = (registered /\ ~ finalized')
    /\ UNCHANGED <<pending, arrivals, event, handshake, sender>>

Done == stage = "Closed" /\ UNCHANGED hostVars

-----------------------------------------------------------------------------
HostInit ==
    /\ pending = 0 /\ arrivals = 0 /\ event = FALSE /\ registered = TRUE
    /\ callback = "Idle" /\ permit = 0 /\ draining = "No" /\ acks = 0 /\ drained = "No"
    /\ sender = TRUE /\ stage = "Open" /\ attempts = 0 /\ finalized = FALSE

HostNext ==
    \/ Arrive \/ CallbackBegins \/ CallbackReturns
    \/ Read
    \/ Finalize \/ ClearCallback \/ ReleaseCallback \/ StopInterface
    \/ Done

HostSpec == HostInit /\ [][HostNext]_hostVars

(***************************************************************************)
(* vmnet delivers its events and the callback's thread runs; the proxy's   *)
(* select keeps polling read; finalize runs on a thread of its own.        *)
(***************************************************************************)
HostFairness ==
    /\ WF_hostVars(CallbackBegins) /\ WF_hostVars(CallbackReturns) /\ WF_hostVars(Read)
    /\ WF_hostVars(ClearCallback) /\ WF_hostVars(ReleaseCallback) /\ WF_hostVars(StopInterface)

HostFairSpec == HostSpec /\ HostFairness

-----------------------------------------------------------------------------
(***************************************************************************)
(* One callback, one token: while the interface is open, a parked callback *)
(* is owed exactly one of a permit, a drain in progress or a buffered      *)
(* acknowledgment, and an idle one none.  So no acknowledgment outlives    *)
(* the callback it was meant for, and try_send never finds the buffer full *)
(* (Host::new, Host::read).                                                *)
(***************************************************************************)
OneTokenPerCallback ==
    stage = "Open" =>
        permit + acks + (IF draining = "Yes" THEN 1 ELSE 0) = IF callback = "Parked" THEN 1 ELSE 0

(***************************************************************************)
(* The callback is released only after the reader has seen the interface   *)
(* empty since that callback began: vmnet is not made to repeat it         *)
(* (Host::read).                                                           *)
(***************************************************************************)
ReleasedWhenDrained == acks > 0 => drained = "Yes"

\* No wakeup is lost: packets are read unless the proxy ends (Host::read)
PacketsAreRead == pending > 0 ~> (pending = 0 \/ stage # "Open")

\* finalize never deadlocks with a parked callback (Host::finalize)
FinalizeTerminates == stage = "Clear" ~> stage = "Closed"

=============================================================================
