--------------------------- MODULE ReturnPermits ---------------------------
(***************************************************************************)
(* What stateful flow authorization promises, without a table: a frame is  *)
(* forwarded because the policy in force approves it, or because it        *)
(* answers a tuple that the other side was permitted to open.              *)
(*                                                                         *)
(* A permit names a tuple, the direction that opened it and the time until *)
(* which the other direction may answer.  Policy-approved frames of the    *)
(* opening direction grant and renew permits, return traffic does not, the *)
(* clock ends them, and a change of policy takes them all back.  Capacity, *)
(* sweeping and the layout of the cache are no part of the promise.        *)
(***************************************************************************)
EXTENDS Integers

CONSTANTS
    Frame,                    \* frames that may arrive
    Approved(_, _, _),        \* policy, direction, frame: the policy lets it pass
    MustTrack(_, _, _),       \* policy, direction, frame: but only with a permit
    Tuple(_, _),              \* frame, direction: what a permit is for
    NoTuple,                  \* the frame belongs to no tuple
    Lifetime(_),              \* frame: how long its permit lasts
    Silence                   \* nothing was forwarded

VARIABLES policy, permits, now, forwarded

pvars == <<policy, permits, now, forwarded>>

Way == {"FromHost", "FromVm"}

Forwarded(frame, way) == [frame |-> frame, way |-> way]

Granted(frame, way) ==
    {p \in permits : p.tuple # Tuple(frame, way)}
        \cup {[tuple |-> Tuple(frame, way), opener |-> way, until |-> now + Lifetime(frame)]}

\* A frame the policy approves
ByPolicy(frame, way) ==
    /\ \/ Tuple(frame, way) # NoTuple /\ permits' = Granted(frame, way)
       \/ UNCHANGED permits /\ ~ MustTrack(policy, way, frame)
    /\ Approved(policy, way, frame)

\* Return traffic
ByPermit(frame, way) ==
    /\ UNCHANGED permits
    /\ \E p \in permits : p.tuple = Tuple(frame, way) /\ p.opener # way

\* A frame that may pass can still get lost on the way out
ForwardFrame ==
    /\ UNCHANGED <<policy, now>>
    /\ \E frame \in Frame, way \in Way :
          /\ forwarded' \in {Forwarded(frame, way), Silence}
          /\ ByPolicy(frame, way) \/ ByPermit(frame, way)

Refuse ==
    /\ forwarded' = Silence
    /\ UNCHANGED <<policy, permits, now>>

ReplacePolicy ==
    /\ policy' # policy
    /\ permits' = {}
    /\ forwarded' = Silence
    /\ UNCHANGED now

Pass ==
    /\ now' \in Nat /\ now' > now
    /\ permits' = {p \in permits : now' < p.until}
    /\ forwarded' = Silence
    /\ UNCHANGED policy

PInit == permits = {} /\ forwarded = Silence /\ now \in Nat

PNext == Refuse \/ ForwardFrame \/ ReplacePolicy \/ Pass

PSpec == PInit /\ [][PNext]_pvars

=============================================================================
