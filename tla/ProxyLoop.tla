----------------------------- MODULE ProxyLoop -----------------------------
(***************************************************************************)
(* Proxy::run in lib/proxy/mod.rs and the VM's socket, lib/vm.rs: which of *)
(* its sources the loop serves, and what makes it return.  Proxy models    *)
(* what is done with each frame.                                           *)
(***************************************************************************)
EXTENDS Integers

CONSTANTS
    Burst,           \* frames that one turn reads from the VM
    HostBatch,       \* frames that one turn reads from the host
    MaxQueue         \* bound on the frames that wait on either side

ASSUME LoopAssumption ==
    /\ Burst \in Nat \ {0} /\ HostBatch \in Nat \ {0}
    /\ MaxQueue \in Nat

VARIABLES
    branch,          \* "Select", "Burst", "Batch" or "Returned"
    left,            \* reads or frames left in this turn
    returned,        \* what run returns
    queue,           \* frames from the VM in its socket
    peer,            \* the other end of the socket: "Open" or "Closed"
    reset,           \* "Yes": the socket will report the reset, once
    arrived,         \* frames from the host
    command,         \* the commands channel: "None", "Queued" or "Closed"
    due,             \* "Yes": the maintenance interval has a tick
    faults           \* I/O errors other than those of a closed peer

socket == <<queue, peer, reset>>
loopVars == <<branch, left, returned, socket, arrived, command, due, faults>>

LoopInit ==
    /\ branch = "Select" /\ left = 0 /\ returned = "None"
    /\ queue = 0 /\ peer = "Open" /\ reset = "No"
    /\ arrived = 0 /\ command = "None" /\ due = "Yes"
    /\ faults = 0

-----------------------------------------------------------------------------
(***************************************************************************)
(* VM.  The errors are those that the code distinguishes.                  *)
(***************************************************************************)
is_connected == peer = "Open"

\* Mutant: a write without a destination is not a disconnection
Mut_is_disconnect(error) == error \in {"ConnectionReset", "NotConnected"} /\ ~ is_connected

is_disconnect(error) ==
    error \in {"ConnectionReset", "NotConnected", "EDESTADDRREQ"} /\ ~ is_connected

\* recv: frames come before the reset, which is reported once
RecvResult ==
    IF queue > 0 THEN "Frame" ELSE IF reset = "Yes" THEN "ConnectionReset" ELSE "WouldBlock"

\* send: the reset first, then nobody to send to.  ENOBUFS counts as success.
SendResult ==
    IF reset = "Yes" THEN "ConnectionReset" ELSE IF is_connected THEN "Ok" ELSE "EDESTADDRREQ"

-----------------------------------------------------------------------------
(***************************************************************************)
(* Proxy::run.                                                             *)
(***************************************************************************)
Return(value) == branch' = "Returned" /\ returned' = value /\ left' = 0

Continue(place, count) == branch' = place /\ left' = count /\ UNCHANGED returned

\* An error on the VM's socket ends the loop, as a failure or not
VmError(error) == Return(IF is_disconnect(error) THEN "Ok" ELSE "Err")

\* process_frame_from_vm: a DHCP or DNS reply may be sent, and its failure, the
\* reset among them, only reported; a frame may be forwarded.
ProcessFromVm ==
    /\ queue' = queue - 1
    /\ reset' \in {reset, "No"}
    /\ UNCHANGED <<peer, arrived, command, due, faults>>

\* A read from the VM, the next one of a turn with remaining reads after it
ReadFrame(remaining) ==
    \/ RecvResult = "Frame" /\ ProcessFromVm /\ Continue("Burst", remaining)
    \/ /\ RecvResult = "ConnectionReset" /\ reset' = "No"
       /\ VmError("ConnectionReset")
       /\ UNCHANGED <<queue, peer, arrived, command, due, faults>>

\* The first branch of the select
ReadVm == branch = "Select" /\ ReadFrame(Burst - 1)

\* Mutant: a turn lasts as long as the VM has frames
Mut_BurstRead == branch = "Burst" /\ ReadFrame(left)

BurstRead == branch = "Burst" /\ left > 0 /\ ReadFrame(left - 1)

BurstEnds ==
    /\ branch = "Burst" /\ (left = 0 \/ RecvResult = "WouldBlock")
    /\ Continue("Select", 0)
    /\ UNCHANGED <<socket, arrived, command, due, faults>>

\* The second branch: a batch from the host
ReadHost ==
    /\ branch = "Select" /\ arrived > 0
    /\ \E n \in 1 .. HostBatch :
         n <= arrived /\ arrived' = arrived - n /\ Continue("Batch", n)
    /\ UNCHANGED <<socket, command, due, faults>>

\* process_frame_from_host: the filter may drop the frame
BatchDrop ==
    /\ branch = "Batch" /\ left > 0
    /\ Continue("Batch", left - 1)
    /\ UNCHANGED <<socket, arrived, command, due, faults>>

BatchWrite ==
    /\ branch = "Batch" /\ left > 0
    /\ IF SendResult = "Ok" THEN Continue("Batch", left - 1) ELSE VmError(SendResult)
    /\ reset' = "No"
    /\ UNCHANGED <<queue, peer, arrived, command, due, faults>>

BatchEnds ==
    /\ branch = "Batch" /\ left = 0
    /\ Continue("Select", 0)
    /\ UNCHANGED <<socket, arrived, command, due, faults>>

\* The third branch: a command, or the end of them
ServeCommand ==
    /\ branch = "Select" /\ command # "None"
    /\ IF command = "Closed" THEN Return("Ok") ELSE Continue("Select", 0)
    /\ command' = IF command = "Closed" THEN "Closed" ELSE "None"
    /\ UNCHANGED <<socket, arrived, due, faults>>

\* Mutant: connectivity is left to the errors of the socket
Mut_Maintain ==
    /\ branch = "Select" /\ due = "Yes"
    /\ due' = "No"
    /\ UNCHANGED <<branch, left, returned, socket, arrived, command, faults>>

\* The fourth branch
Maintain ==
    /\ branch = "Select" /\ due = "Yes"
    /\ due' = "No"
    /\ IF is_connected THEN Continue("Select", 0) ELSE Return("Ok")
    /\ UNCHANGED <<socket, arrived, command, faults>>

\* Any read, write or peer_addr fails for another reason
Fails ==
    /\ branch \in {"Select", "Burst", "Batch"}
    /\ faults = 0 /\ faults' = 1
    /\ Return("Err")
    /\ UNCHANGED <<socket, arrived, command, due>>

-----------------------------------------------------------------------------
(***************************************************************************)
(* The rest of the world: VM, network, timer and manager.                  *)
(***************************************************************************)
VmSends ==
    /\ peer = "Open" /\ queue < MaxQueue
    /\ queue' = queue + 1
    /\ UNCHANGED <<peer, reset, arrived, command, due>>

\* The peer closes its end; macOS may or may not report a reset
VmCloses ==
    /\ peer = "Open"
    /\ peer' = "Closed"
    /\ reset' \in {"Yes", "No"}
    /\ UNCHANGED <<queue, arrived, command, due>>

HostSends ==
    /\ arrived < MaxQueue
    /\ arrived' = arrived + 1
    /\ UNCHANGED <<socket, command, due>>

\* Missed ticks are skipped
TimerTicks == due' = "Yes" /\ UNCHANGED <<socket, arrived, command>>

ManagerSends ==
    /\ command = "None"
    /\ command' \in {"Queued", "Closed"}
    /\ UNCHANGED <<socket, arrived, due>>

World ==
    /\ branch # "Returned"
    /\ VmSends \/ VmCloses \/ HostSends \/ TimerTicks \/ ManagerSends
    /\ UNCHANGED <<branch, left, returned, faults>>

Turn == BurstRead \/ BurstEnds \/ BatchDrop \/ BatchWrite \/ BatchEnds

Returned == branch = "Returned" /\ UNCHANGED loopVars

LoopNext ==
    \/ ReadVm \/ ReadHost \/ ServeCommand \/ Maintain
    \/ Turn \/ Fails \/ World \/ Returned

\* select! starts at a random branch, so that no branch which is ready time and
\* again is passed over forever.  The interval ticks.  A reset need not make the
\* socket readable.
LoopSpec ==
    /\ LoopInit /\ [][LoopNext]_loopVars
    /\ WF_loopVars(Turn)
    /\ SF_loopVars(queue > 0 /\ ReadVm) /\ SF_loopVars(ReadHost) /\ SF_loopVars(ServeCommand) /\ SF_loopVars(Maintain)
    /\ WF_loopVars(TimerTicks /\ World)

-----------------------------------------------------------------------------
(***************************************************************************)
(* A VM that goes away is never a failure of the process: run returns an   *)
(* error only if something else went wrong, whichever read or write met    *)
(* the closed socket first, and whether or not an earlier one consumed the *)
(* reset.                                                                  *)
(***************************************************************************)
DisconnectIsClean == returned = "Err" => faults > 0

(***************************************************************************)
(* No branch of the loop starves another: frames from the host are read    *)
(* even while the VM keeps sending, and the other way around; and a        *)
(* command is served, and the end of commands noticed, however many frames *)
(* both of them send.                                                      *)
(***************************************************************************)
NoBranchStarves ==
    /\ []<>(arrived = 0 \/ branch \in {"Batch", "Returned"})
    /\ []<>(queue = 0 \/ branch \in {"Burst", "Returned"})
    /\ []<>(command # "Queued" \/ branch = "Returned")
    /\ []<>(command # "Closed" \/ branch = "Returned")

(***************************************************************************)
(* A VM that goes away ends its proxy, even if no read or write ever       *)
(* reports it.                                                             *)
(***************************************************************************)
DisconnectNoticed == peer = "Closed" ~> branch = "Returned"
=============================================================================
