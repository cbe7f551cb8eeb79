------------------------------ MODULE Manager ------------------------------
(***************************************************************************)
(* The process around the packet filters (manager.rs, control.rs, main.rs):*)
(* the manager, the control task that talks to the client, the blocking    *)
(* worker that creates the network, and one proxy task per VM.             *)
(*                                                                         *)
(* The manager is one future: pc names the await it is parked at, and an   *)
(* action runs it to its next await.  SIGINT drops the future at any of    *)
(* them, with all it holds, and shutdown takes over.  VMs are numbered in  *)
(* the order of their batch.                                               *)
(***************************************************************************)
EXTENDS Integers

CONSTANTS
    MAX_VMS,
    MaxFrames        \* bound on the frames that the client sends

ASSUME ManagerAssumption == MAX_VMS \in Nat \ {0} /\ MaxFrames \in Nat

VM == 1 .. MAX_VMS
NoVm == 0
NoCall == [op |-> "None"]

\* Request: GetPolicy and SetPolicy take the same path.  An Initialize may be
\* too small or too large.
Request ==
    [op: {"Initialize"}, vms: 0 .. MAX_VMS + 1] \cup [op: {"Policy"}, vm: VM \cup {NoVm}]

VARIABLES
    cli,             \* a VM is given on the command line
    pc,              \* where the manager's future awaits
    status,          \* its result
    start,           \* the start senders: "None", "Held", "Sent" or "Dropped"
    target,          \* the VM whose policy is being read or replaced
    initialized, default_vm_id,
    privileged,      \* PrivDrop has not succeeded yet
    batch,           \* number of VMs in the accepted batch
    handles,         \* keys of proxy_handles
    tasks, results,  \* the proxy tasks and what they return
    commands, ack,   \* the command in each task's channel, and its reply channel
    interfaces,      \* each VM's vmnet interface: "None", "Up" or "Stopped"
    connected,       \* the VMs whose socket has a peer
    worker, built, sent,            \* the initialization worker and its progress
    closed, call, reply,            \* the calls channel, and the reply channel of its call
    control,         \* the control task; "None" once it is joined
    aborted,         \* its abort handle was used
    request,         \* the request that it is about to send
    answered,        \* the response to its last call is on the wire
    client, frames   \* "Reading", "Stalled" or "Gone"; frames received so far

\* What every step of the manager's future decides
future == <<pc, status, start, closed, call, reply, aborted>>
setup == <<initialized, default_vm_id, privileged, batch>>
proxies == <<tasks, results, commands, ack, interfaces, connected>>
building == <<worker, built, sent>>
controlling == <<control, request, answered, client, frames>>
vars == <<cli, future, target, setup, handles, proxies, building, controlling>>

ShutdownPhase == {"JoinControl", "JoinWorker", "JoinTasks", "Exited"}

\* JoinMap::is_empty
NoTasks == \A v \in VM : tasks[v] \in {"None", "Reaped"}

\* The receiving half of a task's command channel is alive
Receiving(v) == tasks[v] \in {"AwaitProxy", "AwaitStart", "Running"}

-----------------------------------------------------------------------------
(***************************************************************************)
(* How a step of the future ends.                                          *)
(***************************************************************************)
Await(place) == pc' = place /\ UNCHANGED <<status, start, closed, call, reply, aborted>>

\* Answer the call in hand and return to select.  There is no other call: the
\* control task sends none before it has the reply to the last.
Respond(result) ==
    /\ pc' = "Select"
    /\ reply' = result
    /\ call' = NoCall
    /\ UNCHANGED <<status, start, closed, aborted>>

\* finish_control until it awaits the control task: no more calls, and a call
\* that is still queued is dropped with its reply channel
CloseCalls(pending) ==
    /\ closed' = TRUE
    /\ call' = NoCall
    /\ reply' = IF pending = "Pending" THEN "Dropped" ELSE pending

\* Mutant: the control task is awaited while the calls channel is still open
Mut_FinishControl(result) ==
    /\ pc' = "Finishing"
    /\ status' = result
    /\ UNCHANGED <<start, closed, call, reply, aborted>>

\* run is about to return result, once finish_control is through
FinishControl(result) ==
    /\ pc' = "Finishing"
    /\ status' = result
    /\ CloseCalls(reply)
    /\ UNCHANGED <<start, aborted>>

\* The future is over and its locals are dropped: the start senders, the reply
\* channel in hand.  shutdown begins with abort and finish_control.
EnterShutdown(result) ==
    /\ pc' = "JoinControl"
    /\ status' = result
    /\ start' = IF start = "Held" THEN "Dropped" ELSE start
    /\ CloseCalls(reply)
    /\ aborted' = TRUE

-----------------------------------------------------------------------------
(***************************************************************************)
(* Manager::initialize.                                                    *)
(***************************************************************************)
\* An early return, before any resource exists: already initialized, batch
\* size, MAC addresses, subnet, packet sockets, names
RejectInitialize == UNCHANGED <<setup, handles, proxies, building>>

\* Tasks and handles are registered before the worker starts
AcceptInitialize(n) ==
    /\ ~ initialized
    /\ n \in VM
    /\ batch' = n
    /\ tasks' = [v \in VM |-> IF v <= n THEN "AwaitProxy" ELSE tasks[v]]
    /\ handles' = 1 .. n
    /\ worker' = "Network"
    /\ start' = "Held"
    /\ pc' = "Initializing"
    /\ UNCHANGED <<status, closed, reply, aborted, initialized, default_vm_id, privileged,
                   results, commands, ack, interfaces, connected, built, sent>>

\* The batch of the command line, or straight to run
Begin ==
    /\ pc = "Start"
    /\ \/ cli /\ RejectInitialize /\ EnterShutdown("Error")
       \/ cli /\ AcceptInitialize(1) /\ UNCHANGED call
       \/ ~ cli /\ Await("Select") /\ UNCHANGED <<setup, handles, proxies, building>>
    /\ UNCHANGED <<cli, target, controlling>>

\* Mutant: the run ends at once, and shutdown interrupts the reply
Mut_ActivationFailed ==
    /\ EnterShutdown("ActivationFailed")
    /\ UNCHANGED <<initialized, default_vm_id, privileged>>

\* The worker or PrivDrop failed.  Over the control socket, the client hears of
\* it before the run ends.
ActivationFailed ==
    /\ IF cli THEN EnterShutdown("ActivationFailed")
       ELSE /\ pc' = "Finishing"
            /\ status' = "ActivationFailed"
            /\ start' = "Dropped"
            /\ CloseCalls("Error")
            /\ UNCHANGED aborted
    /\ UNCHANGED <<initialized, default_vm_id, privileged>>

\* From PrivDrop to the start signals there is no await
Activated ==
    /\ privileged' = FALSE
    /\ initialized' = TRUE
    /\ default_vm_id' = IF batch = 1 THEN 1 ELSE NoVm
    /\ start' = "Sent"
    /\ pc' = "Select"
    /\ reply' = IF cli THEN reply ELSE "Ok"
    /\ UNCHANGED <<status, closed, call, aborted>>

\* finish_initialization returns to initialize
FinishInitialize ==
    /\ pc = "Initializing"
    /\ \/ worker = "Failed" /\ ActivationFailed
       \/ worker = "Succeeded" /\ (Activated \/ ActivationFailed)
    /\ worker' = "None"
    /\ UNCHANGED <<cli, target, batch, handles, proxies, built, sent, controlling>>

\* The blocking worker: the network, then every proxy, then their transfer
WorkerRunning == worker \in {"Network", "Building"}

CreateNetwork ==
    /\ worker = "Network"
    /\ worker' \in {"Building", "Failed"}
    /\ UNCHANGED <<cli, future, target, setup, handles, proxies, built, sent, controlling>>

\* Proxy::new; its failure drops the proxies built so far, which stops their interfaces
BuildProxy ==
    /\ worker = "Building" /\ built < batch
    /\ \/ /\ built' = built + 1
          /\ interfaces' = [interfaces EXCEPT ![built + 1] = "Up"]
          /\ UNCHANGED worker
       \/ /\ interfaces' = [v \in VM |-> IF v <= built THEN "Stopped" ELSE interfaces[v]]
          /\ worker' = "Failed"
          /\ UNCHANGED built
    /\ UNCHANGED <<sent, tasks, results, commands, ack, connected>>

\* sender.send(proxy): the task takes it and awaits its start signal.  If the task
\* is gone, the worker gives up and drops the proxies it still has.
TransferProxy ==
    /\ worker = "Building" /\ built = batch /\ sent < batch
    /\ IF tasks[sent + 1] = "AwaitProxy"
       THEN /\ sent' = sent + 1
            /\ tasks' = [tasks EXCEPT ![sent + 1] = "AwaitStart"]
            /\ UNCHANGED <<worker, interfaces>>
       ELSE /\ worker' = "Failed"
            /\ interfaces' = [v \in VM |-> IF sent < v /\ v <= built THEN "Stopped"
                                           ELSE interfaces[v]]
            /\ UNCHANGED <<sent, tasks>>
    /\ UNCHANGED <<built, results, commands, ack, connected>>

WorkerReturns ==
    /\ worker = "Building" /\ sent = batch
    /\ worker' = "Succeeded"
    /\ UNCHANGED <<built, sent, proxies>>

WorkerStep ==
    \/ CreateNetwork
    \/ /\ BuildProxy \/ TransferProxy \/ WorkerReturns
       /\ UNCHANGED <<cli, future, target, setup, handles, controlling>>

-----------------------------------------------------------------------------
(***************************************************************************)
(* Manager::run: the branches of its select, and dispatch.                 *)
(***************************************************************************)
\* reap_task; the run ends with the first failure or after the last proxy
ReapTask(v) ==
    /\ pc = "Select" /\ tasks[v] = "Finished"
    /\ tasks' = [tasks EXCEPT ![v] = "Reaped"]
    /\ handles' = handles \ {v}
    /\ IF results[v] = "Error" THEN EnterShutdown("Error")
       ELSE IF NoTasks' THEN FinishControl("Ok")
       ELSE Await("Select")
    /\ UNCHANGED <<cli, target, setup, results, commands, ack, interfaces, connected, building,
                   controlling>>

\* The control task has finished; finish_control has nothing to await
ReapControl ==
    /\ pc = "Select" /\ control = "Done"
    /\ control' = "None"
    /\ CloseCalls(reply)
    /\ UNCHANGED <<cli, pc, status, start, aborted, target, setup, handles, proxies, building,
                   request, answered, client, frames>>

\* proxy_handle: the named VM, or the only one
PolicyTarget(vm) == IF vm = NoVm THEN default_vm_id ELSE vm

Dispatch ==
    /\ pc = "Select" /\ call # NoCall
    /\ \/ /\ call.op = "Initialize"
          /\ \/ RejectInitialize /\ Respond("Error")
             \/ AcceptInitialize(call.vms) /\ call' = NoCall
          /\ UNCHANGED target
       \/ /\ call.op = "Policy"
          /\ IF PolicyTarget(call.vm) \in handles
             THEN /\ target' = PolicyTarget(call.vm)
                  /\ pc' = "Sending"
                  /\ call' = NoCall
                  /\ UNCHANGED <<status, start, closed, reply, aborted>>
             ELSE Respond("Error") /\ UNCHANGED target
          /\ UNCHANGED <<setup, handles, proxies, building>>
    /\ UNCHANGED <<cli, controlling>>

\* Mutant: the command is not acknowledged
Mut_SendCommand ==
    /\ pc = "Sending"
    /\ IF Receiving(target)
       THEN /\ commands[target] = "None"
            /\ commands' = [commands EXCEPT ![target] = "Queued"]
            /\ Respond("Ok")
       ELSE Respond("Error") /\ UNCHANGED commands
    /\ UNCHANGED <<cli, target, setup, handles, tasks, results, ack, interfaces, connected,
                   building, controlling>>

\* ProxyHandle::request: the command, then its acknowledgment
SendCommand ==
    /\ pc = "Sending"
    /\ IF Receiving(target)
       THEN /\ commands[target] = "None"
            /\ commands' = [commands EXCEPT ![target] = "Queued"]
            /\ ack' = "Pending"
            /\ Await("AwaitAck")
       ELSE Respond("Error") /\ UNCHANGED <<commands, ack>>
    /\ UNCHANGED <<cli, target, setup, handles, tasks, results, interfaces, connected, building,
                   controlling>>

ReceiveAck ==
    /\ pc = "AwaitAck" /\ ack \in {"Done", "Dropped"}
    /\ Respond(IF ack = "Done" THEN "Ok" ELSE "Error")
    /\ UNCHANGED <<cli, target, setup, handles, proxies, building, controlling>>

\* The else branch: no proxy, no control task, no calls
NothingLeft ==
    /\ pc = "Select"
    /\ NoTasks /\ control = "None" /\ call = NoCall
    /\ FinishControl("Ok")
    /\ UNCHANGED <<cli, target, setup, handles, proxies, building, controlling>>

ControlJoined == control \in {"None", "Done"}

\* finish_control returns, and with it run
RunReturns ==
    /\ pc = "Finishing" /\ ControlJoined
    /\ control' = "None"
    /\ EnterShutdown(status)
    /\ UNCHANGED <<cli, target, setup, handles, proxies, building, request, answered, client, frames>>

\* SIGINT wins the select in try_main
Interrupt ==
    /\ pc \notin ShutdownPhase
    /\ EnterShutdown("Ok")
    /\ UNCHANGED <<cli, target, setup, handles, proxies, building, controlling>>

-----------------------------------------------------------------------------
(***************************************************************************)
(* Manager::shutdown past its abort: control, handles, worker, tasks.      *)
(***************************************************************************)
Advance(place, result) ==
    pc' = place /\ status' = result /\ UNCHANGED <<start, closed, call, reply, aborted>>

FirstFailure(failed) == IF status = "Ok" /\ failed THEN "Error" ELSE status

\* Mutant: the command channels stay open
Mut_CloseHandles ==
    /\ pc = "JoinControl" /\ ControlJoined
    /\ control' = "None"
    /\ Advance("JoinWorker", status)
    /\ UNCHANGED <<cli, handles, target, setup, proxies, building, request, answered, client, frames>>

CloseHandles ==
    /\ pc = "JoinControl" /\ ControlJoined
    /\ control' = "None"
    /\ handles' = {}
    /\ Advance("JoinWorker", status)
    /\ UNCHANGED <<cli, target, setup, proxies, building, request, answered, client, frames>>

\* Mutant: shutdown does not wait for a worker that initialize left behind
Mut_JoinWorker ==
    /\ pc = "JoinWorker"
    /\ Advance("JoinTasks", FirstFailure(worker = "Failed"))
    /\ UNCHANGED <<cli, target, setup, handles, proxies, building, controlling>>

JoinWorker ==
    /\ pc = "JoinWorker" /\ ~ WorkerRunning
    /\ worker' = "None"
    /\ Advance("JoinTasks", FirstFailure(worker = "Failed"))
    /\ UNCHANGED <<cli, target, setup, handles, proxies, built, sent, controlling>>

\* Mutant: the results of tasks joined during shutdown are ignored
Mut_JoinTask(v) ==
    /\ pc = "JoinTasks" /\ tasks[v] = "Finished"
    /\ tasks' = [tasks EXCEPT ![v] = "Reaped"]
    /\ UNCHANGED <<cli, future, target, setup, handles, results, commands, ack, interfaces,
                   connected, building, controlling>>

JoinTask(v) ==
    /\ pc = "JoinTasks" /\ tasks[v] = "Finished"
    /\ tasks' = [tasks EXCEPT ![v] = "Reaped"]
    /\ Advance("JoinTasks", FirstFailure(results[v] = "Error"))
    /\ UNCHANGED <<cli, target, setup, handles, results, commands, ack, interfaces, connected,
                   building, controlling>>

Exit ==
    /\ pc = "JoinTasks" /\ NoTasks
    /\ Advance("Exited", status)
    /\ UNCHANGED <<cli, target, setup, handles, proxies, building, controlling>>

ManagerStep ==
    \/ Begin \/ FinishInitialize
    \/ \E v \in VM : ReapTask(v) \/ JoinTask(v)
    \/ ReapControl \/ Dispatch \/ SendCommand \/ ReceiveAck \/ NothingLeft \/ RunReturns
    \/ CloseHandles \/ JoinWorker \/ Exit

-----------------------------------------------------------------------------
(***************************************************************************)
(* A proxy task: proxy_rx.await, then ProxyHandle::run.                    *)
(***************************************************************************)
\* The worker is gone without having sent a proxy
ProxyDropped(v) ==
    /\ tasks[v] = "AwaitProxy" /\ ~ WorkerRunning
    /\ tasks' = [tasks EXCEPT ![v] = "Finished"]
    /\ UNCHANGED <<results, commands, ack, interfaces, connected>>

\* Mutant: the start signal is not awaited
Mut_AwaitStart(v) ==
    /\ tasks[v] = "AwaitStart"
    /\ tasks' = [tasks EXCEPT ![v] = "Running"]
    /\ UNCHANGED <<results, commands, ack, interfaces, connected>>

\* start.await: without a signal there is nothing but cleanup
AwaitStart(v) ==
    /\ tasks[v] = "AwaitStart" /\ start \in {"Sent", "Dropped"}
    /\ tasks' = [tasks EXCEPT ![v] = IF start = "Sent" THEN "Running" ELSE "Cleanup"]
    /\ UNCHANGED <<results, commands, ack, interfaces, connected>>

\* Proxy::run serves a policy command
ServeCommand(v) ==
    /\ tasks[v] = "Running" /\ commands[v] = "Queued"
    /\ commands' = [commands EXCEPT ![v] = "None"]
    /\ ack' = "Done"
    /\ UNCHANGED <<tasks, results, interfaces, connected>>

\* Mutant: a queued command outlives the run, and with it the reply channel
Mut_StopRunning(v, result) ==
    /\ tasks[v] = "Running"
    /\ tasks' = [tasks EXCEPT ![v] = "Cleanup"]
    /\ results' = [results EXCEPT ![v] = result]
    /\ UNCHANGED <<commands, ack, interfaces, connected>>

\* Proxy::run returns, or unwinds; a command that is still queued is dropped
StopRunning(v, result) ==
    /\ tasks[v] = "Running"
    /\ tasks' = [tasks EXCEPT ![v] = "Cleanup"]
    /\ results' = [results EXCEPT ![v] = result]
    /\ commands' = [commands EXCEPT ![v] = "None"]
    /\ ack' = IF commands[v] = "Queued" THEN "Dropped" ELSE ack
    /\ UNCHANGED <<interfaces, connected>>

\* The maintenance tick, or an error on the socket, finds the VM disconnected
VmGone(v) == v \notin connected /\ StopRunning(v, "Ok")

\* commands_rx.recv() returns None: the manager has dropped the handle
HandleGone(v) == v \notin handles /\ commands[v] = "None" /\ StopRunning(v, "Ok")

\* An I/O error or a panic
RunFails(v) == StopRunning(v, "Error")

\* Mutant: a failed run skips finalize
Mut_Cleanup(v) ==
    /\ tasks[v] = "Cleanup"
    /\ interfaces' = IF results[v] = "Ok" THEN [interfaces EXCEPT ![v] = "Stopped"] ELSE interfaces
    /\ tasks' = [tasks EXCEPT ![v] = "Finished"]
    /\ UNCHANGED <<results, commands, ack, connected>>

\* finalize, which may fail, and drop on a blocking thread
Cleanup(v) ==
    /\ tasks[v] = "Cleanup"
    /\ interfaces' = [interfaces EXCEPT ![v] = "Stopped"]
    /\ results' \in {results, [results EXCEPT ![v] = "Error"]}
    /\ tasks' = [tasks EXCEPT ![v] = "Finished"]
    /\ UNCHANGED <<commands, ack, connected>>

Disconnect(v) ==
    /\ v \in connected
    /\ connected' = connected \ {v}
    /\ UNCHANGED <<tasks, results, commands, ack, interfaces>>

TaskStep(v) ==
    /\ \/ ProxyDropped(v) \/ AwaitStart(v) \/ ServeCommand(v)
       \/ VmGone(v) \/ HandleGone(v) \/ Cleanup(v)
    /\ UNCHANGED <<cli, future, target, setup, handles, building, controlling>>

VmEvent(v) ==
    /\ RunFails(v) \/ Disconnect(v)
    /\ UNCHANGED <<cli, future, target, setup, handles, building, controlling>>

-----------------------------------------------------------------------------
(***************************************************************************)
(* Control::run and its client.                                            *)
(***************************************************************************)
\* A frame: parse makes a request of it, or a response that reports the error
ReceiveFrame ==
    /\ control = "Reading"
    /\ frames < MaxFrames
    /\ frames' = frames + 1
    /\ \/ request' \in Request /\ control' = "Sending"
       \/ control' = "Writing" /\ UNCHANGED request
    /\ UNCHANGED <<call, reply, answered, client>>

\* End of stream, or control_calls_tx.closed()
StopReading ==
    /\ control = "Reading"
    /\ client = "Gone" \/ closed
    /\ control' = "Done"
    /\ UNCHANGED <<call, reply, request, answered, client, frames>>

SendCall ==
    /\ control = "Sending"
    /\ IF closed
       THEN control' = "Done" /\ UNCHANGED <<call, reply, answered>>
       ELSE /\ call = NoCall
            /\ call' = request
            /\ reply' = "Pending"
            /\ answered' = FALSE
            /\ control' = "Waiting"
    /\ request' = NoCall
    /\ UNCHANGED <<client, frames>>

ReceiveReply ==
    /\ control = "Waiting" /\ reply # "Pending"
    /\ control' = IF reply = "Dropped" THEN "Done" ELSE "Writing"
    /\ UNCHANGED <<call, reply, request, answered, client, frames>>

\* The biased select prefers the write while it can proceed
WriteResponse ==
    /\ control = "Writing"
    /\ \/ client = "Reading" /\ control' = "Reading" /\ answered' = TRUE
       \/ client = "Gone" /\ control' = "Done" /\ UNCHANGED answered
       \/ client = "Stalled" /\ closed /\ control' = "Done" /\ UNCHANGED answered
    /\ UNCHANGED <<call, reply, request, client, frames>>

\* abort drops the task's future at its await
Cancel ==
    /\ aborted /\ control \notin {"None", "Done"}
    /\ control' = "Done"
    /\ UNCHANGED <<call, reply, request, answered, client, frames>>

\* The client stops reading, or closes its end
ClientEvent ==
    /\ \/ client = "Reading" /\ client' \in {"Stalled", "Gone"}
       \/ client = "Stalled" /\ client' = "Gone"
    /\ UNCHANGED <<call, reply, control, request, answered, frames>>

ControlStep ==
    /\ StopReading \/ SendCall \/ ReceiveReply \/ WriteResponse \/ Cancel
    /\ UNCHANGED <<cli, pc, status, start, closed, aborted, target, setup, handles, proxies, building>>

ControlEvent ==
    /\ ReceiveFrame \/ ClientEvent
    /\ UNCHANGED <<cli, pc, status, start, closed, aborted, target, setup, handles, proxies, building>>

\* The process has exited
Terminated == pc = "Exited" /\ UNCHANGED vars

-----------------------------------------------------------------------------
\* The command line gives a VM, a control socket, or both
Init ==
    /\ cli \in BOOLEAN
    /\ control \in {"None", "Reading"}
    /\ cli \/ control = "Reading"
    /\ pc = "Start" /\ status = "Ok" /\ start = "None" /\ target = NoVm
    /\ initialized = FALSE /\ default_vm_id = NoVm /\ privileged = TRUE
    /\ batch = 0 /\ handles = {}
    /\ tasks = [v \in VM |-> "None"]
    /\ results = [v \in VM |-> "Ok"]
    /\ commands = [v \in VM |-> "None"] /\ ack = "None"
    /\ interfaces = [v \in VM |-> "None"]
    /\ connected = VM
    /\ worker = "None" /\ built = 0 /\ sent = 0
    /\ closed = FALSE /\ call = NoCall /\ reply = "None"
    /\ aborted = FALSE /\ request = NoCall /\ answered = TRUE
    /\ client = "Reading" /\ frames = 0

Next ==
    \/ ManagerStep \/ Interrupt \/ WorkerStep
    \/ \E v \in VM : TaskStep(v) \/ VmEvent(v)
    \/ ControlStep \/ ControlEvent
    \/ Terminated

Spec == Init /\ [][Next]_vars

(***************************************************************************)
(* The tokio runtime polls every task that can make progress, and blocking *)
(* work ends.  Clients, VMs, signals and failures owe nothing.             *)
(***************************************************************************)
Fairness ==
    /\ WF_vars(ManagerStep) /\ WF_vars(WorkerStep) /\ WF_vars(ControlStep)
    /\ \A v \in VM : WF_vars(TaskStep(v))

FairSpec == Spec /\ Fairness

-----------------------------------------------------------------------------
(***************************************************************************)
(* Safety.                                                                 *)
(***************************************************************************)
(***************************************************************************)
(* No frame is forwarded with root privileges, nor for part of a batch:    *)
(* while any VM's proxy runs, PrivDrop has succeeded and every VM of the   *)
(* batch has had its proxy (initialize, ProxyHandle::run).                 *)
(***************************************************************************)
ForwardingIsActivated ==
    (\E v \in VM : tasks[v] = "Running") =>
        /\ ~ privileged
        /\ \A w \in 1 .. batch : tasks[w] \notin {"None", "AwaitProxy"}

(***************************************************************************)
(* Whoever crashes, fails or is cancelled, a vmnet interface that is up    *)
(* belongs to the worker or to a task that will finalize it (the transfer  *)
(* in initialize, the cleanup in ProxyHandle::run).                        *)
(***************************************************************************)
InterfacesOwned ==
    \A v \in VM : interfaces[v] = "Up" =>
        \/ worker = "Building" /\ sent < v /\ v <= built
        \/ tasks[v] \in {"AwaitStart", "Running", "Cleanup"}

(***************************************************************************)
(* The process exits with nothing behind: every interface is stopped, the  *)
(* worker, the control task and every proxy task are joined (shutdown).    *)
(***************************************************************************)
CleanExit ==
    pc = "Exited" =>
        /\ \A v \in VM : interfaces[v] # "Up"
        /\ ~ WorkerRunning /\ control = "None" /\ NoTasks

(***************************************************************************)
(* A VM task is never gone when its proxy is transferred, not even after   *)
(* SIGINT has cancelled initialize: the ensure! in the worker cannot fail. *)
(***************************************************************************)
TransfersSucceed ==
    worker = "Building" => \A v \in 1 .. batch : sent < v => tasks[v] = "AwaitProxy"

(***************************************************************************)
(* The send of a policy command never waits: a task that still receives    *)
(* has room in its channel (ProxyHandle::request, mpsc::channel(1)).       *)
(***************************************************************************)
SendNeverWaits == (pc = "Sending" /\ Receiving(target)) => commands[target] = "None"

(***************************************************************************)
(* A failed proxy or a failed cleanup is the process's failure, whenever   *)
(* and by whom it is reaped (reap_task, shutdown, try_main).               *)
(***************************************************************************)
FailureReported ==
    (pc = "Exited" /\ \E v \in VM : results[v] = "Error") => status # "Ok"

(***************************************************************************)
(* A client that reads its socket hears of a failed activation before      *)
(* shutdown aborts the control task (dispatch, the biased select of        *)
(* Control::run).                                                          *)
(***************************************************************************)
ActivationFailureHeard ==
    (pc \in ShutdownPhase /\ status = "ActivationFailed" /\ ~ cli /\ client = "Reading") => answered

(***************************************************************************)
(* Liveness.                                                               *)
(***************************************************************************)
\* Shutdown terminates, whatever state SIGINT or a failure found the tasks in,
\* even if the client has stopped reading
ShutdownTerminates == pc = "JoinControl" ~> pc = "Exited"

\* Once every VM has disconnected the process exits, even if control stays connected (run)
ExitsAfterLastVm == (initialized /\ connected \cap (1 .. batch) = {}) ~> pc = "Exited"

\* A call is answered or abandoned: the control task never waits forever for the
\* manager, nor the manager for a proxy (dispatch, finish_control)
CallsComplete == control = "Waiting" ~> control # "Waiting"

=============================================================================
