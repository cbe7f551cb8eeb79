--------------------------- MODULE ManagerProofs ---------------------------
(***************************************************************************)
(* Activation, ownership of interfaces and exit, for batches of any size.  *)
(*                                                                         *)
(* None of these is inductive.  That a running proxy is an activated one   *)
(* rests on where the worker is while the start senders are held; that the *)
(* exit is clean, on who owns an interface in between; that failures are   *)
(* reported, on what has been joined when.  IInv adds these facts.         *)
(***************************************************************************)
EXTENDS Manager, TLAPS

TaskState == {"None", "AwaitProxy", "AwaitStart", "Running", "Cleanup", "Finished", "Reaped"}

Types ==
    /\ tasks \in [VM -> TaskState]
    /\ results \in [VM -> {"Ok", "Error"}]
    /\ interfaces \in [VM -> {"None", "Up", "Stopped"}]
    /\ batch \in 0 .. MAX_VMS /\ built \in 0 .. batch /\ sent \in 0 .. built

\* Before the accepted Initialize nothing exists
Pristine ==
    (~ initialized /\ pc \in {"Start", "Select", "Sending", "AwaitAck"}) =>
        /\ batch = 0 /\ built = 0 /\ sent = 0 /\ worker = "None" /\ start = "None"
        /\ \A v \in VM : tasks[v] = "None" /\ results[v] = "Ok" /\ interfaces[v] = "None"

\* The worker outlives initialize only in shutdown, and never sees forwarding begin
WorkerPlace ==
    /\ worker # "None" =>
          /\ pc \in {"Initializing", "JoinControl", "JoinWorker"}
          /\ start \in {"Held", "Dropped"}
    /\ pc = "Initializing" => start = "Held" /\ worker # "None"
    /\ initialized => start = "Sent"

WorkerProgress ==
    /\ worker = "Network" => built = 0 /\ sent = 0
    /\ sent > 0 => built = batch
    /\ worker = "Succeeded" => sent = batch
    /\ WorkerRunning => \A v \in 1 .. batch : sent < v => tasks[v] = "AwaitProxy"
    /\ \A v \in 1 .. sent : tasks[v] \notin {"None", "AwaitProxy"}

Activation ==
    /\ start = "Sent" => ~ privileged /\ sent = batch
    /\ \A v \in VM : tasks[v] = "Running" => start = "Sent"

\* What the phases of shutdown have already joined
Joined ==
    /\ pc \in {"JoinWorker", "JoinTasks", "Exited"} => control = "None"
    /\ pc \in {"JoinTasks", "Exited"} => worker = "None"
    /\ pc = "Exited" => NoTasks

\* A failure that has been reaped decides the status, and ends the run
Failures ==
    \A v \in VM :
        /\ tasks[v] = "Reaped" /\ results[v] = "Error" => pc \in ShutdownPhase /\ status # "Ok"
        /\ tasks[v] \in {"None", "AwaitProxy"} => results[v] = "Ok"

IInv ==
    /\ Types /\ Pristine /\ WorkerPlace /\ WorkerProgress
    /\ Activation /\ InterfacesOwned /\ Joined /\ Failures

-----------------------------------------------------------------------------
\* The state that the invariant speaks of
relevant == <<pc, status, start, initialized, privileged, batch, tasks, results, interfaces,
              worker, built, sent, control>>

\* Before anything runs, the invariant holds
LEMMA InitOK == Init => IInv
BY ManagerAssumption
DEF Init, IInv, Types, TaskState, Pristine, WorkerPlace, WorkerProgress, Activation, InterfacesOwned,
    Joined, Failures, VM, WorkerRunning

\* Steps that leave that state alone preserve it
LEMMA StutterOK == IInv /\ UNCHANGED relevant => IInv'
BY DEF IInv, Types, Pristine, WorkerPlace, WorkerProgress, Activation, InterfacesOwned, Joined,
       Failures, NoTasks, WorkerRunning, relevant

\* The control task, until it is joined
LEMMA ControlOK == IInv /\ (ControlStep \/ ControlEvent) => IInv'
<1> SUFFICES ASSUME IInv, ControlStep \/ ControlEvent PROVE IInv'
  OBVIOUS
<1>1. UNCHANGED <<pc, status, start, setup, proxies, building>>
  BY DEF ControlStep, ControlEvent
<1>2. control # "None" \/ UNCHANGED control
  BY DEF ControlStep, ControlEvent, StopReading, SendCall, ReceiveReply, WriteResponse, Cancel,
         ReceiveFrame, ClientEvent
<1> QED
  BY <1>1, <1>2
  DEF IInv, Types, Pristine, WorkerPlace, WorkerProgress, Activation, InterfacesOwned, Joined,
      Failures, NoTasks, WorkerRunning, setup, proxies, building

\* The blocking worker
LEMMA WorkerOK == IInv /\ WorkerStep => IInv'
<1> SUFFICES ASSUME IInv, WorkerStep PROVE IInv'
  OBVIOUS
<1> USE ManagerAssumption
    DEF IInv, Types, TaskState, Pristine, WorkerPlace, WorkerProgress, Activation, InterfacesOwned,
        Joined, Failures, NoTasks, WorkerRunning, future, setup, proxies, controlling, VM
<1>1. CASE CreateNetwork
  BY <1>1 DEF CreateNetwork
<1>2. ASSUME UNCHANGED <<cli, future, target, setup, handles, controlling>>, BuildProxy
      PROVE  IInv'
  <2>1. CASE built' = built + 1
    <3>1. /\ built < batch /\ worker = "Building" /\ sent \in 0 .. built /\ built + 1 \in VM
          /\ interfaces' = [interfaces EXCEPT ![built + 1] = "Up"]
          /\ UNCHANGED <<worker, sent, tasks, results>>
      BY <1>2, <2>1 DEF BuildProxy
    <3>2. sent = 0
      BY <3>1
    <3>3. InterfacesOwned'
      BY <2>1, <3>1
    <3> QED
      BY <1>2, <2>1, <3>1, <3>2, <3>3
  <2>2. CASE UNCHANGED built
    BY <1>2, <2>2 DEF BuildProxy
  <2> QED
    BY <1>2, <2>1, <2>2 DEF BuildProxy
<1>3. ASSUME UNCHANGED <<cli, future, target, setup, handles, controlling>>, TransferProxy
      PROVE  IInv'
  BY <1>3 DEF TransferProxy
<1>4. ASSUME UNCHANGED <<cli, future, target, setup, handles, controlling>>, WorkerReturns
      PROVE  IInv'
  BY <1>4 DEF WorkerReturns
<1> QED
  BY <1>1, <1>2, <1>3, <1>4 DEF WorkerStep

\* The proxy tasks and what happens to their VMs
LEMMA TaskOK == ASSUME IInv, NEW v \in VM, TaskStep(v) \/ VmEvent(v) PROVE IInv'
<1>1. UNCHANGED <<cli, future, target, setup, handles, building, controlling>>
  BY DEF TaskStep, VmEvent
<1> USE ManagerAssumption
    DEF IInv, Types, TaskState, Pristine, WorkerPlace, WorkerProgress, Activation, InterfacesOwned,
        Joined, Failures, NoTasks, WorkerRunning, future, setup, building, controlling, VM
<1>2. CASE ProxyDropped(v)
  BY <1>1, <1>2 DEF ProxyDropped
<1>3. CASE AwaitStart(v)
  BY <1>1, <1>3 DEF AwaitStart
<1>4. CASE ServeCommand(v)
  BY <1>1, <1>4 DEF ServeCommand
<1>5. ASSUME NEW result \in {"Ok", "Error"}, StopRunning(v, result) PROVE IInv'
  BY <1>1, <1>5 DEF StopRunning
<1>6. CASE Cleanup(v)
  BY <1>1, <1>6 DEF Cleanup
<1>7. CASE Disconnect(v)
  BY <1>1, <1>7 DEF Disconnect
<1> QED
  BY <1>2, <1>3, <1>4, <1>5, <1>6, <1>7 DEF TaskStep, VmEvent, VmGone, HandleGone, RunFails

\* The manager's future, and SIGINT
LEMMA ManagerOK == IInv /\ (ManagerStep \/ Interrupt) => IInv'
<1> SUFFICES ASSUME IInv, ManagerStep \/ Interrupt PROVE IInv'
  OBVIOUS
<1> USE ManagerAssumption
    DEF IInv, Types, TaskState, Pristine, WorkerPlace, WorkerProgress, Activation, InterfacesOwned,
        Joined, Failures, NoTasks, WorkerRunning, ShutdownPhase, future, setup, proxies, building,
        controlling, VM
<1>1. CASE Begin
  BY <1>1 DEF Begin, RejectInitialize, AcceptInitialize, EnterShutdown, Await
<1>2. CASE FinishInitialize
  <2>1. CASE ActivationFailed
    BY <1>2, <2>1 DEF FinishInitialize, ActivationFailed, EnterShutdown
  <2>2. CASE worker = "Succeeded" /\ Activated
    BY <1>2, <2>2 DEF FinishInitialize, Activated
  <2> QED
    BY <1>2, <2>1, <2>2 DEF FinishInitialize
<1>3. ASSUME NEW v \in VM, ReapTask(v) PROVE IInv'
  <2>1. CASE results[v] = "Error"
    BY <1>3, <2>1 DEF ReapTask, EnterShutdown
  <2>2. CASE results[v] # "Error"
    BY <1>3, <2>2 DEF ReapTask, FinishControl, Await
  <2> QED
    BY <2>1, <2>2
<1>4. ASSUME NEW v \in VM, JoinTask(v) PROVE IInv'
  BY <1>4 DEF JoinTask, Advance, FirstFailure
<1>5. CASE ReapControl
  BY <1>5 DEF ReapControl
<1>6. CASE Dispatch
  <2>1. CASE AcceptInitialize(call.vms)
    BY <1>6, <2>1 DEF Dispatch, AcceptInitialize
  <2>2. CASE UNCHANGED <<setup, handles, proxies, building>> /\ pc' \in {"Select", "Sending"}
    BY <1>6, <2>2 DEF Dispatch, Respond, AcceptInitialize
  <2> QED
    BY <1>6, <2>1, <2>2 DEF Dispatch, RejectInitialize, Respond
<1>7. CASE SendCommand
  BY <1>7 DEF SendCommand, Await, Respond
<1>8. CASE ReceiveAck
  BY <1>8 DEF ReceiveAck, Respond
<1>9. CASE NothingLeft
  BY <1>9 DEF NothingLeft, FinishControl
<1>10. CASE RunReturns
  BY <1>10 DEF RunReturns, EnterShutdown
<1>11. CASE CloseHandles
  BY <1>11 DEF CloseHandles, Advance
<1>12. CASE JoinWorker
  BY <1>12 DEF JoinWorker, Advance, FirstFailure
<1>13. CASE Exit
  BY <1>13 DEF Exit, Advance
<1>14. CASE Interrupt
  BY <1>14 DEF Interrupt, EnterShutdown
<1> QED
  BY <1>1, <1>2, <1>3, <1>4, <1>5, <1>6, <1>7, <1>8, <1>9, <1>10, <1>11, <1>12, <1>13, <1>14
  DEF ManagerStep

\* Every step of every actor preserves the invariant
LEMMA NextOK == IInv /\ [Next]_vars => IInv'
<1> SUFFICES ASSUME IInv, [Next]_vars PROVE IInv'
  OBVIOUS
<1>1. CASE Terminated \/ UNCHANGED vars
  BY <1>1, StutterOK
  DEF Terminated, vars, relevant, future, setup, proxies, building, controlling
<1> QED
  BY <1>1, ManagerOK, WorkerOK, TaskOK, ControlOK DEF Next

\* The inductive invariant holds in every reachable state, for every MAX_VMS
LEMMA Invariance == Spec => []IInv
BY InitOK, NextOK, PTL DEF Spec

-----------------------------------------------------------------------------
(***************************************************************************)
(* No proxy forwards before PrivDrop has succeeded and every VM of the     *)
(* batch has its proxy (the start signals of initialize), for batches of   *)
(* any size.                                                               *)
(***************************************************************************)
THEOREM ActivationIsAtomic == Spec => []ForwardingIsActivated
<1>1. IInv => ForwardingIsActivated
  BY ManagerAssumption
  DEF IInv, Types, Activation, WorkerProgress, ForwardingIsActivated, VM
<1> QED
  BY <1>1, Invariance, PTL

\* An interface that is up always has an owner that will stop it (the transfer of
\* proxies in initialize, the cleanup of ProxyHandle::run)
THEOREM Ownership == Spec => []InterfacesOwned
<1>1. IInv => InterfacesOwned
  BY DEF IInv
<1> QED
  BY <1>1, Invariance, PTL

\* Whatever SIGINT or a failure interrupted, shutdown leaves nothing behind
THEOREM ExitIsClean == Spec => []CleanExit
<1>1. IInv => CleanExit
  BY DEF IInv, Joined, InterfacesOwned, CleanExit, NoTasks, WorkerRunning
<1> QED
  BY <1>1, Invariance, PTL

\* The ensure! of the worker holds: every task is there to take its proxy
THEOREM TransfersNeverFail == Spec => []TransfersSucceed
<1>1. IInv => TransfersSucceed
  BY DEF IInv, WorkerProgress, WorkerRunning, TransfersSucceed
<1> QED
  BY <1>1, Invariance, PTL

\* No failure of a proxy or of its cleanup is lost by reap_task or shutdown
THEOREM FailuresSurface == Spec => []FailureReported
<1>1. IInv => FailureReported
  BY DEF IInv, Types, TaskState, Joined, Failures, NoTasks, FailureReported, VM
<1> QED
  BY <1>1, Invariance, PTL

-----------------------------------------------------------------------------
(***************************************************************************)
(* Policy commands.  The manager serves one call at a time, so that only   *)
(* the command it awaits can be queued, and only unacknowledged.           *)
(***************************************************************************)
CommandInv ==
    /\ commands \in [VM -> {"None", "Queued"}]
    /\ handles \subseteq VM
    /\ pc = "Sending" => target \in VM
    /\ pc \in {"Start", "Initializing", "Select", "Sending", "Finishing"} =>
          \A v \in VM : commands[v] = "None"
    /\ pc = "AwaitAck" =>
          \A v \in VM : commands[v] = "Queued" => v = target /\ ack = "Pending"

\* The manager's own steps: only ProxyHandle::request queues a command
LEMMA ManagerCommands == CommandInv /\ (ManagerStep \/ Interrupt) => CommandInv'
<1> SUFFICES ASSUME CommandInv, ManagerStep \/ Interrupt PROVE CommandInv'
  OBVIOUS
<1> USE DEF CommandInv, future, setup, proxies, building, controlling
<1>1. CASE Begin
  <2>1. CASE AcceptInitialize(1)
    BY <1>1, <2>1, ManagerAssumption DEF Begin, AcceptInitialize, VM
  <2>2. CASE UNCHANGED <<handles, commands>> /\ pc' \in {"Select", "JoinControl"}
    BY <1>1, <2>2 DEF Begin
  <2> QED
    BY <1>1, <2>1, <2>2 DEF Begin, RejectInitialize, EnterShutdown, Await
<1>2. CASE FinishInitialize
  BY <1>2 DEF FinishInitialize, ActivationFailed, Activated, EnterShutdown
<1>3. ASSUME NEW v \in VM, ReapTask(v) PROVE CommandInv'
  BY <1>3 DEF ReapTask, EnterShutdown, FinishControl, Await
<1>4. ASSUME NEW v \in VM, JoinTask(v) PROVE CommandInv'
  BY <1>4 DEF JoinTask, Advance
<1>5. CASE ReapControl
  BY <1>5 DEF ReapControl
<1>6. CASE Dispatch
  <2>1. CASE AcceptInitialize(call.vms)
    BY <1>6, <2>1, ManagerAssumption DEF Dispatch, AcceptInitialize, VM
  <2>2. CASE UNCHANGED <<handles, commands>> /\ pc' = "Select"
    BY <1>6, <2>2 DEF Dispatch
  <2>3. CASE UNCHANGED <<handles, commands>> /\ pc' = "Sending" /\ target' \in handles
    BY <1>6, <2>3 DEF Dispatch
  <2> QED
    BY <1>6, <2>1, <2>2, <2>3 DEF Dispatch, RejectInitialize, Respond
<1>7. CASE SendCommand
  BY <1>7 DEF SendCommand, Await, Respond
<1>8. CASE ReceiveAck
  BY <1>8 DEF ReceiveAck, Respond
<1>9. CASE NothingLeft
  BY <1>9 DEF NothingLeft, FinishControl
<1>10. CASE RunReturns \/ Interrupt
  BY <1>10 DEF RunReturns, Interrupt, EnterShutdown
<1>11. CASE CloseHandles \/ JoinWorker \/ Exit
  BY <1>11 DEF CloseHandles, JoinWorker, Exit, Advance
<1> QED
  BY <1>1, <1>2, <1>3, <1>4, <1>5, <1>6, <1>7, <1>8, <1>9, <1>10, <1>11 DEF ManagerStep

\* The other actors: a proxy takes its command or drops it, and never adds one
LEMMA CommandsOK == CommandInv /\ [Next]_vars => CommandInv'
<1> SUFFICES ASSUME CommandInv, [Next]_vars PROVE CommandInv'
  OBVIOUS
<1> USE DEF CommandInv, future, setup, proxies, building, controlling
<1>1. CASE WorkerStep
  BY <1>1 DEF WorkerStep, CreateNetwork, BuildProxy, TransferProxy, WorkerReturns
<1>2. ASSUME NEW v \in VM, TaskStep(v) \/ VmEvent(v) PROVE CommandInv'
  <2>1. UNCHANGED <<pc, target, handles>>
    BY <1>2 DEF TaskStep, VmEvent
  <2>2. \/ UNCHANGED <<commands, ack>>
        \/ /\ commands' = [commands EXCEPT ![v] = "None"]
           /\ commands[v] # "Queued" => UNCHANGED ack
    BY <1>2 DEF TaskStep, VmEvent, ProxyDropped, AwaitStart, ServeCommand, VmGone, HandleGone,
                RunFails, StopRunning, Cleanup, Disconnect
  <2> QED
    BY <2>1, <2>2
<1>3. CASE ControlStep \/ ControlEvent
  BY <1>3 DEF ControlStep, ControlEvent
<1>4. CASE Terminated \/ UNCHANGED vars
  BY <1>4 DEF Terminated, vars
<1> QED
  BY <1>1, <1>2, <1>3, <1>4, ManagerCommands DEF Next

\* ProxyHandle::request never waits for room in the command channel, for batches of any size
THEOREM RoomForCommand == Spec => []SendNeverWaits
<1>1. Init => CommandInv
  BY DEF Init, CommandInv
<1>2. CommandInv => SendNeverWaits
  BY DEF CommandInv, SendNeverWaits
<1> QED
  BY <1>1, <1>2, CommandsOK, PTL DEF Spec

-----------------------------------------------------------------------------
(***************************************************************************)
(* The reply to a failed activation.  While a call is being served the     *)
(* control task waits for its reply, nothing aborts it before the run has  *)
(* ended, and the run ends only once that task has written what it got.    *)
(***************************************************************************)
AwaitsReply == control = "Waiting" /\ reply = "Pending"

ReplyInv ==
    /\ aborted => pc \in ShutdownPhase
    /\ pc \in {"Finishing"} \cup ShutdownPhase => closed /\ call = NoCall
    /\ call # NoCall => AwaitsReply
    /\ pc \in {"Sending", "AwaitAck"} => AwaitsReply
    /\ pc = "Initializing" /\ ~ cli => AwaitsReply /\ call = NoCall
    /\ status = "ActivationFailed" => pc \in {"Finishing"} \cup ShutdownPhase
    /\ (pc = "Finishing" /\ status = "ActivationFailed" /\ ~ cli /\ client = "Reading") =>
          answered \/ control = "Writing" \/ (control = "Waiting" /\ reply = "Error")
    /\ ActivationFailureHeard

\* The manager's steps: dispatch answers the call in hand before it takes another
LEMMA ManagerReplies == ReplyInv /\ (ManagerStep \/ Interrupt) => ReplyInv'
<1> SUFFICES ASSUME ReplyInv, ManagerStep \/ Interrupt PROVE ReplyInv'
  OBVIOUS
<1> USE DEF ReplyInv, AwaitsReply, ActivationFailureHeard, ShutdownPhase, CloseCalls, controlling
<1>1. CASE Begin
  BY <1>1 DEF Begin, AcceptInitialize, EnterShutdown, Await
<1>2. CASE FinishInitialize
  <2>1. CASE Activated
    BY <1>2, <2>1 DEF FinishInitialize, Activated
  <2>2. CASE ActivationFailed /\ cli
    BY <1>2, <2>2 DEF FinishInitialize, ActivationFailed, EnterShutdown
  <2>3. CASE ActivationFailed /\ ~ cli
    BY <1>2, <2>3 DEF FinishInitialize, ActivationFailed
  <2> QED
    BY <1>2, <2>1, <2>2, <2>3 DEF FinishInitialize
<1>3. ASSUME NEW v \in VM, ReapTask(v) PROVE ReplyInv'
  BY <1>3 DEF ReapTask, EnterShutdown, FinishControl, Await
<1>4. ASSUME NEW v \in VM, JoinTask(v) PROVE ReplyInv'
  BY <1>4 DEF JoinTask, Advance, FirstFailure
<1>5. CASE ReapControl
  BY <1>5 DEF ReapControl
<1>6. CASE Dispatch
  BY <1>6 DEF Dispatch, AcceptInitialize, Respond
<1>7. CASE SendCommand
  BY <1>7 DEF SendCommand, Await, Respond
<1>8. CASE ReceiveAck
  BY <1>8 DEF ReceiveAck, Respond
<1>9. CASE NothingLeft
  BY <1>9 DEF NothingLeft, FinishControl
<1>10. CASE RunReturns
  BY <1>10 DEF RunReturns, ControlJoined, EnterShutdown
<1>11. CASE Interrupt
  BY <1>11 DEF Interrupt, EnterShutdown
<1>12. CASE CloseHandles \/ JoinWorker \/ Exit
  BY <1>12 DEF CloseHandles, JoinWorker, Exit, Advance, FirstFailure
<1> QED
  BY <1>1, <1>2, <1>3, <1>4, <1>5, <1>6, <1>7, <1>8, <1>9, <1>10, <1>11, <1>12 DEF ManagerStep

\* The control task's: it sends no call before it has the reply to the last, and the
\* biased select prefers a write that can proceed
LEMMA RepliesOK == ReplyInv /\ [Next]_vars => ReplyInv'
<1> SUFFICES ASSUME ReplyInv, [Next]_vars PROVE ReplyInv'
  OBVIOUS
<1> USE DEF ReplyInv, AwaitsReply, ActivationFailureHeard, ShutdownPhase, future, controlling
<1>1. CASE WorkerStep
  BY <1>1 DEF WorkerStep, CreateNetwork
<1>2. ASSUME NEW v \in VM, TaskStep(v) \/ VmEvent(v) PROVE ReplyInv'
  BY <1>2 DEF TaskStep, VmEvent
<1>3. CASE ControlStep
  <2>1. CASE StopReading
    BY <1>3, <2>1 DEF ControlStep, StopReading
  <2>2. CASE SendCall
    BY <1>3, <2>2 DEF ControlStep, SendCall
  <2>3. CASE ReceiveReply
    BY <1>3, <2>3 DEF ControlStep, ReceiveReply
  <2>4. CASE WriteResponse
    BY <1>3, <2>4 DEF ControlStep, WriteResponse
  <2>5. CASE Cancel
    BY <1>3, <2>5 DEF ControlStep, Cancel
  <2> QED
    BY <1>3, <2>1, <2>2, <2>3, <2>4, <2>5 DEF ControlStep
<1>4. CASE ControlEvent
  BY <1>4 DEF ControlEvent, ReceiveFrame, ClientEvent
<1>5. CASE Terminated \/ UNCHANGED vars
  BY <1>5 DEF Terminated, vars
<1> QED
  BY <1>1, <1>2, <1>3, <1>4, <1>5, ManagerReplies DEF Next

\* A client that reads its socket hears of a failed activation before shutdown aborts
\* the control task, for batches and frames of any number (dispatch, Control::run)
THEOREM FailedActivationAnswered == Spec => []ActivationFailureHeard
<1>1. Init => ReplyInv
  BY DEF Init, ReplyInv, AwaitsReply, ActivationFailureHeard, ShutdownPhase
<1>2. ReplyInv => ActivationFailureHeard
  BY DEF ReplyInv
<1> QED
  BY <1>1, <1>2, RepliesOK, PTL DEF Spec

=============================================================================
