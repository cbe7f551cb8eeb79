------------------------------ MODULE Control ------------------------------
(***************************************************************************)
(* lib/control.rs over ControlTransport: the control task serves one       *)
(* request at a time and answers each with one line.  The manager and the  *)
(* client are reduced to what the task can notice of them; Manager models  *)
(* the other side of the calls channel.                                    *)
(***************************************************************************)
EXTENDS ControlTransport

MAX_VMS == MAX_FRAME_FDS

VARIABLES
    control,         \* where the task awaits
    result,          \* what it returns
    call,            \* the request in hand, then in the calls channel, or NoRequest
    replied,         \* its reply channel: "None", "Pending", "Result", "Error" or "Dropped"
    closed,          \* the manager has closed the calls channel
    vms,             \* the sockets of the VMs that the manager has accepted
    client,          \* "Reading", "Stalled" or "Gone"
    wire             \* the responses written: [answer, whole]

task == <<control, result, call, replied, wire>>
manager == <<closed, vms>>
vars == <<transport, task, manager, client>>

NoRequest == [op |-> "None", fds |-> <<>>]
Invalid == [op |-> "Invalid", fds |-> <<>>]

Init ==
    /\ TransportInit
    /\ control = "Reading" /\ result = "None"
    /\ call = NoRequest /\ replied = "None"
    /\ closed = FALSE /\ vms = <<>>
    /\ client = "Reading" /\ wire = <<>>

-----------------------------------------------------------------------------
(***************************************************************************)
(* Control::parse.  "v" is a VM of an initialize request, "p" a policy     *)
(* request; every other line is not a valid request.                       *)
(***************************************************************************)
IsInitialize(line) == line # <<>> /\ \A i \in 1 .. Len(line) : line[i] = "v"
IsPolicy(line) == line = <<"p">>

\* Mutant: VMs and descriptors are paired without comparing their numbers
Mut_parse_initialize(frame) ==
    LET pairs == Smaller(Len(frame.line), Len(frame.fds))
    IN  IF Len(frame.line) > MAX_VMS THEN Invalid
        ELSE [op |-> "Initialize", fds |-> SubSeq(frame.fds, 1, pairs)]

parse_initialize(frame) ==
    IF Len(frame.line) > MAX_VMS \/ Len(frame.fds) # Len(frame.line) THEN Invalid
    ELSE [op |-> "Initialize", fds |-> frame.fds]

\* The descriptors of any other request are closed
parse_method(frame) ==
    IF IsInitialize(frame.line) THEN parse_initialize(frame)
    ELSE IF IsPolicy(frame.line) THEN [op |-> "Policy", fds |-> <<>>]
    ELSE Invalid

parse(frame) == IF frame.error = "Some" THEN Invalid ELSE parse_method(frame)

-----------------------------------------------------------------------------
(***************************************************************************)
(* Control::run.                                                           *)
(***************************************************************************)
Return(value) ==
    /\ control' = "Done" /\ result' = value
    /\ call' = NoRequest
    /\ UNCHANGED <<replied, wire>>

\* next is polled; a frame that it returns is parsed at once
ReadFrame ==
    /\ control = "Reading"
    /\ CallNext \/ Receive
    /\ IF Len(frames') = Len(frames)
       THEN UNCHANGED task
       ELSE LET request == parse(frames'[Len(frames')])
            IN  /\ call' = request
                /\ control' = IF request = Invalid THEN "Responding" ELSE "Sending"
                /\ UNCHANGED <<result, replied, wire>>
    /\ UNCHANGED <<manager, client>>

\* Ok(None)
ReadNothing ==
    /\ control = "Reading" /\ EndOfStream
    /\ Return("Ok")
    /\ UNCHANGED <<manager, client>>

\* recv_fds_into fails
ReadFails ==
    /\ control = "Reading" /\ DropNext
    /\ Return("Err")
    /\ UNCHANGED <<manager, client>>

\* The other branch of the select, which drops next
ReadCancelled ==
    /\ control = "Reading" /\ closed
    /\ IF next = "Receiving" THEN DropNext ELSE UNCHANGED transport
    /\ Return("Ok")
    /\ UNCHANGED <<manager, client>>

SendCall ==
    /\ control = "Sending"
    /\ IF closed THEN Return("Ok")
       ELSE /\ control' = "Awaiting"
            /\ replied' = "Pending"
            /\ UNCHANGED <<result, call, wire>>
    /\ UNCHANGED <<transport, manager, client>>

ReceiveReply ==
    /\ control = "Awaiting" /\ replied # "Pending"
    /\ IF replied = "Dropped" THEN Return("Ok")
       ELSE /\ control' = "Responding"
            /\ UNCHANGED <<result, call, replied, wire>>
    /\ UNCHANGED <<transport, manager, client>>

\* Mutant: a canceled write does not end the task
Mut_CancelWrite ==
    /\ control \in {"Responding", "Writing"} /\ closed /\ client = "Stalled"
    /\ control' = "Reading"
    /\ UNCHANGED <<transport, manager, client, result, call, replied, wire>>

\* A write that cannot proceed gives way to the closed channel
CancelWrite ==
    /\ control \in {"Responding", "Writing"} /\ closed /\ client = "Stalled"
    /\ Return("Ok")
    /\ UNCHANGED <<transport, manager, client>>

WriteFails ==
    /\ control \in {"Responding", "Writing"} /\ client = "Gone"
    /\ Return("Err")
    /\ UNCHANGED <<transport, manager, client>>

\* ControlTransport::send: the response, or some of it
WriteResponse ==
    /\ control = "Responding" /\ client = "Reading"
    /\ control' = "Writing"
    /\ wire' = Append(wire, [answer |-> IF call = Invalid THEN "Error" ELSE replied,
                             whole  |-> FALSE])
    /\ UNCHANGED <<transport, manager, client, result, call, replied>>

\* The rest of it and the newline
WriteNewline ==
    /\ control = "Writing" /\ client = "Reading"
    /\ control' = "Reading"
    /\ wire' = [wire EXCEPT ![Len(wire)].whole = TRUE]
    /\ call' = NoRequest /\ replied' = "None"
    /\ UNCHANGED <<transport, manager, client, result>>

TaskStep ==
    \/ ReadFrame \/ ReadNothing \/ ReadCancelled
    \/ SendCall \/ ReceiveReply
    \/ WriteResponse \/ WriteNewline \/ CancelWrite \/ WriteFails

-----------------------------------------------------------------------------
(***************************************************************************)
(* The manager: it answers the call, drops its reply channel or closes the *)
(* channel.  It accepts one initialize request.                            *)
(***************************************************************************)
Answer(answer) ==
    /\ control = "Awaiting" /\ replied = "Pending" /\ ~ closed
    /\ replied' = answer
    /\ vms' = IF call.op = "Initialize" /\ answer = "Result" THEN call.fds ELSE vms
    /\ call.op = "Initialize" /\ vms # <<>> => answer # "Result"
    /\ UNCHANGED <<transport, control, result, call, wire, closed, client>>

CloseCalls ==
    /\ ~ closed
    /\ closed' = TRUE
    /\ replied' = IF replied = "Pending" THEN "Dropped" ELSE replied
    /\ UNCHANGED <<transport, control, result, call, wire, vms, client>>

ManagerAnswers == \E answer \in {"Result", "Error", "Dropped"} : Answer(answer)

-----------------------------------------------------------------------------
(***************************************************************************)
(* The client.                                                             *)
(***************************************************************************)
ClientSends ==
    /\ client # "Gone"
    /\ (\E s \in Segments : SendSegment(s)) \/ CloseSending
    /\ UNCHANGED <<task, manager, client>>

Stall ==
    /\ client = "Reading"
    /\ client' = "Stalled"
    /\ UNCHANGED <<transport, task, manager>>

Disconnect ==
    /\ client # "Gone"
    /\ client' = "Gone"
    /\ ended' = TRUE
    /\ UNCHANGED <<sent, stream, buffered, next, locals, frames, task, manager>>

Terminated == control = "Done" /\ UNCHANGED vars

\* What the others do while the task runs; nothing hears of it afterwards
Environment ==
    /\ control # "Done"
    /\ ManagerAnswers \/ CloseCalls \/ ClientSends \/ Stall \/ Disconnect

Next == TaskStep \/ ReadFails \/ Environment \/ Terminated

\* The runtime polls the task whenever it can proceed, and the manager answers
\* or drops every call (CallsComplete of Manager)
Spec == Init /\ [][Next]_vars /\ WF_vars(TaskStep) /\ WF_vars(ManagerAnswers)

-----------------------------------------------------------------------------
Descriptors == (Nat \ {0}) \X (Nat \ {0})
Byte == STRING
Segment == [bytes: Seq(Byte), fds: Seq(Descriptors)]
Frame == [line: Seq(Byte), error: {"None", "Some"}, fds: Seq(Descriptors)]

(***************************************************************************)
(* The decoder has searched exactly the bytes that next holds, and found   *)
(* no newline in them.  LinesCodec slices its input at the place where it  *)
(* stopped: a place beyond the input is a panic, an earlier one repeats    *)
(* the search, a newline behind it is never found.                         *)
(***************************************************************************)
DecoderInStep ==
    next = "Receiving" =>
        next_index = Len(input) /\ \A i \in 1 .. Len(input) : input[i] # Newline

(***************************************************************************)
(* However long a line is and however many descriptors come with it, next  *)
(* holds no more than one valid request while it waits for more.           *)
(***************************************************************************)
MemoryBounded ==
    /\ Len(input) <= MAX_REQUEST_BYTES /\ Len(fds) <= MAX_FRAME_FDS
    /\ Len(buffered) < READ_BUFFER_BYTES
    /\ Len(vms) <= MAX_VMS

(***************************************************************************)
(* Every frame has one response, in the order of the frames, and nothing   *)
(* follows a response that was cut short.  A frame that the transport      *)
(* rejected is answered with an error.                                     *)
(***************************************************************************)
ResponsesFollowFrames ==
    /\ \/ control \in {"Reading", "Writing", "Done"} /\ Len(wire) = Len(frames)
       \/ control \in {"Sending", "Awaiting", "Responding", "Done"} /\ Len(wire) + 1 = Len(frames)
    /\ \A i \in 1 .. Len(wire) :
         /\ wire[i].whole \/ (i = Len(wire) /\ control \in {"Writing", "Done"})
         /\ frames[i].error = "Some" => wire[i].answer = "Error"
=============================================================================
