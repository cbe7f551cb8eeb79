-------------------------- MODULE ControlTransport --------------------------
(***************************************************************************)
(* lib/control_transport.rs: requests are lines on a stream socket, and    *)
(* the descriptors of a request are attached to the segment that holds its *)
(* first byte.  A receive returns bytes of one segment only.               *)
(***************************************************************************)
EXTENDS Integers, Sequences

CONSTANTS
    READ_BUFFER_BYTES, MAX_REQUEST_BYTES, MAX_FRAME_FDS,
    Segments,        \* what the client may send: bytes, and how many descriptors
    MaxSegments      \* bound on the segments that it sends

ASSUME TransportAssumption ==
    /\ READ_BUFFER_BYTES \in Nat \ {0}
    /\ MAX_REQUEST_BYTES \in Nat
    /\ MAX_FRAME_FDS \in Nat
    /\ MaxSegments \in Nat
    /\ \A s \in Segments : s.bytes \in Seq(STRING) /\ s.count \in Nat

\* A byte is "nl", "bad" (never part of UTF-8) or one that Control gives a meaning
Newline == "nl"

VARIABLES
    sent,            \* every segment that the client has sent
    stream,          \* what is left of them in the socket
    ended,           \* the client has shut down its sending side
    buffered,        \* bytes read beyond the last frame's newline
    next,            \* the call of next: "Idle", "Receiving" or "Ended"
    input, fds, frame_error,        \* its locals
    next_index,      \* how far its LinesCodec has searched input
    frames           \* the frames that it has returned

client_side == <<sent, ended>>
locals == <<input, fds, frame_error, next_index>>
transport == <<sent, stream, ended, buffered, next, locals, frames>>

TransportInit ==
    /\ sent = <<>> /\ stream = <<>> /\ ended = FALSE
    /\ buffered = <<>> /\ next = "Idle"
    /\ input = <<>> /\ fds = <<>> /\ frame_error = "None" /\ next_index = 0
    /\ frames = <<>>

-----------------------------------------------------------------------------
(***************************************************************************)
(* The client.  Descriptors are numbered by segment and place.             *)
(***************************************************************************)
SendSegment(s) ==
    LET attached == [i \in 1 .. s.count |-> <<Len(sent) + 1, i>>]
        segment == [bytes |-> s.bytes, fds |-> attached]
    IN  /\ ~ ended /\ Len(sent) < MaxSegments
        /\ sent' = Append(sent, segment)
        /\ stream' = Append(stream, segment)
        /\ UNCHANGED <<ended, buffered, next, locals, frames>>

CloseSending ==
    /\ ~ ended
    /\ ended' = TRUE
    /\ UNCHANGED <<sent, stream, buffered, next, locals, frames>>

-----------------------------------------------------------------------------
(***************************************************************************)
(* ControlTransport::next.                                                 *)
(***************************************************************************)
Smaller(m, n) == IF m <= n THEN m ELSE n

\* Mutant: the search resumes one byte too late
Mut_decode(bytes, index) ==
    LET searched == IF index = 0 THEN 1 ELSE index + 2
    IN  IF \E i \in searched .. Len(bytes) : bytes[i] = Newline
        THEN CHOOSE i \in searched .. Len(bytes) :
                bytes[i] = Newline /\ \A j \in searched .. i - 1 : bytes[j] # Newline
        ELSE 0

\* LinesCodec::decode: the place of the first newline that it has not searched
\* past, or 0
decode(bytes, index) ==
    IF \E i \in index + 1 .. Len(bytes) : bytes[i] = Newline
    THEN CHOOSE i \in index + 1 .. Len(bytes) :
            bytes[i] = Newline /\ \A j \in index + 1 .. i - 1 : bytes[j] # Newline
    ELSE 0

Utf8(bytes) == \A i \in 1 .. Len(bytes) : bytes[i] # "bad"

\* next returns or is dropped: its locals, and the descriptors among them, go
DropLocals ==
    /\ input' = <<>> /\ fds' = <<>> /\ frame_error' = "None" /\ next_index' = 0

\* The frame ends at newline
ReturnFrame(bytes, newline, owned, error) ==
    LET line == SubSeq(bytes, 1, newline - 1)
        failed == error = "Some" \/ ~ Utf8(line)
    IN  /\ frames' = Append(frames, [line  |-> IF failed THEN <<>> ELSE line,
                                     error |-> IF failed THEN "Some" ELSE "None",
                                     fds   |-> IF failed THEN <<>> ELSE owned])
        /\ buffered' = SubSeq(bytes, newline + 1, Len(bytes))
        /\ next' = "Idle"
        /\ DropLocals

\* Mutant: the data of an invalid frame are kept up to its newline
Mut_AwaitBytes_Keep(bytes, owned, error) ==
    /\ input' = bytes /\ fds' = owned
    /\ next_index' = Len(bytes)
    /\ frame_error' = error
    /\ next' = "Receiving"
    /\ buffered' = <<>>
    /\ UNCHANGED frames

\* No newline yet.  Of an invalid frame only the fact that it is one remains.
AwaitBytes(bytes, owned, error) ==
    /\ input' = IF error = "Some" THEN <<>> ELSE bytes
    /\ fds' = IF error = "Some" THEN <<>> ELSE owned
    /\ next_index' = IF error = "Some" THEN 0 ELSE Len(bytes)
    /\ frame_error' = error
    /\ next' = "Receiving"
    /\ buffered' = <<>>
    /\ UNCHANGED frames

\* The body of the loop until it awaits or returns
Turn(bytes, owned, error, index) ==
    LET newline == decode(bytes, index)
        length == IF newline # 0 THEN newline - 1 ELSE Len(bytes)
        checked == IF length > MAX_REQUEST_BYTES THEN "Some" ELSE error
    IN  IF newline # 0 THEN ReturnFrame(bytes, newline, owned, checked)
                       ELSE AwaitBytes(bytes, owned, checked)

\* A call of next, which resumes with the bytes left by the last
CallNext ==
    /\ next = "Idle"
    /\ Turn(buffered, <<>>, "None", 0)
    /\ UNCHANGED <<sent, stream, ended>>

\* The segment's bytes beyond the read buffer remain; descriptors beyond one
\* more than a frame may have are lost
Received(segment) ==
    [bytes |-> SubSeq(segment.bytes, 1, Smaller(READ_BUFFER_BYTES, Len(segment.bytes))),
     fds   |-> SubSeq(segment.fds, 1, Smaller(MAX_FRAME_FDS + 1, Len(segment.fds)))]

Unreceived(segments) ==
    LET segment == Head(segments)
    IN  IF Len(segment.bytes) > READ_BUFFER_BYTES
        THEN <<[bytes |-> SubSeq(segment.bytes, READ_BUFFER_BYTES + 1, Len(segment.bytes)),
                fds   |-> <<>>]>> \o Tail(segments)
        ELSE Tail(segments)

\* Mutant: descriptors may come with any bytes of a frame
Mut_CheckFds(received) ==
    IF received # <<>> /\ Len(received) > MAX_FRAME_FDS THEN "Some" ELSE frame_error

\* Descriptors only with the first bytes of a frame, and not too many of them
CheckFds(received) ==
    IF received # <<>> /\ (input # <<>> \/ frame_error = "Some" \/ Len(received) > MAX_FRAME_FDS)
    THEN "Some" ELSE frame_error

\* recv_fds_into returns some bytes
Receive ==
    /\ next = "Receiving" /\ stream # <<>>
    /\ LET got == Received(Head(stream))
       IN  /\ got.bytes # <<>>
           /\ Turn(input \o got.bytes, fds \o got.fds, CheckFds(got.fds), next_index)
    /\ stream' = Unreceived(stream)
    /\ UNCHANGED client_side

\* recv_fds_into returns no bytes, at the end of the stream or for a segment
\* without any.  The bytes of an unfinished frame are discarded.
EndOfStream ==
    /\ next = "Receiving"
    /\ IF stream = <<>> THEN ended ELSE Head(stream).bytes = <<>>
    /\ next' = "Ended"
    /\ DropLocals
    /\ UNCHANGED <<sent, stream, ended, buffered, frames>>

\* The future of next is dropped while it awaits, or recv_fds_into fails
DropNext ==
    /\ next = "Receiving"
    /\ next' = "Ended"
    /\ DropLocals
    /\ UNCHANGED <<sent, stream, ended, buffered, frames>>
=============================================================================
