----------------------------- MODULE MCControl -----------------------------
(***************************************************************************)
(* Control for TLC, and what a stream of segments means, defined without   *)
(* buffers: the reference for the frames that the transport returns.       *)
(***************************************************************************)
EXTENDS Control, SequencesExt

\* Whole and partial requests, two pipelined ones, an oversized line, and
\* descriptors in every place where they are and are not allowed
MCSegments ==
    {[bytes |-> <<"v", Newline>>, count |-> n] : n \in {0, 1}}
    \cup {[bytes |-> <<"v", "v", Newline>>, count |-> n] : n \in {2, 3}}
    \cup {[bytes |-> b, count |-> 1] :
            b \in {<<"v">>, <<Newline>>, <<"p", Newline, "v">>, <<"x", "x", "x">>,
                   <<"bad", Newline>>, <<>>}}

-----------------------------------------------------------------------------
\* Each byte with the descriptors attached to it: those of its segment, if it is
\* the first.  A segment without bytes ends the stream.
Attached(segment) ==
    [i \in 1 .. Len(segment.bytes) |->
        [byte |-> segment.bytes[i], fds |-> IF i = 1 THEN segment.fds ELSE <<>>]]

Delivered == SelectInSeq(sent, LAMBDA s : s.bytes = <<>>)

Stream ==
    FlattenSeq([i \in 1 .. (IF Delivered = 0 THEN Len(sent) ELSE Delivered - 1) |->
                    Attached(sent[i])])

\* The line between two newlines is a request if it is short enough, is UTF-8, and
\* has all its descriptors, not too many, on its first byte
FrameBetween(bytes, before, newline) ==
    LET line == SubSeq(bytes, before + 1, newline - 1)
        valid == /\ Len(line) <= MAX_REQUEST_BYTES
                 /\ \A i \in DOMAIN line : line[i].byte # "bad"
                 /\ \A i \in before + 2 .. newline : bytes[i].fds = <<>>
                 /\ Len(bytes[before + 1].fds) <= MAX_FRAME_FDS
    IN  IF valid
        THEN [line  |-> [i \in DOMAIN line |-> line[i].byte],
              error |-> "None",
              fds   |-> bytes[before + 1].fds]
        ELSE [line |-> <<>>, error |-> "Some", fds |-> <<>>]

ReferenceFrames ==
    LET bytes == Stream
        places == [i \in DOMAIN bytes |-> i]
        newlines == <<0>> \o SelectSeq(places, LAMBDA i : bytes[i].byte = Newline)
    IN  [k \in 1 .. Len(newlines) - 1 |-> FrameBetween(bytes, newlines[k], newlines[k + 1])]

(***************************************************************************)
(* However the stream is cut into segments and reads, next returns the     *)
(* lines of the stream, each with the descriptors of its first byte, and   *)
(* what is wrong with one line has no effect on another.                   *)
(***************************************************************************)
FramesAreLines == IsPrefix(frames, ReferenceFrames)

(***************************************************************************)
(* The VMs that the manager accepts have the sockets that the client       *)
(* attached to their own request, one for each VM and in the same order;   *)
(* no initialize request is accepted without VMs.                          *)
(***************************************************************************)
SocketsMatchVms ==
    LET reference == ReferenceFrames
        batches == {k \in DOMAIN reference : IsInitialize(reference[k].line)}
    IN  /\ vms = <<>> => \A k \in batches \cap DOMAIN wire : wire[k].answer = "Error"
        /\ vms # <<>> => \E k \in batches : /\ vms = reference[k].fds
                                           /\ Len(vms) = Len(reference[k].line)

(***************************************************************************)
(* Every line that the client completes is answered, unless the client     *)
(* stops reading or the task ends.                                         *)
(***************************************************************************)
RequestsAnswered ==
    []<>( \/ Len(wire) = Len(ReferenceFrames) /\ \A k \in DOMAIN wire : wire[k].whole
          \/ client # "Reading" \/ control = "Done" )
=============================================================================
