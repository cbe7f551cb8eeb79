--------------------------- MODULE ServerProofs -----------------------------
(***************************************************************************)
(* What answers requests: the control socket, and the DHCP and DNS servers *)
(* of the gateway.  They share no state: each section has its own          *)
(* specification and inductive invariant.                                  *)
(***************************************************************************)
EXTENDS Control, Dhcp, Dns, WellFoundedInduction, TLAPS

-----------------------------------------------------------------------------
(***************************************************************************)
(* The DHCP exchange, for every address and for a client that gives up any *)
(* number of times.  The inductive invariant says what may be on its way:  *)
(* what the server hands out, that no datagram belongs to an exchange that *)
(* has not begun, and that the requests of the current exchange ask for    *)
(* the address that the client wants now.                                  *)
(***************************************************************************)

\* The address that the client asks for
Asked == IF state \in Configured THEN addr ELSE remembered

Datagrams ==
    \A q \in requests :
        q = [src |-> q.src, dst |-> q.dst, intact |-> q.intact, message |-> q.message]

Grants ==
    \A r \in replies : r.message.msg_type \in {"Offer", "Ack"} =>
        r.message.yiaddr = vm_ip /\ r.message.server_id = gateway_ip

NothingFromTheFuture ==
    /\ xid \in Nat
    /\ \A q \in requests : q.message.xid \in Nat /\ q.message.xid <= xid
    /\ \A r \in replies : r.message.xid \in Nat /\ r.message.xid <= xid

CurrentRequests ==
    \A q \in requests : q.message.xid = xid =>
        /\ state = "Selecting" => q.message.msg_type = "Discover"
        /\ state \in Waiting /\ q.message.msg_type = "Request" =>
              ValidatedAddress(q.message) \in {None, Asked}

CurrentRefusals ==
    \A r \in replies : r.message.xid = xid /\ r.message.msg_type = "Nak" =>
        /\ state # "Selecting"
        /\ state \in Waiting => Asked # vm_ip

DhcpInv ==
    /\ Datagrams /\ Grants /\ NothingFromTheFuture
    /\ CurrentRequests /\ CurrentRefusals
    /\ LeasesAreReservations

(***************************************************************************)
(* What the server answers: an OFFER or an ACK is for its own address, and *)
(* a NAK answers a REQUEST for another (receive, address_reply, reply).    *)
(***************************************************************************)
LEMMA ReceiveFacts ==
    ASSUME NEW m, receive(m) # NoReply
    PROVE  /\ receive(m).xid = m.xid
           /\ receive(m).msg_type \in {"Offer", "Ack"} =>
                 receive(m).yiaddr = vm_ip /\ receive(m).server_id = gateway_ip
           /\ receive(m).msg_type = "Nak" =>
                 m.msg_type = "Request" /\ ValidatedAddress(m) \notin {None, vm_ip}
<1> DEFINE a == ValidatedAddress(m)
<1>1. CASE receive(m) = address_reply(m, "Offer")
  BY <1>1 DEF address_reply, reply
<1>2. CASE receive(m) = address_reply(m, "Ack")
  BY <1>2 DEF address_reply, reply
<1>3. CASE receive(m) = reply(m, "Nak") /\ m.msg_type = "Request" /\ a # None /\ a # vm_ip
  BY <1>3 DEF reply
<1> QED
  BY <1>1, <1>2, <1>3 DEF receive, receive_request

\* What the client sends asks for the address that it wants, in its own exchange
LEMMA RequestFacts ==
    /\ Request.message.xid = xid
    /\ state = "Selecting" => Request.message.msg_type = "Discover"
    /\ state \in Waiting => ValidatedAddress(Request.message) \in {None, Asked}
<1>1. Request.message.xid = xid /\ (state = "Selecting" => Request.message.msg_type = "Discover")
  BY DEF Request
<1>2. CASE state \in {"Requesting", "Rebooting"}
  BY <1>2 DEF Request, ValidatedAddress, Asked, Configured, None
<1>3. CASE state \in {"Renewing", "Rebinding"}
  BY <1>3 DEF Request, ValidatedAddress, Asked, Configured, None
<1> QED
  BY <1>1, <1>2, <1>3 DEF Waiting

\* A reply leaves for a request that was sent, and keeps to it
LEMMA ServePreserves ==
    ASSUME DhcpInv, NEW q \in requests, NEW intact \in {"Yes", "No"}, Serve(q, intact)
    PROVE  DhcpInv'
<1> DEFINE datagram == [q EXCEPT !.intact = intact]
<1>1. UNCHANGED <<state, addr, lease, server, remembered, xid, requests>>
  BY DEF Serve, dhcpClient
<1>2. ASSUME NEW r \in replies' \ replies
      PROVE  receive(datagram.message) # NoReply /\ r.message = receive(datagram.message)
  BY <1>2 DEF Serve, receive_vm
<1>3. datagram.message = q.message
  BY DEF DhcpInv, Datagrams
<1>4. ASSUME NEW r \in replies'
      PROVE  \/ r \in replies
             \/ /\ r.message.xid = q.message.xid
                /\ r.message.msg_type \in {"Offer", "Ack"} =>
                      r.message.yiaddr = vm_ip /\ r.message.server_id = gateway_ip
                /\ r.message.msg_type = "Nak" =>
                      /\ q.message.msg_type = "Request"
                      /\ ValidatedAddress(q.message) \notin {None, vm_ip}
  BY <1>2, <1>3, ReceiveFacts
<1>5. Grants'
  BY <1>4 DEF DhcpInv, Grants
<1>6. NothingFromTheFuture'
  BY <1>1, <1>4 DEF DhcpInv, NothingFromTheFuture
<1>7. CurrentRefusals'
  <2> SUFFICES ASSUME NEW r \in replies', r.message.xid = xid, r.message.msg_type = "Nak"
               PROVE  state # "Selecting" /\ (state \in Waiting => Asked # vm_ip)
    BY <1>1 DEF CurrentRefusals, Asked
  <2>1. CASE r \in replies
    BY <2>1 DEF DhcpInv, CurrentRefusals
  <2>2. CASE r \notin replies
    BY <2>2, <1>4 DEF DhcpInv, CurrentRequests
  <2> QED
    BY <2>1, <2>2
<1> QED
  BY <1>1, <1>5, <1>6, <1>7 DEF DhcpInv, Datagrams, CurrentRequests, LeasesAreReservations, Asked

\* What the client hears moves it on, but not to another address or exchange
LEMMA DeliverPreserves ==
    ASSUME DhcpInv, Deliver
    PROVE  DhcpInv'
<1> PICK r \in replies : Hears(r) /\ (TakeOffer(r) \/ TakeAck(r) \/ TakeNak(r))
  BY DEF Deliver
<1>1. UNCHANGED <<xid, requests, replies>>
  BY DEF Deliver, TakeOffer, TakeAck, TakeNak
<1>2. Datagrams' /\ Grants' /\ NothingFromTheFuture'
  BY <1>1 DEF DhcpInv, Datagrams, Grants, NothingFromTheFuture
<1>3. CASE TakeOffer(r)
  <2>1. state = "Selecting" /\ state' = "Requesting"
    BY <1>3 DEF TakeOffer
  <2>2. CurrentRequests' /\ CurrentRefusals'
    BY <1>1, <2>1 DEF DhcpInv, CurrentRequests, CurrentRefusals
  <2>3. LeasesAreReservations'
    BY <1>3 DEF DhcpInv, Grants, LeasesAreReservations, TakeOffer
  <2> QED
    BY <1>2, <2>2, <2>3 DEF DhcpInv
<1>4. CASE TakeAck(r) \/ TakeNak(r)
  <2>1. state' \in {"Bound", "Init"}
    BY <1>4 DEF TakeAck, TakeNak, Forget
  <2>2. CurrentRequests' /\ CurrentRefusals'
    BY <2>1 DEF CurrentRequests, CurrentRefusals, Waiting
  <2>3. LeasesAreReservations'
    BY <1>4 DEF DhcpInv, Grants, LeasesAreReservations, TakeAck, TakeNak, Forget, None
  <2> QED
    BY <1>2, <2>2, <2>3 DEF DhcpInv
<1> QED
  BY <1>3, <1>4

\* A new exchange has nothing on its way
LEMMA BeginPreserves ==
    ASSUME DhcpInv, NEW from, NEW to, Begin(from, to)
    PROVE  DhcpInv'
<1>1. xid' = xid + 1 /\ UNCHANGED <<addr, lease, server, requests, replies>>
  BY DEF Begin
<1>2. Datagrams' /\ Grants' /\ NothingFromTheFuture'
  BY <1>1 DEF DhcpInv, Datagrams, Grants, NothingFromTheFuture
<1>3. CurrentRequests' /\ CurrentRefusals'
  BY <1>1 DEF DhcpInv, NothingFromTheFuture, CurrentRequests, CurrentRefusals
<1> QED
  BY <1>1, <1>2, <1>3 DEF DhcpInv, LeasesAreReservations

\* Every step of the client, the network and the server preserves the invariant
LEMMA DhcpInductive == DhcpInv /\ [DhcpNext]_dhcpVars => DhcpInv'
<1> SUFFICES ASSUME DhcpInv, [DhcpNext]_dhcpVars PROVE DhcpInv'
  OBVIOUS
<1>1. CASE Discover \/ Reboot \/ Renew \/ Rebind
  BY <1>1, BeginPreserves DEF Discover, Reboot, Renew, Rebind
<1>2. CASE GiveUp
  <2>1. state' = "Init" /\ lease' = None /\ UNCHANGED <<xid, requests, replies>>
    BY <1>2 DEF GiveUp, Forget
  <2> QED
    BY <2>1 DEF DhcpInv, Datagrams, Grants, NothingFromTheFuture, CurrentRequests, CurrentRefusals,
       LeasesAreReservations, Waiting, None
<1>3. CASE Transmit
  <2>1. UNCHANGED <<state, addr, lease, server, remembered, xid, replies>>
        /\ requests' = requests \cup {Request}
    BY <1>3 DEF Transmit, dhcpClient
  <2>2. Request = [src |-> Request.src, dst |-> Request.dst, intact |-> Request.intact,
                   message |-> Request.message]
    BY DEF Request
  <2>3. Datagrams'
    BY <2>1, <2>2 DEF DhcpInv, Datagrams
  <2>4. NothingFromTheFuture'
    BY <2>1, RequestFacts DEF DhcpInv, NothingFromTheFuture
  <2>5. CurrentRequests'
    <3> SUFFICES ASSUME NEW q \in requests', q.message.xid = xid
                 PROVE  /\ state = "Selecting" => q.message.msg_type = "Discover"
                        /\ state \in Waiting /\ q.message.msg_type = "Request" =>
                              ValidatedAddress(q.message) \in {None, Asked}
      BY <2>1 DEF CurrentRequests, Asked
    <3> QED
      BY <2>1, RequestFacts DEF DhcpInv, CurrentRequests
  <2> QED
    BY <2>1, <2>3, <2>4, <2>5
       DEF DhcpInv, Grants, CurrentRefusals, LeasesAreReservations, Asked
<1>4. CASE Deliver
  BY <1>4, DeliverPreserves
<1>5. CASE \E r \in requests, intact \in {"Yes", "No"} : Serve(r, intact)
  BY <1>5, ServePreserves
<1>6. CASE UNCHANGED dhcpVars
  BY <1>6 DEF DhcpInv, Datagrams, Grants, NothingFromTheFuture, CurrentRequests, CurrentRefusals,
     LeasesAreReservations, Asked, dhcpVars, dhcpClient
<1> QED
  BY <1>1, <1>2, <1>3, <1>4, <1>5, <1>6 DEF DhcpNext, KeepsLease

\* The invariant holds however the VM comes
LEMMA DhcpInvariance == DhcpSpec => []DhcpInv
<1>1. DhcpInit => DhcpInv
  BY DEF DhcpInit, DhcpInv, Datagrams, Grants, NothingFromTheFuture, CurrentRequests, CurrentRefusals,
     LeasesAreReservations, None
<1> QED
  BY <1>1, DhcpInductive, PTL DEF DhcpSpec

(***************************************************************************)
(* A lease of this server is for the reserved address (address_reply).     *)
(***************************************************************************)
THEOREM OnlyReservations == DhcpSpec => []LeasesAreReservations
BY DhcpInvariance, PTL DEF DhcpInv

(***************************************************************************)
(* Only a client that asks for an obsolete address is refused: late and    *)
(* repeated datagrams take the reserved address from nobody (receive).     *)
(***************************************************************************)
THEOREM RefusalsAreDeserved == DhcpSpec => []RefusedOnlyIfObsolete
<1>1. DhcpInv => RefusedOnlyIfObsolete
  BY DEF DhcpInv, CurrentRefusals, RefusedOnlyIfObsolete, Hears, Asked
<1> QED
  BY <1>1, DhcpInvariance, PTL

-----------------------------------------------------------------------------
(***************************************************************************)
(* The control task and its transport, for requests, buffers and numbers   *)
(* of descriptors of every size.                                           *)
(***************************************************************************)

\* A nonempty set of natural numbers has a least member
LEMMA LeastMember ==
    ASSUME NEW T \in SUBSET Nat, T # {}
    PROVE  \E x \in T : \A y \in T : x <= y
<1> DEFINE R == {ss \in Nat \X Nat : ss[1] < ss[2]}
<1>1. IsWellFoundedOn(R, Nat)
  BY NatLessThanWellFounded DEF OpToRel
<1> HIDE DEF R
<1>2. PICK x \in T : \A y \in T : ~ (<<y, x>> \in R)
  BY <1>1, WFMin
<1>3. ASSUME NEW y \in T PROVE x <= y
  <2>1. x \in Nat /\ y \in Nat
    OBVIOUS
  <2>2. <<y, x>> \in Nat \X Nat /\ <<y, x>>[1] = y /\ <<y, x>>[2] = x
    BY <2>1
  <2>3. ~ (y < x)
    BY <1>2, <2>2 DEF R
  <2> QED
    BY <2>1, <2>3
<1> QED
  BY <1>3

\* decode finds the first newline that it has not searched past
LEMMA DecodeFacts ==
    ASSUME NEW bytes \in Seq(STRING), NEW index \in Nat
    PROVE  \/ /\ decode(bytes, index) = 0
              /\ \A i \in index + 1 .. Len(bytes) : bytes[i] # Newline
           \/ decode(bytes, index) \in index + 1 .. Len(bytes)
<1>1. CASE \E i \in index + 1 .. Len(bytes) : bytes[i] = Newline
  <2> DEFINE T == {i \in index + 1 .. Len(bytes) : bytes[i] = Newline}
  <2>1. T \in SUBSET Nat /\ T # {}
    BY <1>1
  <2>2. PICK x \in T : \A y \in T : x <= y
    BY <2>1, LeastMember
  <2>3. /\ x \in index + 1 .. Len(bytes) /\ bytes[x] = Newline
        /\ \A j \in index + 1 .. x - 1 : bytes[j] # Newline
    BY <2>2
  <2> QED
    BY <1>1, <2>3 DEF decode
<1>2. CASE ~ \E i \in index + 1 .. Len(bytes) : bytes[i] = Newline
  BY <1>2 DEF decode
<1> QED
  BY <1>1, <1>2

-----------------------------------------------------------------------------
(***************************************************************************)
(* The transport.  Held says what next keeps while it waits: besides the   *)
(* two properties, that descriptors are there only with bytes of their     *)
(* frame.                                                                  *)
(***************************************************************************)
Held ==
    /\ input \in Seq(STRING) /\ fds \in Seq(Descriptors) /\ buffered \in Seq(STRING)
    /\ next_index \in Nat /\ frame_error \in {"None", "Some"}
    /\ DecoderInStep
    /\ Len(input) <= MAX_REQUEST_BYTES /\ Len(fds) <= MAX_FRAME_FDS
    /\ Len(buffered) < READ_BUFFER_BYTES
    /\ input = <<>> => fds = <<>>

Sending == sent \in Seq(Segment) /\ stream \in Seq(Segment)

\* No bytes and no descriptors are within every bound
LEMMA EmptyIsSmall ==
    /\ <<>> \in Seq(STRING) /\ <<>> \in Seq(Descriptors)
    /\ Len(<<>>) = 0 /\ 0 < READ_BUFFER_BYTES /\ 0 <= MAX_REQUEST_BYTES /\ 0 <= MAX_FRAME_FDS
BY TransportAssumption

\* What a turn of the loop in next leaves behind, whatever it has received
LEMMA TurnFacts ==
    ASSUME frames \in Seq(Frame),
           NEW bytes \in Seq(STRING), NEW owned \in Seq(Descriptors),
           NEW error \in {"None", "Some"}, NEW index \in Nat, index <= Len(bytes),
           \A i \in 1 .. index : bytes[i] # Newline,
           Len(bytes) <= index + READ_BUFFER_BYTES,
           bytes = <<>> => owned = <<>>,
           error = "Some" \/ Len(owned) <= MAX_FRAME_FDS,
           Turn(bytes, owned, error, index)
    PROVE  /\ Held'
           /\ frames' = frames \/ \E f \in Frame : frames' = Append(frames, f)
<1> DEFINE newline == decode(bytes, index)
           length == IF newline # 0 THEN newline - 1 ELSE Len(bytes)
           checked == IF length > MAX_REQUEST_BYTES THEN "Some" ELSE error
<1>1. CASE newline # 0
  <2>1. newline \in index + 1 .. Len(bytes)
    BY <1>1, DecodeFacts
  <2>2. ReturnFrame(bytes, newline, owned, checked)
    BY <1>1 DEF Turn
  <2> DEFINE line == SubSeq(bytes, 1, newline - 1)
             failed == checked = "Some" \/ ~ Utf8(line)
             f == [line  |-> IF failed THEN <<>> ELSE line,
                   error |-> IF failed THEN "Some" ELSE "None",
                   fds   |-> IF failed THEN <<>> ELSE owned]
  <2>3. line \in Seq(STRING)
    <3>1. \A i \in 1 .. newline - 1 : bytes[i] \in STRING
      BY <2>1
    <3> QED
      BY <2>1, <3>1
  <2>4. f \in Frame
    <3> HIDE DEF line, failed
    <3>1. CASE failed
      BY <3>1 DEF Frame, Byte
    <3>2. CASE ~ failed
      BY <2>3, <3>2 DEF Frame, Byte
    <3> QED
      BY <3>1, <3>2
  <2>5. frames' = Append(frames, f)
    BY <2>2 DEF ReturnFrame
  <2>6. /\ SubSeq(bytes, newline + 1, Len(bytes)) \in Seq(STRING)
        /\ Len(SubSeq(bytes, newline + 1, Len(bytes))) < READ_BUFFER_BYTES
    <3>1. \A i \in newline + 1 .. Len(bytes) : bytes[i] \in STRING
      BY <2>1
    <3>2. newline + 1 \in Int /\ Len(bytes) \in Int
      BY <2>1
    <3>3. /\ SubSeq(bytes, newline + 1, Len(bytes)) \in Seq(STRING)
          /\ Len(SubSeq(bytes, newline + 1, Len(bytes)))
                = IF newline + 1 <= Len(bytes) THEN Len(bytes) - (newline + 1) + 1 ELSE 0
      BY <3>1, <3>2
    <3>4. /\ newline \in Nat /\ Len(bytes) \in Nat /\ READ_BUFFER_BYTES \in Nat \ {0}
          /\ Len(bytes) < newline + READ_BUFFER_BYTES
      BY <2>1, TransportAssumption
    <3> HIDE DEF newline
    <3> QED
      BY ONLY <3>3, <3>4
  <2>7. Held'
    BY <2>2, <2>6, TransportAssumption DEF ReturnFrame, DropLocals, Held, DecoderInStep
  <2> HIDE DEF f
  <2> QED
    BY <2>4, <2>5, <2>7
<1>2. CASE newline = 0
  <2>1. AwaitBytes(bytes, owned, checked)
    BY <1>2 DEF Turn
  <2>2. \A i \in 1 .. Len(bytes) : bytes[i] # Newline
    BY <1>2, DecodeFacts
  <2>3. frames' = frames
    BY <2>1 DEF AwaitBytes
  <2>4. CASE checked = "Some"
    <3> HIDE DEF checked
    <3>1. /\ input' = <<>> /\ fds' = <<>> /\ next_index' = 0
          /\ frame_error' = "Some" /\ buffered' = <<>>
      BY <2>1, <2>4 DEF AwaitBytes
    <3> QED
      BY <2>3, <3>1, EmptyIsSmall DEF Held, DecoderInStep
  <2>5. CASE checked # "Some"
    <3>1. checked = error /\ error = "None" /\ Len(bytes) <= MAX_REQUEST_BYTES
      BY <1>2, <2>5, TransportAssumption
    <3>2. /\ input' = bytes /\ fds' = owned /\ next_index' = Len(bytes)
          /\ frame_error' = "None" /\ buffered' = <<>>
      BY <2>1, <3>1 DEF AwaitBytes
    <3>3. DecoderInStep'
      BY <2>2, <3>2 DEF DecoderInStep
    <3>4. fds' \in Seq(Descriptors) /\ Len(fds') <= MAX_FRAME_FDS /\ (input' = <<>> => fds' = <<>>)
      BY <3>1, <3>2
    <3>5. input' \in Seq(STRING) /\ Len(input') <= MAX_REQUEST_BYTES /\ next_index' \in Nat
      BY <3>1, <3>2
    <3> HIDE DEF checked, length, newline
    <3> QED
      BY <2>3, <3>2, <3>3, <3>4, <3>5, EmptyIsSmall DEF Held
  <2> QED
    BY <2>3, <2>4, <2>5
<1> QED
  BY <1>1, <1>2

\* What a receive takes from the stream, and what it leaves there
LEMMA ReceivedFacts ==
    ASSUME Sending, stream # <<>>
    PROVE  /\ Received(Head(stream)).bytes \in Seq(STRING)
           /\ Received(Head(stream)).fds \in Seq(Descriptors)
           /\ Len(Received(Head(stream)).bytes) <= READ_BUFFER_BYTES
           /\ Unreceived(stream) \in Seq(Segment)
<1> DEFINE s == Head(stream)
           n == Smaller(READ_BUFFER_BYTES, Len(s.bytes))
           m == Smaller(MAX_FRAME_FDS + 1, Len(s.fds))
<1>1. s \in Segment /\ Tail(stream) \in Seq(Segment)
  BY DEF Sending
<1>2. s.bytes \in Seq(STRING) /\ s.fds \in Seq(Descriptors)
  BY <1>1 DEF Segment, Byte
<1> HIDE DEF s
<1>3. /\ n \in Nat /\ n <= READ_BUFFER_BYTES /\ n <= Len(s.bytes)
      /\ m \in Nat /\ m <= Len(s.fds)
  BY <1>2, TransportAssumption DEF Smaller
<1> HIDE DEF n, m
<1>4. SubSeq(s.bytes, 1, n) \in Seq(STRING) /\ Len(SubSeq(s.bytes, 1, n)) <= READ_BUFFER_BYTES
  <2>1. \A i \in 1 .. n : s.bytes[i] \in STRING
    BY <1>2, <1>3
  <2>2. SubSeq(s.bytes, 1, n) \in Seq(STRING)
        /\ Len(SubSeq(s.bytes, 1, n)) = IF 1 <= n THEN n - 1 + 1 ELSE 0
    BY <1>3, <2>1
  <2> QED
    BY <1>3, <2>2, TransportAssumption
<1>5. SubSeq(s.fds, 1, m) \in Seq(Descriptors)
  <2>1. \A i \in 1 .. m : s.fds[i] \in Descriptors
    BY <1>2, <1>3
  <2> QED
    BY <1>3, <2>1
<1>6. Unreceived(stream) \in Seq(Segment)
  <2>1. CASE Len(s.bytes) > READ_BUFFER_BYTES
    <3> DEFINE rest == SubSeq(s.bytes, READ_BUFFER_BYTES + 1, Len(s.bytes))
    <3>1. \A i \in READ_BUFFER_BYTES + 1 .. Len(s.bytes) : s.bytes[i] \in STRING
      BY <1>2, TransportAssumption
    <3>2. rest \in Seq(STRING)
      BY <1>2, <3>1, TransportAssumption
    <3> HIDE DEF rest
    <3>3. <<[bytes |-> rest, fds |-> <<>>]>> \in Seq(Segment)
      BY <3>2 DEF Segment, Byte
    <3>4. Unreceived(stream) = <<[bytes |-> rest, fds |-> <<>>]>> \o Tail(stream)
      BY <2>1 DEF Unreceived, s, rest
    <3> QED
      BY <1>1, <3>3, <3>4
  <2>2. CASE ~ (Len(s.bytes) > READ_BUFFER_BYTES)
    BY <1>1, <2>2 DEF Unreceived, s
  <2> QED
    BY <2>1, <2>2
<1> QED
  BY <1>4, <1>5, <1>6 DEF Received, s, n, m

\* A call of next, or a receive, keeps to Held and returns one frame at most
LEMMA ReadFacts ==
    ASSUME Held, Sending, frames \in Seq(Frame), CallNext \/ Receive
    PROVE  /\ Held' /\ Sending'
           /\ frames' = frames \/ \E f \in Frame : frames' = Append(frames, f)
<1>1. CASE CallNext
  <2>1. Turn(buffered, <<>>, "None", 0) /\ UNCHANGED <<sent, stream, ended>>
    BY <1>1 DEF CallNext
  <2>2. /\ buffered \in Seq(STRING) /\ Len(buffered) <= 0 + READ_BUFFER_BYTES
        /\ 0 <= Len(buffered) /\ Len(<<>>) <= MAX_FRAME_FDS
        /\ \A i \in 1 .. 0 : buffered[i] # Newline
        /\ <<>> \in Seq(Descriptors)
    BY TransportAssumption DEF Held
  <2>3. Held' /\ (frames' = frames \/ \E f \in Frame : frames' = Append(frames, f))
    BY <2>1, <2>2, TurnFacts
  <2> QED
    BY <2>1, <2>3 DEF Sending
<1>2. CASE Receive
  <2> DEFINE got == Received(Head(stream))
  <2>1. /\ next = "Receiving" /\ got.bytes # <<>>
        /\ Turn(input \o got.bytes, fds \o got.fds, CheckFds(got.fds), next_index)
        /\ stream' = Unreceived(stream) /\ UNCHANGED sent
    BY <1>2 DEF Receive, client_side
  <2>2. /\ got.bytes \in Seq(STRING) /\ got.fds \in Seq(Descriptors)
        /\ Len(got.bytes) <= READ_BUFFER_BYTES /\ Unreceived(stream) \in Seq(Segment)
    BY <1>2, ReceivedFacts DEF Receive
  <2> HIDE DEF got
  <2>3. /\ input \o got.bytes \in Seq(STRING)
        /\ Len(input \o got.bytes) = Len(input) + Len(got.bytes)
        /\ \A i \in 1 .. Len(input) + Len(got.bytes) : (input \o got.bytes)[i] =
              IF i <= Len(input) THEN input[i] ELSE got.bytes[i - Len(input)]
    BY <2>2 DEF Held
  <2>4. fds \o got.fds \in Seq(Descriptors) /\ Len(fds \o got.fds) = Len(fds) + Len(got.fds)
    BY <2>2 DEF Held
  <2>5. next_index = Len(input) /\ \A i \in 1 .. Len(input) : input[i] # Newline
    BY <2>1 DEF Held, DecoderInStep
  <2>6. \A i \in 1 .. next_index : (input \o got.bytes)[i] # Newline
    BY <2>2, <2>3, <2>5 DEF Held
  <2>7. Len(got.bytes) > 0 /\ input \o got.bytes # <<>>
    BY <2>1, <2>2, <2>3 DEF Held
  <2>8. CheckFds(got.fds) \in {"None", "Some"}
    BY DEF CheckFds, Held
  <2>9. CheckFds(got.fds) = "Some" \/ Len(fds \o got.fds) <= MAX_FRAME_FDS
    <3>1. CASE got.fds = <<>>
      BY <2>4, <3>1, TransportAssumption DEF Held
    <3>2. CASE got.fds # <<>> /\ CheckFds(got.fds) # "Some"
      <4>1. input = <<>> /\ ~ (Len(got.fds) > MAX_FRAME_FDS)
        BY <3>2 DEF CheckFds
      <4>2. fds = <<>>
        BY <4>1 DEF Held
      <4> QED
        BY <2>2, <2>4, <4>1, <4>2, TransportAssumption
    <3> QED
      BY <3>1, <3>2
  <2>10. Held' /\ (frames' = frames \/ \E f \in Frame : frames' = Append(frames, f))
    <3>1. /\ next_index \in Nat /\ next_index <= Len(input \o got.bytes)
          /\ Len(input \o got.bytes) <= next_index + READ_BUFFER_BYTES
      BY <2>2, <2>3, <2>5, TransportAssumption DEF Held
    <3> QED
      BY <2>1, <2>3, <2>4, <2>6, <2>7, <2>8, <2>9, <3>1, TurnFacts
  <2> QED
    BY <2>1, <2>2, <2>10 DEF Sending
<1> QED
  BY <1>1, <1>2

-----------------------------------------------------------------------------
(***************************************************************************)
(* The control task.  InHand says what the request in hand has to do with  *)
(* the last frame.                                                         *)
(***************************************************************************)
Response == [answer: {"None", "Pending", "Result", "Error", "Dropped"}, whole: BOOLEAN]

InHand ==
    control \in {"Sending", "Awaiting", "Responding"} =>
        /\ Len(frames) = Len(wire) + 1
        /\ frames[Len(frames)].error = "Some" => call = Invalid

Bounded(request) == request.fds \in Seq(Descriptors) /\ Len(request.fds) <= MAX_VMS

TaskInv ==
    /\ frames \in Seq(Frame) /\ wire \in Seq(Response)
    /\ replied \in {"None", "Pending", "Result", "Error", "Dropped"}
    /\ Bounded(call) /\ vms \in Seq(Descriptors) /\ Len(vms) <= MAX_VMS
    /\ InHand /\ ResponsesFollowFrames

IInv == Held /\ Sending /\ TaskInv

\* A request carries at most one descriptor for each VM
LEMMA ParseFacts ==
    ASSUME NEW f \in Frame
    PROVE  Bounded(parse(f)) /\ (f.error = "Some" => parse(f) = Invalid)
<1>1. Bounded(Invalid) /\ Bounded([op |-> "Policy", fds |-> <<>>])
  BY TransportAssumption DEF Bounded, Invalid, MAX_VMS
<1>2. Bounded(parse_initialize(f))
  <2>1. CASE Len(f.line) > MAX_VMS \/ Len(f.fds) # Len(f.line)
    BY <1>1, <2>1 DEF parse_initialize
  <2>2. CASE ~ (Len(f.line) > MAX_VMS \/ Len(f.fds) # Len(f.line))
    <3>1. f.fds \in Seq(Descriptors) /\ f.line \in Seq(STRING)
      BY DEF Frame, Byte
    <3> QED
      BY <2>2, <3>1, TransportAssumption DEF parse_initialize, Bounded, MAX_VMS
  <2> QED
    BY <2>1, <2>2
<1> QED
  BY <1>1, <1>2 DEF parse, parse_method

\* The steps that neither read nor write leave the frames and the responses alone
LEMMA QuietPreserves ==
    ASSUME TaskInv, UNCHANGED <<frames, wire>>,
           Bounded(call)', vms' \in Seq(Descriptors), Len(vms') <= MAX_VMS,
           replied' \in {"None", "Pending", "Result", "Error", "Dropped"},
           \/ control' = control /\ call' = call
           \/ control' = "Done"
           \/ /\ control = "Sending" /\ control' = "Awaiting" /\ call' = call
           \/ /\ control = "Awaiting" /\ control' = "Responding" /\ call' = call
    PROVE  TaskInv'
<1>1. InHand'
  BY DEF TaskInv, InHand
<1>2. ResponsesFollowFrames'
  BY DEF TaskInv, ResponsesFollowFrames
<1> QED
  BY <1>1, <1>2 DEF TaskInv

\* A frame that arrives is the request in hand
LEMMA ReadFramePreserves ==
    ASSUME IInv, ReadFrame
    PROVE  IInv'
<1>1. Held' /\ Sending' /\ (frames' = frames \/ \E f \in Frame : frames' = Append(frames, f))
  BY ReadFacts DEF IInv, TaskInv, ReadFrame
<1>2. control = "Reading" /\ UNCHANGED <<vms, wire>>
  BY DEF ReadFrame, task, manager
<1>3. CASE frames' = frames
  <2>1. UNCHANGED task
    BY <1>3 DEF ReadFrame
  <2> QED
    BY <1>1, <1>2, <1>3, <2>1, QuietPreserves DEF IInv, TaskInv, Bounded, task
<1>4. ASSUME NEW f \in Frame, frames' = Append(frames, f) PROVE IInv'
  <2>1. /\ frames' \in Seq(Frame) /\ Len(frames') = Len(frames) + 1
        /\ frames'[Len(frames) + 1] = f
        /\ \A i \in 1 .. Len(frames) : frames'[i] = frames[i]
    BY <1>4 DEF IInv, TaskInv
  <2>2. frames \in Seq(Frame) /\ wire \in Seq(Response) /\ Len(frames) = Len(wire)
    BY <1>2 DEF IInv, TaskInv, ResponsesFollowFrames
  <2>3. /\ call' = parse(f) /\ UNCHANGED replied
        /\ control' = IF parse(f) = Invalid THEN "Responding" ELSE "Sending"
    BY <1>4, <2>1, <2>2 DEF ReadFrame
  <2>4. Bounded(call)' /\ (f.error = "Some" => call' = Invalid)
    BY <2>3, ParseFacts DEF Bounded
  <2>5. InHand'
    BY <1>2, <2>1, <2>2, <2>4 DEF InHand
  <2>6. ResponsesFollowFrames'
    <3>1. control' \in {"Sending", "Responding"} /\ Len(wire') + 1 = Len(frames')
      BY <1>2, <2>1, <2>2, <2>3
    <3>2. ASSUME NEW i \in 1 .. Len(wire')
          PROVE  wire'[i].whole /\ (frames'[i].error = "Some" => wire'[i].answer = "Error")
      BY <1>2, <2>1, <2>2 DEF IInv, TaskInv, ResponsesFollowFrames
    <3> QED
      BY <3>1, <3>2 DEF ResponsesFollowFrames
  <2> QED
    BY <1>1, <1>2, <2>1, <2>2, <2>3, <2>4, <2>5, <2>6 DEF IInv, TaskInv
<1> QED
  BY <1>1, <1>3, <1>4

\* A response belongs to the last frame
LEMMA WriteResponsePreserves ==
    ASSUME IInv, WriteResponse
    PROVE  IInv'
<1> DEFINE r == [answer |-> IF call = Invalid THEN "Error" ELSE replied, whole |-> FALSE]
<1>1. /\ control = "Responding" /\ control' = "Writing" /\ wire' = Append(wire, r)
      /\ UNCHANGED <<transport, vms, call, replied>>
  BY DEF WriteResponse, manager
<1>2. frames' = frames /\ Held' /\ Sending'
  BY <1>1 DEF IInv, Held, Sending, DecoderInStep, transport, locals
<1>3. r \in Response /\ wire \in Seq(Response) /\ frames \in Seq(Frame)
  BY DEF IInv, TaskInv, Response
<1>4. call = Invalid => r.answer = "Error"
  OBVIOUS
<1> HIDE DEF r
<1>5. /\ wire' \in Seq(Response) /\ Len(wire') = Len(wire) + 1
      /\ wire'[Len(wire) + 1] = r
      /\ \A i \in 1 .. Len(wire) : wire'[i] = wire[i]
  BY <1>1, <1>3
<1>6. /\ Len(frames) = Len(wire) + 1
      /\ frames[Len(frames)].error = "Some" => call = Invalid
  BY <1>1 DEF IInv, TaskInv, InHand
<1>7. InHand'
  BY <1>1 DEF InHand
<1>8. ResponsesFollowFrames'
  <2>1. ASSUME NEW i \in 1 .. Len(wire')
        PROVE  /\ wire'[i].whole \/ i = Len(wire')
               /\ frames'[i].error = "Some" => wire'[i].answer = "Error"
    <3>1. CASE i = Len(wire) + 1
      BY <1>2, <1>4, <1>5, <1>6, <3>1
    <3>2. CASE i \in 1 .. Len(wire)
      <4>1. wire[i].whole /\ (frames[i].error = "Some" => wire[i].answer = "Error")
        BY <1>1, <3>2 DEF IInv, TaskInv, ResponsesFollowFrames
      <4> QED
        BY <1>2, <1>5, <3>2, <4>1
    <3>3. Len(wire) \in Nat
      BY <1>3
    <3> QED
      BY ONLY <1>5, <2>1, <3>1, <3>2, <3>3
  <2>2. Len(wire') = Len(frames')
    BY <1>2, <1>5, <1>6
  <2> QED
    BY <1>1, <2>1, <2>2 DEF ResponsesFollowFrames
<1> QED
  BY <1>1, <1>2, <1>3, <1>5, <1>7, <1>8 DEF IInv, TaskInv, Bounded

\* A newline completes the last response, and the task reads again
LEMMA WriteNewlinePreserves ==
    ASSUME IInv, WriteNewline
    PROVE  IInv'
<1>1. /\ control = "Writing" /\ control' = "Reading"
      /\ wire' = [wire EXCEPT ![Len(wire)].whole = TRUE]
      /\ call' = NoRequest /\ replied' = "None" /\ UNCHANGED <<transport, vms>>
  BY DEF WriteNewline, manager
<1>2. frames' = frames /\ Held' /\ Sending'
  BY <1>1 DEF IInv, Held, Sending, DecoderInStep, transport, locals
<1>3. wire \in Seq(Response) /\ frames \in Seq(Frame) /\ Len(wire) = Len(frames)
  BY <1>1 DEF IInv, TaskInv, ResponsesFollowFrames
<1>4. /\ wire' \in Seq(Response) /\ Len(wire') = Len(wire)
      /\ \A i \in 1 .. Len(wire) : /\ wire'[i].answer = wire[i].answer
                                   /\ wire'[i].whole = IF i = Len(wire) THEN TRUE ELSE wire[i].whole
  <2>1. \A i \in 1 .. Len(wire) : wire[i] \in Response
    BY <1>3
  <2> DEFINE completed(i) == IF i = Len(wire) THEN [wire[i] EXCEPT !.whole = TRUE] ELSE wire[i]
  <2>2. DOMAIN wire' = 1 .. Len(wire) /\ \A i \in 1 .. Len(wire) : wire'[i] = completed(i)
    <3>1. wire \in [1 .. Len(wire) -> Response]
      BY <1>3
    <3> DEFINE w == [wire[Len(wire)] EXCEPT !.whole = TRUE]
    <3>2. wire' = [wire EXCEPT ![Len(wire)] = w]
      BY <1>1, Zenon
    <3>3. \A i \in 1 .. Len(wire) : completed(i) = IF i = Len(wire) THEN w ELSE wire[i]
      BY Zenon
    <3> HIDE DEF w, completed
    <3> QED
      BY <3>1, <3>2, <3>3
  <2>3. wire' \in [1 .. Len(wire) -> Response]
    <3>1. \A i \in 1 .. Len(wire) : completed(i) \in Response
      BY <2>1 DEF Response
    <3>2. wire' = [i \in 1 .. Len(wire) |-> wire'[i]]
      BY <1>1, <1>3, <2>2
    <3> HIDE DEF completed
    <3> QED
      BY <2>2, <3>1, <3>2
  <2>4. \A i \in 1 .. Len(wire) : /\ wire'[i].answer = wire[i].answer
                                  /\ wire'[i].whole = IF i = Len(wire) THEN TRUE ELSE wire[i].whole
    BY <2>1, <2>2 DEF Response
  <2>5. Len(wire) \in Nat
    BY <1>3
  <2> QED
    <3> HIDE DEF completed
    <3>1. wire' \in Seq(Response) /\ Len(wire') = Len(wire)
      BY <2>3, <2>5
    <3> QED
      BY <2>4, <3>1, Zenon
<1>5. Bounded(call)'
  BY <1>1, TransportAssumption DEF Bounded, NoRequest, MAX_VMS
<1>6. InHand'
  BY <1>1 DEF InHand
<1>7. ResponsesFollowFrames'
  <2>1. ASSUME NEW i \in 1 .. Len(wire')
        PROVE  wire'[i].whole /\ (frames'[i].error = "Some" => wire'[i].answer = "Error")
    BY <1>1, <1>2, <1>4 DEF IInv, TaskInv, ResponsesFollowFrames
  <2> QED
    BY <1>1, <1>2, <1>3, <1>4, <2>1 DEF ResponsesFollowFrames
<1> QED
  BY <1>1, <1>2, <1>3, <1>4, <1>5, <1>6, <1>7 DEF IInv, TaskInv

\* The task returns, and next with it
LEMMA ReturnPreserves ==
    ASSUME IInv, NEW value, Return(value), UNCHANGED vms,
           EndOfStream \/ DropNext \/ UNCHANGED transport
    PROVE  IInv'
<1>1. UNCHANGED <<sent, stream, frames>> /\ Held'
  <2>1. CASE EndOfStream \/ DropNext
    <3>1. /\ UNCHANGED <<sent, stream, buffered, frames>> /\ next' = "Ended"
          /\ input' = <<>> /\ fds' = <<>> /\ frame_error' = "None" /\ next_index' = 0
      BY <2>1 DEF EndOfStream, DropNext, DropLocals
    <3>2. buffered \in Seq(STRING) /\ Len(buffered) < READ_BUFFER_BYTES
      BY DEF IInv, Held
    <3>3. DecoderInStep'
      BY <3>1 DEF DecoderInStep
    <3> QED
      BY <3>1, <3>2, <3>3, EmptyIsSmall DEF Held
  <2>2. CASE UNCHANGED transport
    BY <2>2 DEF IInv, Held, DecoderInStep, transport, locals
  <2> QED
    BY <2>1, <2>2
<1>2. Bounded(call)'
  BY TransportAssumption DEF Return, Bounded, NoRequest, MAX_VMS
<1>3. TaskInv'
  BY <1>1, <1>2, QuietPreserves DEF IInv, TaskInv, Return
<1> QED
  BY <1>1, <1>3 DEF IInv, Sending

\* The client sends a segment or closes its side, which next has yet to notice
LEMMA ClientPreserves ==
    ASSUME IInv, ClientSends \/ Disconnect
    PROVE  IInv'
<1>1. UNCHANGED <<buffered, next, locals, frames, task, manager>>
  BY DEF ClientSends, SendSegment, CloseSending, Disconnect
<1>2. Held'
  BY <1>1 DEF IInv, Held, DecoderInStep, locals
<1>3. TaskInv'
  BY <1>1, QuietPreserves DEF IInv, TaskInv, Bounded, task, manager
<1>4. Sending'
  <2>1. CASE UNCHANGED <<sent, stream>>
    BY <2>1 DEF IInv, Sending
  <2>2. ASSUME NEW s \in Segments, SendSegment(s) PROVE Sending'
    <3> DEFINE attached == [i \in 1 .. s.count |-> <<Len(sent) + 1, i>>]
               segment == [bytes |-> s.bytes, fds |-> attached]
    <3>1. s.bytes \in Seq(STRING) /\ s.count \in Nat
      BY TransportAssumption
    <3>2. sent \in Seq(Segment) /\ stream \in Seq(Segment) /\ Len(sent) + 1 \in Nat \ {0}
      BY DEF IInv, Sending
    <3>3. attached \in Seq(Descriptors)
      <4>1. \A i \in 1 .. s.count : <<Len(sent) + 1, i>> \in Descriptors
        BY <3>1, <3>2 DEF Descriptors
      <4>2. attached \in [1 .. s.count -> Descriptors]
        BY <4>1
      <4> QED
        BY <3>1, <4>2
    <3>4. segment \in Segment
      BY <3>1, <3>3 DEF Segment, Byte
    <3>5. sent' = Append(sent, segment) /\ stream' = Append(stream, segment)
      BY <2>2 DEF SendSegment
    <3> HIDE DEF segment
    <3> QED
      BY <3>2, <3>4, <3>5 DEF Sending
  <2> QED
    BY <2>1, <2>2 DEF ClientSends, CloseSending, Disconnect
<1> QED
  BY <1>2, <1>3, <1>4 DEF IInv

LEMMA Inductive ==
    /\ Init => IInv
    /\ IInv /\ [Next]_vars => IInv'
<1>1. Init => IInv
  <2> SUFFICES ASSUME Init PROVE IInv
    OBVIOUS
  <2>1. Held /\ Sending
    BY EmptyIsSmall DEF Init, TransportInit, Held, Sending, DecoderInStep
  <2>2. Bounded(call) /\ vms \in Seq(Descriptors) /\ Len(vms) <= MAX_VMS
    BY EmptyIsSmall DEF Init, NoRequest, Bounded, MAX_VMS
  <2>3. TaskInv
    BY <2>2 DEF Init, TransportInit, TaskInv, InHand, ResponsesFollowFrames
  <2> QED
    BY <2>1, <2>3 DEF IInv
<1>2. ASSUME IInv, [Next]_vars PROVE IInv'
  <2>0. ASSUME UNCHANGED transport, TaskInv' PROVE IInv'
    BY <1>2, <2>0 DEF IInv, Held, Sending, DecoderInStep, transport, locals
  <2>1. CASE ReadFrame
    BY <1>2, <2>1, ReadFramePreserves
  <2>2. CASE ReadNothing \/ ReadFails \/ ReadCancelled
    BY <1>2, <2>2, ReturnPreserves DEF ReadNothing, ReadFails, ReadCancelled, manager
  <2>3. CASE CancelWrite \/ WriteFails
    BY <1>2, <2>3, ReturnPreserves DEF CancelWrite, WriteFails, manager
  <2>4. CASE SendCall
    <3>1. CASE closed
      BY <1>2, <2>4, <3>1, ReturnPreserves DEF SendCall, manager
    <3>2. CASE ~ closed
      BY <1>2, <2>0, <2>4, <3>2, QuietPreserves
      DEF SendCall, manager, transport, IInv, TaskInv, Bounded
    <3> QED
      BY <3>1, <3>2
  <2>5. CASE ReceiveReply
    <3>1. CASE replied = "Dropped"
      BY <1>2, <2>5, <3>1, ReturnPreserves DEF ReceiveReply, manager
    <3>2. CASE replied # "Dropped"
      BY <1>2, <2>0, <2>5, <3>2, QuietPreserves
      DEF ReceiveReply, manager, transport, IInv, TaskInv, Bounded
    <3> QED
      BY <3>1, <3>2
  <2>6. CASE WriteResponse
    BY <1>2, <2>6, WriteResponsePreserves
  <2>7. CASE WriteNewline
    BY <1>2, <2>7, WriteNewlinePreserves
  <2>8. CASE ManagerAnswers
    <3>1. PICK answer \in {"Result", "Error", "Dropped"} : Answer(answer)
      BY <2>8 DEF ManagerAnswers
    <3>2. vms' \in Seq(Descriptors) /\ Len(vms') <= MAX_VMS
      BY <1>2, <3>1 DEF Answer, IInv, TaskInv, Bounded
    <3> QED
      BY <1>2, <2>0, <3>1, <3>2, QuietPreserves DEF Answer, transport, IInv, TaskInv, Bounded
  <2>9. CASE CloseCalls
    BY <1>2, <2>0, <2>9, QuietPreserves DEF CloseCalls, transport, IInv, TaskInv, Bounded
  <2>10. CASE ClientSends \/ Disconnect
    BY <1>2, <2>10, ClientPreserves
  <2>11. CASE Stall \/ Terminated \/ UNCHANGED vars
    BY <1>2, <2>0, <2>11, QuietPreserves
    DEF Stall, Terminated, vars, task, manager, transport, IInv, TaskInv, Bounded
  <2> QED
    BY <1>2, <2>1, <2>2, <2>3, <2>4, <2>5, <2>6, <2>7, <2>8, <2>9, <2>10, <2>11
    DEF Next, TaskStep, Environment
<1> QED
  BY <1>1, <1>2

LEMMA Invariance == Spec => []IInv
BY Inductive, PTL DEF Spec

(***************************************************************************)
(* DecoderInStep for every size of request and buffer: the LinesCodec that *)
(* next keeps between receives never looks beyond its input and never      *)
(* misses a newline.                                                       *)
(***************************************************************************)
THEOREM CodecIsInStep == Spec => []DecoderInStep
<1>1. IInv => DecoderInStep
  BY DEF IInv, Held
<1> QED
  BY <1>1, Invariance, PTL

(***************************************************************************)
(* MemoryBounded for every size of request and buffer: what next retains   *)
(* between receives is at most one valid request.                          *)
(***************************************************************************)
THEOREM MemoryIsBounded == Spec => []MemoryBounded
<1>1. IInv => MemoryBounded
  BY DEF IInv, Held, TaskInv, MemoryBounded
<1> QED
  BY <1>1, Invariance, PTL

(***************************************************************************)
(* ResponsesFollowFrames for every sequence of segments: Control::run      *)
(* answers frames one by one and in order.                                 *)
(***************************************************************************)
THEOREM ResponsesInOrder == Spec => []ResponsesFollowFrames
<1>1. IInv => ResponsesFollowFrames
  BY DEF IInv, TaskInv
<1> QED
  BY <1>1, Invariance, PTL

-----------------------------------------------------------------------------
(***************************************************************************)
(* The sizes of DNS replies, for every packet size, limit of a client and  *)
(* number and size of records.  That a reply fits is a fact of respond and *)
(* send_response; the inductive invariant only remembers that the outcome  *)
(* is theirs.                                                              *)
(***************************************************************************)

\* The least of three sizes, as max_payload takes it
LEMMA LeastOfThree ==
    ASSUME NEW a \in Int, NEW b \in Int, NEW c \in Int
    PROVE  /\ Least({a, b, c}) \in {a, b, c}
           /\ Least({a, b, c}) <= a /\ Least({a, b, c}) <= b /\ Least({a, b, c}) <= c
<1>1. \E n \in {a, b, c} : \A m \in {a, b, c} : n <= m
  <2>1. CASE a <= b /\ a <= c
    BY <2>1
  <2>2. CASE b <= a /\ b <= c
    BY <2>2
  <2>3. CASE c <= a /\ c <= b
    BY <2>3
  <2> QED
    BY <2>1, <2>2, <2>3
<1> QED
  BY <1>1 DEF Least

\* A nonempty set of numbers up to n has a greatest one
LEMMA GreatestMember ==
    ASSUME NEW n \in Nat, NEW T \in SUBSET (0 .. n), T # {}
    PROVE  \E x \in T : \A y \in T : y <= x
<1> DEFINE D == {n - y : y \in T}
<1>1. D \in SUBSET Nat /\ D # {}
  <2>1. \A y \in T : n - y \in Nat
    OBVIOUS
  <2>2. PICK y \in T : TRUE
    OBVIOUS
  <2>3. n - y \in D
    OBVIOUS
  <2> QED
    BY <2>1, <2>3, Zenon
<1>2. PICK d \in D : \A e \in D : d <= e
  <2> HIDE DEF D
  <2> QED
    BY <1>1, LeastMember
<1>3. PICK x \in T : d = n - x
  OBVIOUS
<1> HIDE DEF D
<1>4. ASSUME NEW y \in T PROVE y <= x
  <2>1. n - x <= n - y
    BY <1>2, <1>3 DEF D
  <2> QED
    BY <2>1
<1> QED
  BY <1>4

\* send_response fails, or its message keeps to the limit and TC tells whether
\* records are missing
LEMMA SendFacts ==
    ASSUME NEW q, q.question \in Nat, q.records \in Nat, q.record \in Nat, NEW limit \in Nat,
           NEW r, r = send_response(q, limit)
    PROVE  \/ r.type = "Failed"
           \/ /\ r.type = "Reply" /\ r.payload \in Nat /\ r.payload <= limit
              /\ r.truncated = "No" <=> r.records = q.records
<1> DEFINE fitting == {n \in 0 .. q.records : HEADER_LEN + q.question + n * q.record <= limit}
           kept == CHOOSE n \in fitting : \A m \in fitting : m <= n
           payload == HEADER_LEN + q.question + kept * q.record
           tc == IF kept < q.records THEN "Yes" ELSE "No"
<1>1. CASE fitting = {}
  <2>1. r = Failed
    BY <1>1, Zenon DEF send_response
  <2> QED
    BY <2>1 DEF Failed
<1>2. CASE fitting # {}
  <2>1. r = [type |-> "Reply", payload |-> payload, records |-> kept, truncated |-> tc]
    BY <1>2, Zenon DEF send_response
  <2>2. fitting \in SUBSET (0 .. q.records)
    OBVIOUS
  <2>3. kept \in fitting
    <3> HIDE DEF fitting
    <3> QED
      BY <1>2, <2>2, GreatestMember
  <2>4. kept \in 0 .. q.records /\ payload <= limit
    <3> HIDE DEF kept
    <3> QED
      BY <2>3
  <2>5. payload \in Nat
    <3> HIDE DEF kept
    <3> QED
      BY <2>4, DnsAssumption
  <2>6. tc = "No" <=> kept = q.records
    <3> HIDE DEF kept
    <3> QED
      BY <2>4
  <2> HIDE DEF payload, kept, tc
  <2>7. r.type = "Reply" /\ r.payload = payload /\ r.records = kept /\ r.truncated = tc
    BY ONLY <2>1
  <2> QED
    BY <2>4, <2>5, <2>6, <2>7, Zenon
<1> QED
  BY <1>1, <1>2

\* respond passes a query on exactly where it says so, and what it sends keeps to
\* all three limits; the cast to u16 changes nothing
LEMMA RespondFacts ==
    ASSUME NEW q \in Queries, NEW size \in Nat, NEW r, r = respond(q, size)
    PROVE  /\ r.type = "Reply" =>
                 /\ HEADERS_LEN + r.payload <= size
                 /\ r.payload <= q.limit /\ r.payload <= DEFAULT_MAX_PAYLOAD_LEN
                 /\ r.truncated = "No" <=> r.records = q.records
           /\ q.name # "InZone" => r.type = "Pass"
           /\ q.kind = "Query" /\ q.name = "InZone" /\ q.limit >= HEADER_LEN
              /\ size >= HEADERS_LEN + HEADER_LEN => r.type # "Pass"
<1> DEFINE available == size - HEADERS_LEN
           limit == max_payload(q, available)
           passes == \/ q.kind # "Query" \/ q.name # "InZone"
                     \/ available < 0 \/ limit < HEADER_LEN
<1>1. /\ q.limit \in Nat /\ q.question \in Nat /\ q.records \in Nat /\ q.record \in Nat
  BY QueriesAssumption
<1>2. /\ HEADERS_LEN \in Nat /\ HEADER_LEN \in Nat \ {0} /\ U16 \in Nat
      /\ DEFAULT_MAX_PAYLOAD_LEN \in Nat /\ HEADER_LEN <= DEFAULT_MAX_PAYLOAD_LEN
      /\ DEFAULT_MAX_PAYLOAD_LEN < U16
  BY DnsAssumption
<1>3. r = IF passes THEN Pass ELSE send_response(q, limit % U16)
  BY Zenon DEF respond
<1>4. /\ limit \in {q.limit, DEFAULT_MAX_PAYLOAD_LEN, available}
      /\ limit <= q.limit /\ limit <= DEFAULT_MAX_PAYLOAD_LEN /\ limit <= available
  <2>1. limit = Least({q.limit, DEFAULT_MAX_PAYLOAD_LEN, available})
    BY Zenon DEF max_payload
  <2>2. q.limit \in Int /\ DEFAULT_MAX_PAYLOAD_LEN \in Int /\ available \in Int
    BY <1>1, <1>2
  <2> HIDE DEF available, limit
  <2> QED
    BY <2>1, <2>2, LeastOfThree
<1> HIDE DEF limit
<1>5. CASE passes
  <2>1. r = Pass
    BY <1>3, <1>5, Zenon
  <2>2. r.type = "Pass"
    BY <2>1 DEF Pass
  <2>3. ~ (/\ q.kind = "Query" /\ q.name = "InZone" /\ q.limit >= HEADER_LEN
           /\ size >= HEADERS_LEN + HEADER_LEN)
    BY <1>1, <1>2, <1>4, <1>5
  <2>4. "Pass" # "Reply"
    OBVIOUS
  <2> QED
    BY <2>2, <2>3, <2>4, Zenon
<1>6. CASE ~ passes
  <2>1. limit \in Nat /\ limit < U16
    BY <1>1, <1>2, <1>4, <1>6
  <2>2. limit % U16 = limit
    BY <1>2, <2>1
  <2>3. r = send_response(q, limit)
    BY <1>3, <1>6, <2>2, Zenon
  <2>4. \/ r.type = "Failed"
        \/ /\ r.type = "Reply" /\ r.payload \in Nat /\ r.payload <= limit
           /\ r.truncated = "No" <=> r.records = q.records
    BY <1>1, <2>1, <2>3, SendFacts
  <2>5. r.type \notin {"Pass"} /\ q.name = "InZone"
    BY <1>6, <2>4
  <2>6. r.type = "Reply" =>
          /\ HEADERS_LEN + r.payload <= size
          /\ r.payload <= q.limit /\ r.payload <= DEFAULT_MAX_PAYLOAD_LEN
    <3>1. r.type = "Reply" => r.payload \in Nat /\ r.payload <= limit
      BY <2>4
    <3>2. limit + HEADERS_LEN <= size
      BY <1>2, <1>4, <2>1
    <3> HIDE DEF available
    <3> QED
      BY ONLY <1>1, <1>2, <1>4, <2>1, <3>1, <3>2, size \in Nat
  <2> QED
    BY <2>4, <2>5, <2>6
<1> QED
  BY <1>5, <1>6

DnsInv ==
    /\ max_packet_size \in Nat /\ query \in Queries
    /\ outcome = respond(query, max_packet_size)
    /\ forwarded = IF Consumes(outcome) THEN "No" ELSE "Yes"

(***************************************************************************)
(* Whatever the interface, the client's limit and the zone, a reply fits   *)
(* all three limits and admits what it leaves out, queries for other names *)
(* go to the system's resolver, and those for the zone do not.             *)
(***************************************************************************)
THEOREM AnswersAlwaysFit == DnsSpec => []AnswersFit
<1>1. DnsInit => DnsInv
  BY QueriesAssumption DEF DnsInit, DnsInv
<1>2. DnsInv /\ [DnsNext]_dnsVars => DnsInv'
  BY DEF DnsNext, Ask, DnsInv, dnsVars
<1>3. DnsInv => AnswersFit
  <2> SUFFICES ASSUME DnsInv PROVE AnswersFit
    OBVIOUS
  <2>1. /\ max_packet_size \in Nat /\ query \in Queries
        /\ outcome = respond(query, max_packet_size)
        /\ forwarded = "No" <=> outcome.type # "Pass"
        /\ forwarded = "Yes" <=> outcome.type = "Pass"
    BY DEF DnsInv, Consumes
  <2> QED
    BY <2>1, RespondFacts, "Outside" # "InZone" DEF AnswersFit
<1> QED
  BY <1>1, <1>2, <1>3, PTL DEF DnsSpec
=============================================================================
