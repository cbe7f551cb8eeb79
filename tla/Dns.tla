-------------------------------- MODULE Dns --------------------------------
(***************************************************************************)
(* Queries of a VM, one after the other, at a proxy whose interface has    *)
(* some maximal packet size.                                               *)
(***************************************************************************)
EXTENDS DnsServer

CONSTANTS
    MaxPacketSize,   \* bound on the packet size of an interface
    Queries          \* queries that a VM may send

ASSUME QueriesAssumption ==
    /\ MaxPacketSize \in Nat
    /\ \A q \in Queries : /\ q.limit \in Nat /\ q.question \in Nat
                         /\ q.records \in Nat /\ q.record \in Nat

VARIABLES max_packet_size, query, outcome, forwarded

dnsVars == <<max_packet_size, query, outcome, forwarded>>

\* The query is answered, or it goes on to flow inspection and policy
Ask(q) ==
    /\ query' = q
    /\ outcome' = respond(q, max_packet_size)
    /\ forwarded' = IF Consumes(outcome') THEN "No" ELSE "Yes"
    /\ UNCHANGED max_packet_size

DnsInit ==
    /\ max_packet_size \in 0 .. MaxPacketSize
    /\ \E q \in Queries :
          /\ query = q
          /\ outcome = respond(q, max_packet_size)
          /\ forwarded = IF Consumes(outcome) THEN "No" ELSE "Yes"

DnsNext == \E q \in Queries : Ask(q)

DnsSpec == DnsInit /\ [][DnsNext]_dnsVars

(***************************************************************************)
(* A reply fits a frame of the VM's interface, the limit of the client and *)
(* the server's own, and one from which records are missing says so        *)
(* (respond, send_response): the casts and the subtraction never let a     *)
(* larger one through.  Queries for the zone stay on this side of the      *)
(* filter wherever there is room for a DNS header; all others go on to the *)
(* system's resolver (consume_dns's "Leave queries outside Softnet's DNS   *)
(* zone to the system DNS resolver").                                      *)
(***************************************************************************)
AnswersFit ==
    /\ outcome.type = "Reply" =>
          /\ HEADERS_LEN + outcome.payload <= max_packet_size
          /\ outcome.payload <= query.limit /\ outcome.payload <= DEFAULT_MAX_PAYLOAD_LEN
          /\ outcome.truncated = "No" <=> outcome.records = query.records
    /\ query.name = "Outside" => forwarded = "Yes"
    /\ query.kind = "Query" /\ query.name = "InZone" /\ query.limit >= HEADER_LEN
       /\ max_packet_size >= HEADERS_LEN + HEADER_LEN => forwarded = "No"
=============================================================================
