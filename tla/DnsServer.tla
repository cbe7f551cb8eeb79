----------------------------- MODULE DnsServer -----------------------------
(***************************************************************************)
(* lib/dns_server/mod.rs: the reply to a query for a name of the zone has  *)
(* to fit the client's limit, the server's own and a frame of the VM's     *)
(* interface.  Sizes are in units of a few bytes.  Which name has which    *)
(* address is in Batch.                                                    *)
(***************************************************************************)
EXTENDS Integers

CONSTANTS
    HEADERS_LEN,             \* Ethernet, IPv4 and UDP headers together
    HEADER_LEN,              \* the header of a DNS message
    DEFAULT_MAX_PAYLOAD_LEN,
    U16

ASSUME DnsAssumption ==
    /\ HEADERS_LEN \in Nat /\ HEADER_LEN \in Nat \ {0}
    /\ DEFAULT_MAX_PAYLOAD_LEN \in HEADER_LEN .. U16 - 1 /\ U16 \in Nat

\* Ok(None), Err, and a reply with the size of its payload
Pass == [type |-> "Pass", payload |-> 0, records |-> 0, truncated |-> "No"]
Failed == [type |-> "Failed", payload |-> 0, records |-> 0, truncated |-> "No"]

Least(numbers) == CHOOSE n \in numbers : \A m \in numbers : n <= m

\* Mutant: the frame is not considered
Mut_max_payload(query, available) == Least({query.limit, DEFAULT_MAX_PAYLOAD_LEN})

max_payload(query, available) == Least({query.limit, DEFAULT_MAX_PAYLOAD_LEN, available})

\* send_response: records that do not fit are left out, and TC says so.  It fails if
\* the question does not fit.
send_response(query, limit) ==
    LET base == HEADER_LEN + query.question
        fitting == {n \in 0 .. query.records : base + n * query.record <= limit}
    IN  IF fitting = {} THEN Failed
        ELSE LET kept == CHOOSE n \in fitting : \A m \in fitting : m <= n
             IN  [type      |-> "Reply",
                  payload   |-> base + kept * query.record,
                  records   |-> kept,
                  truncated |-> IF kept < query.records THEN "Yes" ELSE "No"]

respond(query, max_packet_size) ==
    LET available == max_packet_size - HEADERS_LEN
        limit == max_payload(query, available)
    IN  IF \/ query.kind # "Query" \/ query.name # "InZone"
           \/ available < 0 \/ limit < HEADER_LEN
        THEN Pass
        ELSE send_response(query, limit % U16)

\* consume_dns: what is not answered, for a failure, is consumed as well
Consumes(outcome) == outcome.type # "Pass"
=============================================================================
