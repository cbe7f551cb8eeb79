SPECIFICATION DnsSpec
CONSTANTS
    HEADERS_LEN = 3
    HEADER_LEN = 2
    DEFAULT_MAX_PAYLOAD_LEN = 8
    U16 = 16
    MaxPacketSize = 14
    Queries <- MCQueries
    Limits = {1, 4, 6, 20}
INVARIANT
    AnswersFit
