------------------------------- MODULE MCDns -------------------------------
EXTENDS Dns

CONSTANTS Limits

MCQueries ==
    [kind: {"Query", "Other"}, name: {"InZone", "Outside"}, limit: Limits,
     question: 1 .. 2, records: 0 .. 2, record: {2}]
=============================================================================
