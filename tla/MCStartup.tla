----------------------------- MODULE MCStartup -----------------------------
EXTENDS Startup

MCUsers == {"root", "alice", "bob"}
MCLeases == {6, 15}
=============================================================================
