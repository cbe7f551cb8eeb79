------------------------------- MODULE MCHost -------------------------------
(***************************************************************************)
(* Model checking of the callback handshake: batches of two out of a few   *)
(* packets, so that one callback covers full, partial and empty reads.     *)
(***************************************************************************)
EXTENDS Host
=============================================================================
