----------------------------- MODULE MCManager -----------------------------
(***************************************************************************)
(* Model checking of the manager: up to two VMs, which is where a batch    *)
(* can be half built, half sent or half stopped.                           *)
(***************************************************************************)
EXTENDS Manager
=============================================================================
