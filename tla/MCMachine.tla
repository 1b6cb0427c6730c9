----------------------------- MODULE MCMachine ------------------------------
(* Instance of Machine; the driver has no parameter but the bound. *)
EXTENDS Machine
=============================================================================
