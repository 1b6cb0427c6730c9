---------------------------- MODULE MCDECstation ----------------------------
(* The instance that setup_decserial builds: the console on the last of the  *)
(* four lines.                                                               *)
EXTENDS DECstation

ConsoleFd == [l \in Line |-> 4]
=============================================================================
