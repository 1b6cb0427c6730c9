------------------------------ MODULE MCSpim --------------------------------
(* Instances of SpimConsole. *)
EXTENDS SpimConsole

(* Each line is opened on a descriptor of its own.                           *)
TwoLines == [l \in Line |-> l + 3]

(* ttydev2 is "off", as in the default options.                              *)
OneLine == [l \in Line |-> IF l = 0 THEN 3 ELSE -1]
=============================================================================
