------------------------------ MODULE MCClock -------------------------------
(* Clock on a small instance: three task objects, delays and increments    *)
(* that let groups be shared, split, reached exactly and overshot.         *)
EXTENDS Clock

MCDelay == {1, 2, 3}
MCIncrement == {1, 3}
MCSetNsec == {0, 5}
=============================================================================
