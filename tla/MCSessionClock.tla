--------------------------- MODULE MCSessionClock ---------------------------
(* SessionClock for TLC.                                                    *)
EXTENDS SessionClock, TLC

(* Handler threads are interchangeable.                                     *)
Symmetry == Permutations(Threads)
=============================================================================
