--------------------------- MODULE MCDirectTurn ---------------------------
(* The small instances of DirectTurn that TLC checks. *)
EXTENDS DirectTurnClaims, TLC

CONSTANTS t1, t2, t3, w1, w2, a, b

Symmetry == Permutations(Turns) \cup Permutations(Words)

(* Every start consumes a word or a continuation, so a fresh claim id is   *)
(* always left: the bound on Turns never blocks a step.                    *)
ASSUME Cardinality(Words) + MaxResumes <= Cardinality(Turns)
============================================================================
