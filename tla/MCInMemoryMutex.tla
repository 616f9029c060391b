-------------------------- MODULE MCInMemoryMutex --------------------------
(* Instance of InMemoryMutex for TLC: three mutexes compete for one key, a  *)
(* fourth has a key of its own.                                             *)
EXTENDS InMemoryMutex, TLC

CONSTANTS m1, m2, m3, m4, k1, k2

OneApart == [m \in Mutexes |-> IF m = m4 THEN k2 ELSE k1]

Symmetry == Permutations({m1, m2, m3})
=============================================================================
