--------------------------- MODULE MCCacheEviction ---------------------------
EXTENDS CacheEviction, TLC

Topic == [s \in Subscribers |-> s]

\* Nothing tells one repository from another.
Symmetry == Permutations(Keys)
=============================================================================
