----------------------------- MODULE MCArchive -----------------------------
\* Two lists and two stores, one of them listed and deleted from by account.
EXTENDS Archive, TLC

CONSTANTS l1, l2, aleph, local, pinata, e1, e2, c1, c2, w1, w2

Symmetry == Permutations(Entries) \cup Permutations(Calls) \cup Permutations(Watchers)
=============================================================================
