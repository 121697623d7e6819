---------------------------- MODULE MCSigningLinks ----------------------------
EXTENDS SigningLinks, TLC

\* Persons, links, dispatches and syncs are told apart by nothing.
Symmetry == Permutations(Signers) \cup Permutations(Links) \cup Permutations(Senders) \cup Permutations(Syncers)
=============================================================================
