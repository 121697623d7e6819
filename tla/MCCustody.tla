------------------------------ MODULE MCCustody ------------------------------
(* CustodySystem for TLC.  A run leaves the processes it is not about out   *)
(* by giving them no identifiers.                                          *)
EXTENDS CustodySystem, TLC

\* Identifiers of one kind are interchangeable.
MCSymmetry ==
    Permutations(Assets) \cup Permutations(Loans) \cup Permutations(WriteOffs) \cup Permutations(Transfers)
      \cup Permutations(Actas) \cup Permutations(Editors) \cup Permutations(Persons) \cup Permutations(Centers)
=============================================================================
