---------------------------- MODULE MCCustodyMix ----------------------------
(***************************************************************************)
(* CustodySystem with one process of every kind.  All of them at once are  *)
(* too many states; every behaviour fixes one mix of kinds that may act,   *)
(* so that each pair of kinds that checks the other's holds meets in one.  *)
(***************************************************************************)
EXTENDS MCCustody

VARIABLE mix

Mixes == {"holds", "requests", "inventory", "edits"}

\* Actas that a behaviour may request.
MaxActas == IF mix = "holds" THEN 3 ELSE 2

MixInit == Init /\ mix \in Mixes

MixNext ==
    /\ \/ LoanNext
       \/ mix # "edits" /\ TransferNext
       \/ mix # "inventory" /\ WriteOffNext
       \/ mix = "holds" /\ HandoverNext
       \/ mix = "requests" /\ RequestNext
       \/ mix = "inventory" /\ InventoryNext
       \/ mix = "edits" /\ EditNext
       \/ \E k \in Actas : FirstSignature(k)
    /\ Cardinality({k \in Actas : acta'[k].status # "NONE"}) <= MaxActas
    /\ UNCHANGED mix

MixSpec == MixInit /\ [][MixNext]_<<vars, mix>>
=============================================================================
