--------------------------- MODULE MovementHistory ---------------------------
(***************************************************************************)
(* MovementsService: the movements of each asset, which are only appended  *)
(* (trg_asset_movement_no_update).  A movement is named by its place in    *)
(* the order of creation; previous is its previous_movement_id, 0 for none.*)
(* Who records one has the row of the asset locked (AssetStateService,     *)
(* registerMovements), so a recording is one step.                         *)
(***************************************************************************)
EXTENDS Naturals, Sequences

CONSTANTS
    Rows,            \* the assets
    MaxMovements     \* bound: movements of an asset

ASSUME MovementsAssumption == MaxMovements \in Nat

VARIABLE history

Movement == [type : {"REGISTRATION", "CHANGE"}, previous : Nat]

HistoryTypeOK == history \in [Rows -> Seq(Movement)]

HistoryInit == history = [r \in Rows |-> <<>>]

\* The movements no other one follows.
Unfollowed(h) == {i \in 1..Len(h) : \A k \in 1..Len(h) : h[k].previous # i}

\* record: the latest of them is the one to continue.
LastMovement(h) ==
    IF Unfollowed(h) = {} THEN 0
    ELSE CHOOSE i \in Unfollowed(h) : \A k \in Unfollowed(h) : k <= i

\* AssetStateService.applyWithin, which records a movement of an asset.
RecordMovement(r) ==
    /\ Len(history[r]) < MaxMovements
    /\ history' = [history EXCEPT ![r] = Append(@, [type |-> "CHANGE", previous |-> LastMovement(@)])]

\* Mutation: what had no movement when it was selected is taken to have none.
SelectedUnmoved(S) == S

\* registerMovements looks again under the lock (and recordInitial refuses what
\* has a movement after all).
StillUnmoved(S) == {r \in S : history[r] = <<>>}

\* recordInitial: nothing goes before these.
RecordInitial(S) ==
    history' = [r \in Rows |->
        IF r \in S THEN Append(history[r], [type |-> "REGISTRATION", previous |-> 0]) ELSE history[r]]

-----------------------------------------------------------------------------
(* Properties.                                                             *)

\* verifyAssetChain finds nothing to report: the movements of an asset have one
\* head, every other one follows a movement of the same asset, and no two
\* follow the same (no BROKEN_LINK, FORK or NOT_A_SINGLE_CHAIN), whoever
\* recorded them and in whatever order.
HistoryIsOneChain ==
    \A r \in Rows :
        LET h == history[r]
        IN  /\ \A i \in 1..Len(h) : h[i].previous < i
            /\ \A i, k \in 1..Len(h) : h[i].previous = h[k].previous => i = k
=============================================================================
