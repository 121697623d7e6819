--------------------------- MODULE InventoryProcess ---------------------------
(***************************************************************************)
(* Physical inventories as far as they touch the custody of an asset:      *)
(* InventoriesService from the start of a planned inventory to its         *)
(* reconciliation, and the cancellation of InventorySchedulesService.      *)
(* Apart from cancel no operation locks the inventory: each reads and      *)
(* checks it first and writes later.  Of each kind of operation one is     *)
(* under way at a time (reports: one per asset).  Locations, conditions,   *)
(* corrections and the acts of an inventory are not modelled, and a start  *)
(* that overlaps another inventory may be refused or not.                  *)
(***************************************************************************)
EXTENDS AssetCustody

inventoryOthers == <<loan, transfer, writeOff, handover, request, acta, cancelling, edit>>

\* start reads the inventory and the assets in its scope ...
InventoryStart(i, scope) ==
    /\ inventory[i].status = "PLANNED"
    /\ ~inventory[i].starting
    /\ inventory' = [inventory EXCEPT ![i].starting = TRUE,
          ![i].snapshot = {a \in Assets : assetStatus[a] # "WRITTEN_OFF" /\ assetCenter[a] \in scope}]
    /\ UNCHANGED <<assetVars, inventoryOthers>>

\* ... and saves them later, whatever has happened since.
InventorySaveStart(i) ==
    /\ inventory[i].starting
    /\ inventory' = [inventory EXCEPT ![i].starting = FALSE, ![i].snapshot = {}, ![i].status = "IN_PROGRESS",
          ![i].result = [a \in Assets |-> IF a \in inventory[i].snapshot THEN "PENDING" ELSE "OUT"]]
    /\ UNCHANGED <<assetVars, inventoryOthers>>

InventoryCancel(i) ==
    /\ inventory[i].status = "PLANNED"
    /\ inventory' = [inventory EXCEPT ![i].status = "CANCELLED"]
    /\ UNCHANGED <<assetVars, inventoryOthers>>

\* verifyAsset (FOUND also stands for MISPLACED) and reportNotFound check ...
InventoryReport(i, a, result) ==
    /\ inventory[i].status = "IN_PROGRESS"
    /\ inventory[i].result[a] = "PENDING"
    /\ inventory[i].reporting[a] = "OUT"
    /\ inventory' = [inventory EXCEPT ![i].reporting[a] = result]
    /\ UNCHANGED <<assetVars, inventoryOthers>>

ReportUnexpected(i, a) ==
    /\ inventory[i].status = "IN_PROGRESS"
    /\ inventory[i].result[a] = "OUT"
    /\ inventory[i].reporting[a] = "OUT"
    /\ assetStatus[a] # "WRITTEN_OFF"
    /\ inventory' = [inventory EXCEPT ![i].reporting[a] = "SURPLUS"]
    /\ UNCHANGED <<assetVars, inventoryOthers>>

\* ... and save the item, even if the inventory was closed meanwhile.
InventorySaveReport(i, a) ==
    /\ inventory[i].reporting[a] # "OUT"
    /\ inventory' = [inventory EXCEPT ![i].result[a] = inventory[i].reporting[a], ![i].reporting[a] = "OUT"]
    /\ UNCHANGED <<assetVars, inventoryOthers>>

InventoryClose(i) ==
    /\ inventory[i].status = "IN_PROGRESS"
    /\ ~inventory[i].closing
    /\ inventory' = [inventory EXCEPT ![i].closing = TRUE]
    /\ UNCHANGED <<assetVars, inventoryOthers>>

InventorySaveClose(i) ==
    /\ inventory[i].closing
    /\ inventory' = [inventory EXCEPT ![i].status = "CLOSED", ![i].closing = FALSE,
          ![i].result = [a \in Assets |-> IF @[a] = "PENDING" THEN "NOT_VERIFIED" ELSE @[a]]]
    /\ UNCHANGED <<assetVars, inventoryOthers>>

RequestReconcile(i) ==
    /\ inventory[i].status = "CLOSED"
    /\ ~inventory[i].requested
    /\ inventory' = [inventory EXCEPT ![i].requested = TRUE]
    /\ UNCHANGED <<assetVars, inventoryOthers>>

\* approveReconcile: applyLost reads each missing asset without a lock ...
ApproveReconcile(i) ==
    /\ inventory[i].status = "CLOSED"
    /\ inventory[i].requested
    /\ ~inventory[i].approving
    /\ inventory' = [inventory EXCEPT ![i].approving = TRUE,
          ![i].losing = {a \in Assets : /\ inventory[i].result[a] = "MISSING"
                                        /\ assetStatus[a] \notin {"LOST", "WRITTEN_OFF"}}]
    /\ UNCHANGED <<assetVars, inventoryOthers>>

\* ... and writes LOST with no guard.
ApplyReconcile(i) ==
    /\ inventory[i].approving
    /\ assetStatus' = [a \in Assets |-> IF a \in inventory[i].losing THEN "LOST" ELSE assetStatus[a]]
    /\ inventory' = [inventory EXCEPT ![i].status = "RECONCILED", ![i].approving = FALSE, ![i].losing = {}]
    /\ UNCHANGED <<assetCenter, responsible, inventoryOthers>>

InventoryNext ==
    \E i \in Inventories :
      \/ \E scope \in SUBSET Centers : InventoryStart(i, scope)
      \/ InventorySaveStart(i) \/ InventoryCancel(i) \/ InventoryClose(i) \/ InventorySaveClose(i)
      \/ \E a \in Assets : ReportUnexpected(i, a) \/ InventorySaveReport(i, a) \/ \E result \in {"FOUND", "MISSING"} : InventoryReport(i, a, result)
      \/ RequestReconcile(i) \/ ApproveReconcile(i) \/ ApplyReconcile(i)

=============================================================================
