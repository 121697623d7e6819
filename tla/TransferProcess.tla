--------------------------- MODULE TransferProcess ---------------------------
(***************************************************************************)
(* Transfers of assets to another cost center: TransfersService and the    *)
(* lifecycle of the transfer acta, which moves the assets when it is       *)
(* signed.                                                                 *)
(***************************************************************************)
EXTENDS AssetCustody

transferOthers == <<loan, writeOff, handover, inventory, edit>>

CloseTransfer(t, status) == transfer' = [transfer EXCEPT ![t].status = status, ![t].open = {}]

\* Mutant: assets that are being counted may move.
TransferItemsCounted(S, source, t) ==
    \A a \in S : /\ assetCenter[a] = source
                 /\ assetStatus[a] \notin Immovable
                 /\ ~HeldByLoan(a)
                 /\ ~HeldByTransfer(a, t)
                 /\ ~HeldByWriteOff(a, None)

\* assertItems: the assets are locked, then checked.  A reservation or an
\* open handover does not stop a transfer.
TransferItems(S, source, t) ==
    \A a \in S : /\ assetCenter[a] = source
                 /\ assetStatus[a] \notin Immovable
                 /\ ~HeldByInventory(a)
                 /\ ~HeldByLoan(a)
                 /\ ~HeldByTransfer(a, t)
                 /\ ~HeldByWriteOff(a, None)

\* createWithin.  "t" has no items yet, so that it excepts itself is harmless.
TransferCreation(t, S, target, status) ==
    /\ transfer[t].status = "NONE"
    /\ S # {}
    /\ \E c \in Centers \ {target} :
         /\ TransferItems(S, c, t)
         /\ transfer' = [transfer EXCEPT ![t] = [NoTransfer EXCEPT !.status = status, !.items = S, !.open = S,
                                                   !.source = c, !.target = target]]

TransferCreate(t, S, target) ==
    /\ TransferCreation(t, S, target, "DRAFT")
    /\ UNCHANGED <<assetVars, request, acta, cancelling, transferOthers>>

\* updateItems deletes the rows before it checks the new ones.
TransferUpdateItems(t, S) ==
    /\ transfer[t].status = "DRAFT"
    /\ S # {}
    /\ TransferItems(S, transfer[t].source, t)
    /\ transfer' = [transfer EXCEPT ![t].items = S, ![t].open = S]
    /\ UNCHANGED <<assetVars, request, acta, cancelling, transferOthers>>

TransferGenerate(t, k) ==
    /\ transfer[t].status = "DRAFT"
    /\ TransferItems(transfer[t].items, transfer[t].source, t)
    /\ Enqueue(k, t, "MAIN")
    /\ transfer' = [transfer EXCEPT ![t].status = "PENDING_SIGNATURES"]
    /\ UNCHANGED <<assetVars, request, cancelling, transferOthers>>

TransferActaGenerated(k) ==
    \E t \in Transfers :
      /\ acta[k].owner = t
      /\ transfer[t].status = "PENDING_SIGNATURES"
      /\ transfer[t].document = None
      /\ Generates(k)
      /\ transfer' = [transfer EXCEPT ![t].document = k]
      /\ UNCHANGED <<assetVars, request, cancelling, transferOthers>>

\* Mutant: the items are moved as they were when the acta was requested.
TransferActaSignedUnchecked(k) ==
    \E t \in Transfers :
      /\ acta[k].owner = t
      /\ transfer[t].document = k
      /\ transfer[t].status = "PENDING_SIGNATURES"
      /\ ClosesSigned(k)
      /\ assetCenter' = [a \in Assets |-> IF a \in transfer[t].items THEN transfer[t].target ELSE assetCenter[a]]
      /\ CloseTransfer(t, "COMPLETED")
      /\ UNCHANGED <<assetStatus, responsible, request, cancelling, transferOthers>>

\* The acta is signed: the items are locked and checked again and moved.
TransferActaSigned(k) ==
    \E t \in Transfers :
      /\ acta[k].owner = t
      /\ transfer[t].document = k
      /\ transfer[t].status = "PENDING_SIGNATURES"
      /\ TransferItems(transfer[t].items, transfer[t].source, t)
      /\ ClosesSigned(k)
      /\ assetCenter' = [a \in Assets |-> IF a \in transfer[t].items THEN transfer[t].target ELSE assetCenter[a]]
      /\ CloseTransfer(t, "COMPLETED")
      /\ UNCHANGED <<assetStatus, responsible, request, cancelling, transferOthers>>

TransferActaRejected(k) ==
    \E t \in Transfers :
      /\ acta[k].owner = t
      /\ transfer[t].document = k
      /\ transfer[t].status = "PENDING_SIGNATURES"
      /\ ClosesRejected(k)
      /\ CloseTransfer(t, "REJECTED")
      /\ UNCHANGED <<assetVars, request, cancelling, transferOthers>>

-----------------------------------------------------------------------------
(* cancel reads the status and counts the signatures without a lock, voids *)
(* the actas, and only then locks the transfer and closes it.  The rows of *)
(* an acta it voided keep the other transactions of the transfer out until *)
(* the commit, so voiding and closing are then one step.                   *)

TransferCancellable(t) == transfer[t].status \in {"DRAFT", "PENDING_SIGNATURES"}

HasSignatures(p) == \E k \in ActasOf(p) : acta[k].status = "PENDING_SIGNATURE" /\ acta[k].signed

TransferCancelChecks(t) ==
    /\ cancelling[t] = "no"
    /\ TransferCancellable(t)
    /\ ~HasSignatures(t)
    /\ cancelling' = [cancelling EXCEPT ![t] = "checked"]
    /\ UNCHANGED <<assetVars, processVars, acta, edit>>

TransferCancelVoids(t) ==
    /\ cancelling[t] = "checked"
    /\ LiveActas(t) # {}
    /\ TransferCancellable(t)
    /\ VoidForEntity(t)
    /\ CloseTransfer(t, "CANCELLED")
    /\ cancelling' = [cancelling EXCEPT ![t] = "no"]
    /\ UNCHANGED <<assetVars, request, transferOthers>>

TransferCancelFindsNoActa(t) ==
    /\ cancelling[t] = "checked"
    /\ LiveActas(t) = {}
    /\ SignedActas(t) = {}
    /\ cancelling' = [cancelling EXCEPT ![t] = "voided"]
    /\ UNCHANGED <<assetVars, processVars, acta, edit>>

TransferCancelLocks(t) ==
    /\ cancelling[t] = "voided"
    /\ TransferCancellable(t)
    /\ CloseTransfer(t, "CANCELLED")
    /\ cancelling' = [cancelling EXCEPT ![t] = "no"]
    /\ UNCHANGED <<assetVars, request, acta, transferOthers>>

\* An acta was signed meanwhile, or the transfer is closed already.
TransferCancelRefused(t) ==
    /\ \/ cancelling[t] = "checked" /\ SignedActas(t) # {}
       \/ cancelling[t] = "checked" /\ LiveActas(t) # {} /\ ~TransferCancellable(t)
       \/ cancelling[t] = "voided" /\ ~TransferCancellable(t)
    /\ cancelling' = [cancelling EXCEPT ![t] = "no"]
    /\ UNCHANGED <<assetVars, processVars, acta, edit>>

TransferNext ==
    \/ \E t \in Transfers :
         \/ \E S \in SUBSET Assets : TransferUpdateItems(t, S) \/ \E c \in Centers : TransferCreate(t, S, c)
         \/ \E k \in Actas : TransferGenerate(t, k)
         \/ TransferCancelChecks(t) \/ TransferCancelVoids(t) \/ TransferCancelFindsNoActa(t)
         \/ TransferCancelLocks(t) \/ TransferCancelRefused(t)
    \/ \E k \in Actas : TransferActaGenerated(k) \/ TransferActaSigned(k) \/ TransferActaRejected(k)

=============================================================================
