---------------------------- MODULE CustodySystem ----------------------------
(***************************************************************************)
(* Every process that holds, moves or assigns assets, together.  Each one  *)
(* checks the holds of some of the others, never of all of them; the       *)
(* properties say what that leaves standing.                               *)
(***************************************************************************)
EXTENDS RequestProcess, WriteOffProcess, HandoverProcess, InventoryProcess

EditNext ==
    \E e \in Editors :
      \/ \E a \in Assets : WriteOffAsset(e, a) \/ \E to \in OperationalStatus : ChangeStatus(e, a, to)
      \/ ApplyEdit(e) \/ EditRefused(e)

Next ==
    \/ LoanNext \/ TransferNext \/ WriteOffNext \/ HandoverNext \/ RequestNext \/ InventoryNext \/ EditNext
    \/ \E k \in Actas : FirstSignature(k)

Spec == Init /\ [][Next]_vars

-----------------------------------------------------------------------------
(* Safety.                                                                 *)

\* Loans in which the asset is out: delivered and not yet received back.
OutIn(a) == {l \in Loans : loan[l].status \in LoanOutStatus /\ a \in loan[l].items \ loan[l].received}

\* LoansService.createWithin and the deliveries: an asset is in at most one
\* open loan that has not received it back.
OneOpenLoan ==
    \A l, m \in Loans :
        /\ loan[l].status \in OpenLoanStatus /\ loan[m].status \in OpenLoanStatus
        /\ (loan[l].items \ loan[l].received) \cap (loan[m].items \ loan[m].received) # {}
        => l = m

\* AssetStateService guards of deliver, undoDelivery and receiveReturn: an
\* asset that says ON_LOAN is out in exactly one loan, whose source is still
\* its cost center.
OnLoanIsOut ==
    \A a \in Assets : assetStatus[a] = "ON_LOAN" =>
        \E l \in Loans : OutIn(a) = {l} /\ loan[l].source = assetCenter[a]

\* The guards of direct edits, handovers, transfers and write-offs: as long as
\* no inventory is reconciled, an asset that is out stays ON_LOAN.
OutIsOnLoan ==
    (\A i \in Inventories : inventory[i].status # "RECONCILED")
    => \A a \in Assets : OutIn(a) # {} => assetStatus[a] = "ON_LOAN"

\* A cost center only changes when a transfer is signed, and a transfer is
\* checked against open loans and other transfers when it is: whatever is in
\* an open loan or transfer is still where that process found it.
HeldIsAtSource ==
    /\ \A l \in Loans : loan[l].status \in OpenLoanStatus =>
         \A a \in loan[l].items \ loan[l].received : assetCenter[a] = loan[l].source
    /\ \A t \in Transfers : \A a \in transfer[t].open : assetCenter[a] = transfer[t].source

\* WriteOffsService.assertAssets and the holds of the other processes: while
\* an asset is in an open write-off no other process has it.
WriteOffIsExclusive ==
    \A w \in WriteOffs : \A a \in writeOff[w].open :
        /\ ~HeldByLoan(a)
        /\ ~HeldByTransfer(a, None)
        /\ ~HeldByHandover(a)
        /\ ~HeldByRequest(a, None)
        /\ ~HeldByWriteOff(a, w)

\* The processes check only some of each other: even so, none is ended on an
\* asset that has gone elsewhere, or on one that is being written off.
HoldsAreSound == HeldIsAtSource /\ WriteOffIsExclusive

\* LoanDeliveryActLifecycle.signed: a loan that has become ACTIVE, and
\* everything after that, rests on a signed delivery acta.
ActiveIsSigned ==
    \A l \in Loans :
        loan[l].status \in {"ACTIVE", "OVERDUE", "PENDING_RECEPTION", "PARTIALLY_RETURNED", "RETURNED", "CLOSED_WITH_LOSSES"}
        => loan[l].document # None /\ acta[loan[l].document].status = "SIGNED"

\* The lifecycles' callbacks: an acta is SIGNED or REJECTED exactly when the
\* process it belongs to has ended that way with that acta.
SettledTogether ==
    \A k \in Actas :
        /\ \A t \in Transfers : acta[k].owner = t =>
             /\ acta[k].status = "SIGNED" <=> transfer[t].status = "COMPLETED" /\ transfer[t].document = k
             /\ acta[k].status = "REJECTED" <=> transfer[t].status = "REJECTED" /\ transfer[t].document = k
        /\ \A w \in WriteOffs : acta[k].owner = w =>
             /\ acta[k].status = "SIGNED" <=> writeOff[w].status = "COMPLETED" /\ writeOff[w].document = k
             /\ acta[k].status = "REJECTED" <=> writeOff[w].status = "REJECTED" /\ writeOff[w].document = k
        /\ \A h \in Handovers : acta[k].owner = h =>
             /\ acta[k].status = "SIGNED" <=> handover[h].status = "SIGNED" /\ handover[h].document = k
             /\ acta[k].status = "REJECTED" <=> handover[h].status = "REJECTED" /\ handover[h].document = k

\* deliver, regenerateDeliveryAct, generate and voidForEntity: a process never
\* has two actas of its own that could still be signed.
OneLiveActa == \A p \in Processes : Cardinality({k \in LiveActas(p) : acta[k].kind = "MAIN"}) <= 1

\* Rejecting, regenerating and undoing in any order: a loan is active by the
\* one acta of its own that could be signed.
ActasAreSound == ActiveIsSigned /\ OneLiveActa

\* AssetRequestCompletionObserver: a request waits for its loan exactly while
\* that loan is approved and not delivered.
ScheduledWhileApproved ==
    \A r \in Requests : request[r].loan # None =>
        (request[r].status = "LOAN_SCHEDULED" <=> loan[request[r].loan].status = "APPROVED")

\* The callbacks of actas and of loans, which run in the transaction of what
\* they follow: no process is left behind by its acta, or request by its loan.
FollowersSettle == SettledTogether /\ ScheduledWhileApproved

\* decisiones.md 5a: as long as an asset is ON_LOAN it keeps its cost center
\* and its responsible person.
OnLoanKeepsCustody ==
    [][\A a \in Assets : assetStatus[a] = "ON_LOAN" /\ assetStatus'[a] = "ON_LOAN" =>
         assetCenter'[a] = assetCenter[a] /\ responsible'[a] = responsible[a]]_vars

\* deliver, undoDelivery and receiveReturn: a loan remembers the status the
\* asset had when it was delivered, whatever was edited between the request
\* and the delivery, and the asset goes back to it or to LOST.
ReturnsAsItCame ==
    [][\A a \in Assets :
         /\ assetStatus[a] # "ON_LOAN" /\ assetStatus'[a] = "ON_LOAN" =>
              \E l \in OutIn(a)' : loan'[l].back[a] = assetStatus[a]
         /\ \A l \in OutIn(a) \cap OutIn(a)' : loan'[l].back[a] = loan[l].back[a]
         /\ assetStatus[a] = "ON_LOAN" /\ assetStatus'[a] # "ON_LOAN" =>
              assetStatus'[a] = "LOST" \/ \E l \in OutIn(a) : assetStatus'[a] = loan[l].back[a]]_vars

\* assertItems, in the transaction that moves the asset: an asset that an open
\* inventory lists keeps its cost center until that inventory is closed.
CountedStaysPut ==
    [][\A a \in Assets : HeldByInventory(a) => assetCenter'[a] = assetCenter[a]]_vars

-----------------------------------------------------------------------------
(* What the repository says and the code does not keep in every            *)
(* interleaving.                                                           *)

\* undoDelivery voids the acta of the delivery it undoes: a cancelled loan has
\* no acta that can still be signed.
UndoneHasNoLiveActa == \A l \in Loans : loan[l].status = "CANCELLED" => LiveActas(l) = {}

=============================================================================
