----------------------------- MODULE LoanProcess -----------------------------
(***************************************************************************)
(* Loans of assets to another cost center: LoansService and the lifecycle  *)
(* of the delivery acta.  The requests that ordered a loan are told of its *)
(* delivery, rejection and cancellation in the loan's own transaction.     *)
(***************************************************************************)
EXTENDS AssetCustody

loanOthers == <<transfer, writeOff, handover, inventory, edit>>

SetLoan(l, status) == loan' = [loan EXCEPT ![l].status = status]

\* createWithin: the assets are locked, then checked.
LoanItems(S) == \A a \in S : assetStatus[a] \in Loanable /\ ~HeldByLoan(a) /\ ~HeldByWriteOff(a, None)

LoanCreation(l, S, r, status) ==
    /\ loan[l].status = "NONE"
    /\ S # {}
    /\ LoanItems(S)
    /\ \E c, target \in Centers :
         /\ c # target
         /\ \A a \in S : assetCenter[a] = c
         /\ loan' = [loan EXCEPT ![l] = [NoLoan EXCEPT !.status = status, !.items = S, !.source = c,
                        !.back = [a \in Assets |-> IF a \in S THEN assetStatus[a] ELSE "IN_USE"],
                        !.request = r]]

LoanCreate(l, S) ==
    /\ LoanCreation(l, S, None, "REQUESTED")
    /\ UNCHANGED <<assetVars, request, acta, cancelling, loanOthers>>

LoanApprove(l) ==
    /\ loan[l].status = "REQUESTED"
    /\ SetLoan(l, "APPROVED")
    /\ UNCHANGED <<assetVars, request, acta, cancelling, loanOthers>>

\* The listeners of AssetRequestCompletionObserver: they act only on the
\* request that names this loan and still waits for it.
RequestWaits(l) ==
    /\ loan[l].request # None
    /\ request[loan[l].request].loan = l
    /\ request[loan[l].request].status = "LOAN_SCHEDULED"

OnLoanDelivered(l) ==
    request' = IF RequestWaits(l)
               THEN [request EXCEPT ![loan[l].request].status = "DOCUMENT_GENERATED"]
               ELSE request

CloseByLoan(l, next) ==
    request' = IF RequestWaits(l)
               THEN [request EXCEPT ![loan[l].request].status = next, ![loan[l].request].open = {}]
               ELSE request

LoanReject(l) ==
    /\ loan[l].status \in {"REQUESTED", "APPROVED"}
    /\ SetLoan(l, "REJECTED")
    /\ CloseByLoan(l, "CLOSED_LOAN_REJECTED")
    /\ UNCHANGED <<assetVars, acta, cancelling, loanOthers>>

LoanCancel(l) ==
    /\ loan[l].status = "APPROVED"
    /\ SetLoan(l, "CANCELLED")
    /\ CloseByLoan(l, "CLOSED_LOAN_CANCELLED")
    /\ UNCHANGED <<assetVars, acta, cancelling, loanOthers>>

\* deliverWithin's guard on each asset, as AssetStateService reads it.
Deliverable(l, a) == assetCenter[a] = loan[l].source /\ assetStatus[a] \in Loanable

\* Mutant: the status to go back to is the one the loan was requested with.
LoanDeliverAsRequested(l, k) ==
    /\ loan[l].status = "APPROVED"
    /\ \A a \in loan[l].items : Deliverable(l, a)
    /\ assetStatus' = [a \in Assets |-> IF a \in loan[l].items THEN "ON_LOAN" ELSE assetStatus[a]]
    /\ loan' = [loan EXCEPT ![l].status = "PENDING_SIGNATURES", ![l].delivered = TRUE]
    /\ Enqueue(k, l, "MAIN")
    /\ OnLoanDelivered(l)
    /\ UNCHANGED <<assetCenter, responsible, cancelling, loanOthers>>

LoanDeliver(l, k) ==
    /\ loan[l].status = "APPROVED"
    /\ \A a \in loan[l].items : Deliverable(l, a)
    /\ assetStatus' = [a \in Assets |-> IF a \in loan[l].items THEN "ON_LOAN" ELSE assetStatus[a]]
    /\ loan' = [loan EXCEPT ![l].status = "PENDING_SIGNATURES", ![l].delivered = TRUE,
                  ![l].back = [a \in Assets |-> IF a \in loan[l].items THEN assetStatus[a] ELSE "IN_USE"]]
    /\ Enqueue(k, l, "MAIN")
    /\ OnLoanDelivered(l)
    /\ UNCHANGED <<assetCenter, responsible, cancelling, loanOthers>>

\* generated: an earlier acta must be out of force; the loan's own status is
\* not looked at.
LoanActaGenerated(k) ==
    \E l \in Loans :
      /\ acta[k].owner = l /\ acta[k].kind = "MAIN"
      /\ loan[l].delivered
      /\ loan[l].document # None => acta[loan[l].document].status \in {"REJECTED", "VOIDED"}
      /\ Generates(k)
      /\ loan' = [loan EXCEPT ![l].document = k]
      /\ UNCHANGED <<assetVars, request, cancelling, loanOthers>>

LoanActaSigned(k) ==
    \E l \in Loans :
      /\ acta[k].owner = l
      /\ loan[l].document = k
      /\ ClosesSigned(k)
      /\ SetLoan(l, IF loan[l].status = "PENDING_SIGNATURES" THEN "ACTIVE" ELSE loan[l].status)
      /\ UNCHANGED <<assetVars, request, cancelling, loanOthers>>

LoanActaRejected(k) ==
    \E l \in Loans :
      /\ acta[k].owner = l
      /\ loan[l].document = k
      /\ ClosesRejected(k)
      /\ UNCHANGED <<assetVars, loan, request, cancelling, loanOthers>>

\* The acta of a return only leaves an event in the loan's history.
ReturnActa(k) ==
    /\ acta[k].kind = "RETURN"
    /\ Generates(k) \/ ClosesSigned(k) \/ ClosesRejected(k)
    /\ UNCHANGED <<assetVars, loan, request, cancelling, loanOthers>>

\* Mutant: the acta may be any.
RegenerableAlways(l) == loan[l].document # None

\* deliveryAct reads the newest request first: while it waits there is
\* nothing to regenerate.
Regenerable(l) ==
    /\ \A j \in ActasOf(l) : acta[j].status # "QUEUED"
    /\ loan[l].document # None
    /\ acta[loan[l].document].status = "REJECTED"

RegenerateDeliveryAct(l, k) ==
    /\ loan[l].status = "PENDING_SIGNATURES"
    /\ Regenerable(l)
    /\ Enqueue(k, l, "MAIN")
    /\ UNCHANGED <<assetVars, loan, request, cancelling, loanOthers>>

-----------------------------------------------------------------------------
(* undoDelivery voids the actas first and locks the loan afterwards.  When *)
(* something was voided, its locked rows keep every other transaction of   *)
(* the loan out until the commit, so both steps are one.                   *)

\* Mutant: the assets keep their status.
UndoDeliveryEffectOnLoan(l) ==
    /\ loan[l].status = "PENDING_SIGNATURES"
    /\ SetLoan(l, "CANCELLED")
    /\ UNCHANGED assetStatus

UndoDeliveryEffect(l) ==
    /\ loan[l].status = "PENDING_SIGNATURES"
    /\ \A a \in loan[l].items : assetStatus[a] = "ON_LOAN"
    /\ assetStatus' = [a \in Assets |-> IF a \in loan[l].items THEN loan[l].back[a] ELSE assetStatus[a]]
    /\ SetLoan(l, "CANCELLED")

UndoDelivery(l) ==
    /\ cancelling[l] = "no"
    /\ LiveActas(l) # {}
    /\ VoidForEntity(l)
    /\ UndoDeliveryEffect(l)
    /\ UNCHANGED <<assetCenter, responsible, request, cancelling, loanOthers>>

\* There was nothing to void.
UndoFindsNoActa(l) ==
    /\ cancelling[l] = "no"
    /\ loan[l].status # "NONE"
    /\ LiveActas(l) = {}
    /\ SignedActas(l) = {}
    /\ cancelling' = [cancelling EXCEPT ![l] = "voided"]
    /\ UNCHANGED <<assetVars, processVars, acta, edit>>

UndoLocksLoan(l) ==
    /\ cancelling[l] = "voided"
    /\ cancelling' = [cancelling EXCEPT ![l] = "no"]
    /\ \/ UndoDeliveryEffect(l)
       \/ /\ ~(loan[l].status = "PENDING_SIGNATURES" /\ \A a \in loan[l].items : assetStatus[a] = "ON_LOAN")
          /\ UNCHANGED <<assetStatus, loan>>
    /\ UNCHANGED <<assetCenter, responsible, request, acta, loanOthers>>

-----------------------------------------------------------------------------
(* Return, extension and the daily overdue job.                            *)

StartReturn(l, S, condition) ==
    /\ loan[l].status \in {"ACTIVE", "OVERDUE", "PARTIALLY_RETURNED"}
    /\ S # {} /\ S \subseteq loan[l].items \ loan[l].received
    /\ loan' = [loan EXCEPT ![l].status = "PENDING_RECEPTION",
                  ![l].condition = [a \in Assets |-> IF a \in S THEN condition[a] ELSE loan[l].condition[a]]]
    /\ UNCHANGED <<assetVars, request, acta, cancelling, loanOthers>>

StatusAfterReception(items, received, condition) ==
    CASE items # received -> "PARTIALLY_RETURNED"
      [] items = received /\ (\E a \in items : condition[a] = "LOST") -> "CLOSED_WITH_LOSSES"
      [] OTHER -> "RETURNED"

\* Mutant: the condition is written as the status.
StatusOnReturnByCondition(l, a) == loan[l].condition[a]

StatusOnReturn(l, a) == IF loan[l].condition[a] = "LOST" THEN "LOST" ELSE loan[l].back[a]

\* A return acta is requested when its format is ready.
ReceiveReturn(l) ==
    LET back == {a \in loan[l].items \ loan[l].received : loan[l].condition[a] # "NONE"} IN
    /\ loan[l].status = "PENDING_RECEPTION"
    /\ back # {}
    /\ \A a \in back : assetStatus[a] = "ON_LOAN"
    /\ assetStatus' = [a \in Assets |-> IF a \in back THEN StatusOnReturn(l, a) ELSE assetStatus[a]]
    /\ loan' = [loan EXCEPT ![l].received = @ \cup back,
                  ![l].status = StatusAfterReception(loan[l].items, loan[l].received \cup back, loan[l].condition)]
    /\ UNCHANGED acta \/ \E k \in Actas : Enqueue(k, l, "RETURN")
    /\ UNCHANGED <<assetCenter, responsible, request, cancelling, loanOthers>>

MarkOverdue(l) ==
    /\ loan[l].status = "ACTIVE"
    /\ SetLoan(l, "OVERDUE")
    /\ UNCHANGED <<assetVars, request, acta, cancelling, loanOthers>>

RequestExtension(l) ==
    /\ loan[l].status \in {"ACTIVE", "OVERDUE"}
    /\ loan' = [loan EXCEPT ![l].extension = TRUE]
    /\ UNCHANGED <<assetVars, request, acta, cancelling, loanOthers>>

\* An overdue loan is reopened unless the requested date has passed as well.
ApproveExtension(l) ==
    /\ loan[l].status \in {"ACTIVE", "OVERDUE"}
    /\ loan[l].extension
    /\ \E status \in {loan[l].status, "ACTIVE"} :
         loan' = [loan EXCEPT ![l].extension = FALSE, ![l].status = status]
    /\ UNCHANGED <<assetVars, request, acta, cancelling, loanOthers>>

RejectExtension(l) ==
    /\ loan[l].extension
    /\ loan' = [loan EXCEPT ![l].extension = FALSE]
    /\ UNCHANGED <<assetVars, request, acta, cancelling, loanOthers>>

LoanNext ==
    \/ \E l \in Loans :
         \/ \E S \in SUBSET Assets : LoanCreate(l, S)
         \/ LoanApprove(l) \/ LoanReject(l) \/ LoanCancel(l)
         \/ \E k \in Actas : LoanDeliver(l, k) \/ RegenerateDeliveryAct(l, k)
         \/ UndoDelivery(l) \/ UndoFindsNoActa(l) \/ UndoLocksLoan(l)
         \/ \E S \in SUBSET loan[l].items : \E condition \in [S -> {"GOOD", "LOST"}] : StartReturn(l, S, condition)
         \/ ReceiveReturn(l) \/ MarkOverdue(l)
         \/ RequestExtension(l) \/ ApproveExtension(l) \/ RejectExtension(l)
    \/ \E k \in Actas : LoanActaGenerated(k) \/ LoanActaSigned(k) \/ LoanActaRejected(k) \/ ReturnActa(k)

=============================================================================
