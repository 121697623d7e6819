---------------------------- MODULE RequestProcess ----------------------------
(***************************************************************************)
(* Requests of assets from one cost center to another:                     *)
(* AssetRequestsService.  An accepted request reserves its assets until    *)
(* Control Interno turns it into a loan (TEMPORARY) or a transfer          *)
(* (PERMANENT), or until it is closed or expires.                          *)
(***************************************************************************)
EXTENDS LoanProcess, TransferProcess

requestOthers == <<loan, transfer, writeOff, handover, inventory, acta, cancelling, edit>>

\* setStatus releases the reservation.
CloseRequest(r, status) == request' = [request EXCEPT ![r].status = status, ![r].open = {}]

RequestCreate(r, kind, requesting, owner) ==
    /\ request[r].status = "NONE"
    /\ requesting # owner
    /\ request' = [request EXCEPT ![r] = [NoRequest EXCEPT !.status = "REQUESTED", !.kind = kind,
                                            !.requesting = requesting, !.owner = owner]]
    /\ UNCHANGED <<assetVars, requestOthers>>

\* assertEligible: the assets are locked, then checked.
Eligible(r, a) ==
    /\ assetCenter[a] = request[r].owner
    /\ assetStatus[a] \in Loanable
    /\ ~HeldByLoan(a)
    /\ ~HeldByTransfer(a, None)
    /\ ~HeldByInventory(a)
    /\ ~HeldByRequest(a, r)
    /\ ~HeldByWriteOff(a, None)

RequestAccept(r, S) ==
    /\ request[r].status = "REQUESTED"
    /\ S # {}
    /\ \A a \in S : Eligible(r, a)
    /\ request' = [request EXCEPT ![r].status = "ACCEPTED", ![r].open = S]
    /\ UNCHANGED <<assetVars, requestOthers>>

RequestClose(r) ==
    /\ request[r].status = "REQUESTED"
    /\ CloseRequest(r, "CLOSED_BY_OWNER")
    /\ UNCHANGED <<assetVars, requestOthers>>

RequestCancel(r) ==
    /\ request[r].status \in {"REQUESTED", "RETURNED"}
    /\ CloseRequest(r, "CANCELLED")
    /\ UNCHANGED <<assetVars, requestOthers>>

ReturnToRequester(r) ==
    /\ request[r].status = "ACCEPTED"
    /\ request' = [request EXCEPT ![r].status = "RETURNED"]
    /\ UNCHANGED <<assetVars, requestOthers>>

\* statusAfterCorrection: a request whose kind or centers change goes back to
\* the owner and loses its assets; otherwise it keeps them.
SameTerms(r, kind, requesting, owner) ==
    kind = request[r].kind /\ requesting = request[r].requesting /\ owner = request[r].owner

RequestCorrect(r, kind, requesting, owner) ==
    /\ request[r].status = "RETURNED"
    /\ requesting # owner
    /\ request' = [request EXCEPT ![r] = [@ EXCEPT !.kind = kind, !.requesting = requesting, !.owner = owner,
          !.status = IF SameTerms(r, kind, requesting, owner) THEN "ACCEPTED" ELSE "REQUESTED",
          !.open = IF SameTerms(r, kind, requesting, owner) THEN request[r].open ELSE {}]]
    /\ UNCHANGED <<assetVars, requestOthers>>

RequestExpire(r) ==
    /\ request[r].status \in {"ACCEPTED", "RETURNED"}
    /\ CloseRequest(r, "EXPIRED")
    /\ UNCHANGED <<assetVars, requestOthers>>

\* generate: the assets must still be in the owner's cost center.
Generable(r, kind) ==
    /\ request[r].status = "ACCEPTED"
    /\ request[r].kind = kind
    /\ request[r].open # {}
    /\ \A a \in request[r].open : assetCenter[a] = request[r].owner

RequestGenerateLoan(r, l) ==
    /\ Generable(r, "TEMPORARY")
    /\ LoanCreation(l, request[r].open, r, "APPROVED")
    /\ request' = [request EXCEPT ![r].status = "LOAN_SCHEDULED", ![r].open = {}, ![r].loan = l]
    /\ UNCHANGED <<assetVars, transfer, writeOff, handover, inventory, acta, cancelling, edit>>

\* createWithin and generateWithin in the same transaction.
RequestGenerateTransfer(r, t, k) ==
    /\ Generable(r, "PERMANENT")
    /\ TransferCreation(t, request[r].open, request[r].requesting, "PENDING_SIGNATURES")
    /\ Enqueue(k, t, "MAIN")
    /\ request' = [request EXCEPT ![r].status = "DOCUMENT_GENERATED", ![r].open = {}, ![r].transfer = t]
    /\ UNCHANGED <<assetVars, loan, writeOff, handover, inventory, cancelling, edit>>

RequestNext ==
    \E r \in Requests :
      \/ \E kind \in {"TEMPORARY", "PERMANENT"}, requesting, owner \in Centers :
           RequestCreate(r, kind, requesting, owner) \/ RequestCorrect(r, kind, requesting, owner)
      \/ \E S \in SUBSET Assets : RequestAccept(r, S)
      \/ RequestClose(r) \/ RequestCancel(r) \/ ReturnToRequester(r) \/ RequestExpire(r)
      \/ \E l \in Loans : RequestGenerateLoan(r, l)
      \/ \E t \in Transfers, k \in Actas : RequestGenerateTransfer(r, t, k)

=============================================================================
