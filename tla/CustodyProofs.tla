---------------------------- MODULE CustodyProofs ----------------------------
(***************************************************************************)
(* Every step of CustodySystem keeps the types, the fit of each process    *)
(* with its actas and that of each request with its loan, for any number   *)
(* of assets, cost centers, persons and processes.  CustodyHoldsProofs     *)
(* states what follows and goes on.                                        *)
(***************************************************************************)
EXTENDS CustodySystem, FiniteSetTheorems, TLAPS

-----------------------------------------------------------------------------
(* Types.  A step changes few of the variables: each process has a lemma   *)
(* about the ones it changes.                                              *)

\* The empty records are records.
LEMMA EmptyRecords ==
    /\ NoLoan \in LoanRecord /\ NoTransfer \in TransferRecord /\ NoWriteOff \in WriteOffRecord
    /\ NoHandover \in HandoverRecord /\ NoRequest \in RequestRecord /\ Planned \in InventoryRecord
    /\ NoActa \in ActaRecord /\ NoEdit \in EditRecord
<1>1. NoLoan \in LoanRecord
    BY DEF NoLoan, LoanRecord, LoanStatus, OperationalStatus
<1>2. NoTransfer \in TransferRecord /\ NoWriteOff \in WriteOffRecord /\ NoHandover \in HandoverRecord
    BY DEF NoTransfer, TransferRecord, NoWriteOff, WriteOffRecord, NoHandover, HandoverRecord, ActStatus, HandoverStatus
<1>3. NoRequest \in RequestRecord
    BY DEF NoRequest, RequestRecord, RequestStatus
<1>4. Planned \in InventoryRecord
    BY DEF Planned, InventoryRecord, InventoryStatus, ItemResult
<1>5. NoActa \in ActaRecord /\ NoEdit \in EditRecord
    BY DEF NoActa, ActaRecord, ActaStatus, NoEdit, EditRecord, OperationalStatus
<1> QED
    BY <1>1, <1>2, <1>3, <1>4, <1>5

\* A transfer that exists says where its assets go, and a request who wants them.
TargetsAreKnown ==
    /\ \A t \in Transfers : transfer[t].status # "NONE" => transfer[t].target \in Centers
    /\ \A r \in Requests : request[r].status # "NONE" => request[r].requesting \in Centers

LEMMA InitType == Init => TypeOK
BY EmptyRecords DEF Init, TypeOK, OperationalStatus

\* What the engine's operations leave in the actas.
LEMMA ActaType ==
    ASSUME TypeOK, NEW k \in Actas, NEW p \in Processes, NEW kind \in {"MAIN", "RETURN"},
           \/ Enqueue(k, p, kind) \/ VoidForEntity(p)
           \/ Generates(k) \/ ClosesSigned(k) \/ ClosesRejected(k)
    PROVE  acta' \in [Actas -> ActaRecord]
<1> USE DEF TypeOK, ActaRecord, ActaStatus
<1>1. CASE Enqueue(k, p, kind)
    BY <1>1 DEF Enqueue
<1>2. CASE VoidForEntity(p)
    BY <1>2 DEF VoidForEntity
<1>3. CASE Generates(k) \/ ClosesSigned(k) \/ ClosesRejected(k)
    BY <1>3 DEF Generates, ClosesSigned, ClosesRejected
<1> QED
    BY <1>1, <1>2, <1>3

\* Loans: the combinations of fields that its operations write.
LEMMA LoanFieldType ==
    ASSUME TypeOK, NEW l \in Loans
    PROVE  /\ \A st \in LoanStatus : [loan EXCEPT ![l].status = st] \in [Loans -> LoanRecord]
           /\ \A ext \in BOOLEAN : [loan EXCEPT ![l].extension = ext] \in [Loans -> LoanRecord]
           /\ \A k \in Actas : [loan EXCEPT ![l].document = k] \in [Loans -> LoanRecord]
           /\ \A st \in LoanStatus, ext \in BOOLEAN :
                [loan EXCEPT ![l].extension = ext, ![l].status = st] \in [Loans -> LoanRecord]
           /\ \A st \in LoanStatus, back \in [Assets -> OperationalStatus] :
                [loan EXCEPT ![l].status = st, ![l].delivered = TRUE, ![l].back = back] \in [Loans -> LoanRecord]
           /\ \A st \in LoanStatus, condition \in [Assets -> {"NONE", "GOOD", "LOST"}] :
                [loan EXCEPT ![l].status = st, ![l].condition = condition] \in [Loans -> LoanRecord]
           /\ \A st \in LoanStatus, S \in SUBSET Assets :
                [loan EXCEPT ![l].received = S, ![l].status = st] \in [Loans -> LoanRecord]
<1>1. loan \in [Loans -> LoanRecord] /\ loan[l] \in LoanRecord
    BY DEF TypeOK
<1>2. ASSUME NEW st \in LoanStatus
      PROVE  [loan EXCEPT ![l].status = st] \in [Loans -> LoanRecord]
    BY <1>1 DEF LoanRecord
<1>7. ASSUME NEW ext \in BOOLEAN
      PROVE  [loan EXCEPT ![l].extension = ext] \in [Loans -> LoanRecord]
    BY <1>1 DEF LoanRecord
<1>8. ASSUME NEW k \in Actas
      PROVE  [loan EXCEPT ![l].document = k] \in [Loans -> LoanRecord]
    BY <1>1 DEF LoanRecord
<1>3. ASSUME NEW st \in LoanStatus, NEW ext \in BOOLEAN
      PROVE  [loan EXCEPT ![l].extension = ext, ![l].status = st] \in [Loans -> LoanRecord]
    BY <1>1 DEF LoanRecord
<1>4. ASSUME NEW st \in LoanStatus, NEW back \in [Assets -> OperationalStatus]
      PROVE  [loan EXCEPT ![l].status = st, ![l].delivered = TRUE, ![l].back = back] \in [Loans -> LoanRecord]
    BY <1>1 DEF LoanRecord
<1>5. ASSUME NEW st \in LoanStatus, NEW condition \in [Assets -> {"NONE", "GOOD", "LOST"}]
      PROVE  [loan EXCEPT ![l].status = st, ![l].condition = condition] \in [Loans -> LoanRecord]
    BY <1>1 DEF LoanRecord
<1>6. ASSUME NEW st \in LoanStatus, NEW S \in SUBSET Assets
      PROVE  [loan EXCEPT ![l].received = S, ![l].status = st] \in [Loans -> LoanRecord]
    BY <1>1 DEF LoanRecord
<1> QED
    BY <1>2, <1>3, <1>4, <1>5, <1>6, <1>7, <1>8

\* The statuses the operations of a loan write.
LEMMA LoanStatuses ==
    /\ {"REQUESTED", "APPROVED", "REJECTED", "CANCELLED", "PENDING_SIGNATURES", "ACTIVE", "OVERDUE", "PENDING_RECEPTION"}
         \subseteq LoanStatus
    /\ \A items, received, condition : StatusAfterReception(items, received, condition) \in LoanStatus
BY DEF LoanStatus, StatusAfterReception

LEMMA LoanCreationType ==
    ASSUME TypeOK, NEW l \in Loans, NEW S \in SUBSET Assets, NEW r \in Requests \cup {None},
           NEW st \in LoanStatus, LoanCreation(l, S, r, st)
    PROVE  loan' \in [Loans -> LoanRecord]
<1>1. PICK c \in Centers :
        loan' = [loan EXCEPT ![l] = [NoLoan EXCEPT !.status = st, !.items = S, !.source = c,
                    !.back = [a \in Assets |-> IF a \in S THEN assetStatus[a] ELSE "IN_USE"],
                    !.request = r]]
    BY DEF LoanCreation
<1>2. [a \in Assets |-> IF a \in S THEN assetStatus[a] ELSE "IN_USE"] \in [Assets -> OperationalStatus]
    BY DEF TypeOK, OperationalStatus
<1>3. [NoLoan EXCEPT !.status = st, !.items = S, !.source = c,
                    !.back = [a \in Assets |-> IF a \in S THEN assetStatus[a] ELSE "IN_USE"],
                    !.request = r] \in LoanRecord
    BY <1>2, EmptyRecords DEF LoanRecord
<1> QED
    BY <1>1, <1>3 DEF TypeOK

\* The observer's two writes of a request.
LEMMA ObserverType ==
    ASSUME TypeOK, NEW l \in Loans,
           OnLoanDelivered(l) \/ \E next \in RequestStatus : CloseByLoan(l, next)
    PROVE  request' \in [Requests -> RequestRecord]
<1>1. CASE OnLoanDelivered(l)
    <2>1. ASSUME NEW r \in Requests, NEW next \in RequestStatus
          PROVE  [request EXCEPT ![r].status = next] \in [Requests -> RequestRecord]
        <3>1. request \in [Requests -> RequestRecord] /\ request[r] \in RequestRecord
            BY DEF TypeOK
        <3> QED
            BY <3>1 DEF RequestRecord
    <2>2. loan[l].request \in Requests \cup {None} /\ request \in [Requests -> RequestRecord]
        BY DEF TypeOK, LoanRecord
    <2>3. "DOCUMENT_GENERATED" \in RequestStatus
        BY DEF RequestStatus
    <2> QED
        BY <1>1, <2>1, <2>2, <2>3 DEF OnLoanDelivered, RequestWaits
<1>2. CASE \E next \in RequestStatus : CloseByLoan(l, next)
    <2>1. ASSUME NEW r \in Requests, NEW next \in RequestStatus
          PROVE  [request EXCEPT ![r].status = next, ![r].open = {}] \in [Requests -> RequestRecord]
        <3>1. request \in [Requests -> RequestRecord] /\ request[r] \in RequestRecord
            BY DEF TypeOK
        <3> QED
            BY <3>1 DEF RequestRecord
    <2>2. loan[l].request \in Requests \cup {None} /\ request \in [Requests -> RequestRecord]
        BY DEF TypeOK, LoanRecord
    <2>3. PICK next \in RequestStatus : CloseByLoan(l, next)
        BY <1>2
    <2>4. CASE RequestWaits(l)
        BY <2>1, <2>2, <2>3, <2>4 DEF CloseByLoan, RequestWaits
    <2>5. CASE ~ RequestWaits(l)
        BY <2>2, <2>3, <2>5 DEF CloseByLoan
    <2> QED
        BY <2>4, <2>5
<1> QED
    BY <1>1, <1>2

\* The delivery and what undoes it.
LEMMA DeliveryType ==
    ASSUME TypeOK, NEW l \in Loans,
           \/ UndoDeliveryEffect(l)
           \/ \E k \in Actas : LoanDeliver(l, k)
    PROVE  /\ assetStatus' \in [Assets -> OperationalStatus]
           /\ loan' \in [Loans -> LoanRecord]
<1>1. loan[l] \in LoanRecord /\ loan[l].back \in [Assets -> OperationalStatus]
    BY DEF TypeOK, LoanRecord
<1>2. CASE UndoDeliveryEffect(l)
    <2>1. assetStatus' \in [Assets -> OperationalStatus]
        BY <1>1, <1>2 DEF UndoDeliveryEffect, TypeOK
    <2>2. loan' = [loan EXCEPT ![l].status = "CANCELLED"]
        BY <1>2 DEF UndoDeliveryEffect, SetLoan
    <2>3. loan' \in [Loans -> LoanRecord]
        BY <2>2, LoanFieldType, LoanStatuses
    <2> QED
        BY <2>1, <2>3
<1>3. CASE \E k \in Actas : LoanDeliver(l, k)
    <2>1. [a \in Assets |-> IF a \in loan[l].items THEN assetStatus[a] ELSE "IN_USE"] \in [Assets -> OperationalStatus]
        BY DEF TypeOK, OperationalStatus
    <2>2. loan' \in [Loans -> LoanRecord]
        <3> DEFINE back == [a \in Assets |-> IF a \in loan[l].items THEN assetStatus[a] ELSE "IN_USE"]
        <3>1. loan' = [loan EXCEPT ![l].status = "PENDING_SIGNATURES", ![l].delivered = TRUE, ![l].back = back]
            BY <1>3 DEF LoanDeliver
        <3>2. back \in [Assets -> OperationalStatus] /\ "PENDING_SIGNATURES" \in LoanStatus
            BY <2>1, LoanStatuses
        <3> HIDE DEF back
        <3> QED
            BY <3>1, <3>2, LoanFieldType
    <2>3. assetStatus' \in [Assets -> OperationalStatus]
        BY <1>3 DEF LoanDeliver, TypeOK, OperationalStatus
    <2> QED
        BY <2>2, <2>3
<1> QED
    BY <1>2, <1>3

\* The two steps of a return.
LEMMA ReturnType ==
    ASSUME TypeOK, NEW l \in Loans,
           \/ ReceiveReturn(l)
           \/ \E S \in SUBSET loan[l].items : \E condition \in [S -> {"GOOD", "LOST"}] : StartReturn(l, S, condition)
    PROVE  /\ assetStatus' \in [Assets -> OperationalStatus]
           /\ loan' \in [Loans -> LoanRecord]
<1>1. loan[l] \in LoanRecord /\ loan[l].back \in [Assets -> OperationalStatus]
    BY DEF TypeOK, LoanRecord
<1>2. CASE ReceiveReturn(l)
    <2>1. \A a \in Assets : StatusOnReturn(l, a) \in OperationalStatus
        BY <1>1 DEF StatusOnReturn, OperationalStatus
    <2>2. assetStatus' \in [Assets -> OperationalStatus]
        BY <1>2, <2>1 DEF ReceiveReturn, TypeOK
    <2>4. loan' \in [Loans -> LoanRecord]
        <3> DEFINE back == {a \in loan[l].items \ loan[l].received : loan[l].condition[a] # "NONE"}
                   st == StatusAfterReception(loan[l].items, loan[l].received \cup back, loan[l].condition)
        <3>1. st \in LoanStatus /\ loan[l].received \cup back \in SUBSET Assets
            BY <1>1, LoanStatuses DEF LoanRecord
        <3>2. loan' = [loan EXCEPT ![l].received = @ \cup back, ![l].status = st]
            BY <1>2 DEF ReceiveReturn
        <3> HIDE DEF back, st
        <3> QED
            BY <3>1, <3>2, LoanFieldType
    <2> QED
        BY <2>2, <2>4
<1>3. ASSUME NEW S \in SUBSET loan[l].items, NEW condition \in [S -> {"GOOD", "LOST"}], StartReturn(l, S, condition)
      PROVE  loan' \in [Loans -> LoanRecord] /\ UNCHANGED assetStatus
    <2>1. [a \in Assets |-> IF a \in S THEN condition[a] ELSE loan[l].condition[a]] \in [Assets -> {"NONE", "GOOD", "LOST"}]
        BY <1>1, <1>3 DEF LoanRecord
    <2> QED
        BY <1>3, <2>1, LoanFieldType, LoanStatuses DEF StartReturn, assetVars
<1> QED
    BY <1>2, <1>3 DEF TypeOK

\* A step that only changes the loans, requests, actas and statuses of assets.
LEMMA LoanStepType ==
    ASSUME TypeOK, UNCHANGED <<assetCenter, responsible, cancelling, loanOthers>>,
           assetStatus' \in [Assets -> OperationalStatus], loan' \in [Loans -> LoanRecord],
           request' \in [Requests -> RequestRecord], acta' \in [Actas -> ActaRecord]
    PROVE  TypeOK'
BY DEF TypeOK, loanOthers

\* The operations on one loan that write fields of the loan, and perhaps of
\* the request that ordered it.
LEMMA SimpleLoanType ==
    ASSUME TypeOK, NEW l \in Loans,
           \/ \E S \in SUBSET Assets : LoanCreate(l, S)
           \/ LoanApprove(l) \/ LoanReject(l) \/ LoanCancel(l)
           \/ MarkOverdue(l) \/ RequestExtension(l) \/ ApproveExtension(l) \/ RejectExtension(l)
    PROVE  TypeOK'
<1>0. /\ assetStatus \in [Assets -> OperationalStatus] /\ acta \in [Actas -> ActaRecord]
      /\ request \in [Requests -> RequestRecord] /\ loan[l].status \in LoanStatus
    BY DEF TypeOK, LoanRecord
<1>1. ASSUME NEW S \in SUBSET Assets, LoanCreate(l, S) PROVE TypeOK'
    BY <1>0, <1>1, LoanStepType, LoanCreationType, LoanStatuses DEF LoanCreate, assetVars
<1>2. CASE LoanApprove(l)
    BY <1>0, <1>2, LoanStepType, LoanFieldType, LoanStatuses DEF LoanApprove, SetLoan, assetVars
<1>3. CASE LoanReject(l)
    <2>1. "CLOSED_LOAN_REJECTED" \in RequestStatus
        BY DEF RequestStatus
    <2> QED
        BY <1>0, <1>3, <2>1, LoanStepType, LoanFieldType, LoanStatuses, ObserverType DEF LoanReject, SetLoan, assetVars
<1>4. CASE LoanCancel(l)
    <2>1. "CLOSED_LOAN_CANCELLED" \in RequestStatus
        BY DEF RequestStatus
    <2> QED
        BY <1>0, <1>4, <2>1, LoanStepType, LoanFieldType, LoanStatuses, ObserverType DEF LoanCancel, SetLoan, assetVars
<1>5. CASE MarkOverdue(l)
    BY <1>0, <1>5, LoanStepType, LoanFieldType, LoanStatuses DEF MarkOverdue, SetLoan, assetVars
<1>6. CASE RequestExtension(l) \/ RejectExtension(l)
    <2>1. loan' \in [Loans -> LoanRecord]
        <3>1. PICK ext \in BOOLEAN : loan' = [loan EXCEPT ![l].extension = ext]
            BY <1>6 DEF RequestExtension, RejectExtension
        <3> QED
            BY <3>1, LoanFieldType
    <2> QED
        BY <1>0, <1>6, <2>1, LoanStepType DEF RequestExtension, RejectExtension, assetVars
<1>7. CASE ApproveExtension(l)
    <2>1. PICK status \in LoanStatus : loan' = [loan EXCEPT ![l].extension = FALSE, ![l].status = status]
        BY <1>0, <1>7, LoanStatuses DEF ApproveExtension
    <2>2. loan' \in [Loans -> LoanRecord]
        BY <2>1, LoanFieldType
    <2> QED
        BY <1>0, <1>7, <2>2, LoanStepType DEF ApproveExtension, assetVars
<1> QED
    BY <1>1, <1>2, <1>3, <1>4, <1>5, <1>6, <1>7

\* Every other operation of the loans.
LEMMA LoanType == ASSUME TypeOK, LoanNext PROVE TypeOK'
<1>0. /\ assetStatus \in [Assets -> OperationalStatus] /\ acta \in [Actas -> ActaRecord]
      /\ request \in [Requests -> RequestRecord] /\ loan \in [Loans -> LoanRecord]
      /\ \A l \in Loans : loan[l].status \in LoanStatus /\ l \in Processes
    BY DEF TypeOK, LoanRecord, Processes
<1>1. ASSUME NEW l \in Loans, NEW k \in Actas, LoanDeliver(l, k) PROVE TypeOK'
    <2>1. acta' \in [Actas -> ActaRecord]
        BY <1>0, <1>1, ActaType DEF LoanDeliver
    <2>2. request' \in [Requests -> RequestRecord]
        BY <1>1, ObserverType DEF LoanDeliver
    <2> QED
        BY <1>1, <2>1, <2>2, DeliveryType, LoanStepType DEF LoanDeliver
<1>2. ASSUME NEW l \in Loans, NEW k \in Actas, RegenerateDeliveryAct(l, k) PROVE TypeOK'
    <2>1. acta' \in [Actas -> ActaRecord]
        BY <1>0, <1>2, ActaType DEF RegenerateDeliveryAct
    <2> QED
        BY <1>0, <1>2, <2>1, LoanStepType DEF RegenerateDeliveryAct, assetVars
<1>3. ASSUME NEW l \in Loans, UndoDelivery(l) PROVE TypeOK'
    <2>1. acta' \in [Actas -> ActaRecord]
        BY <1>0, <1>3 DEF UndoDelivery, VoidForEntity, TypeOK, ActaRecord, ActaStatus
    <2> QED
        BY <1>0, <1>3, <2>1, DeliveryType, LoanStepType DEF UndoDelivery
<1>4. ASSUME NEW l \in Loans, UndoFindsNoActa(l) PROVE TypeOK'
    BY <1>4 DEF UndoFindsNoActa, TypeOK, assetVars, processVars
<1>5. ASSUME NEW l \in Loans, UndoLocksLoan(l) PROVE TypeOK'
    <2>1. loan' \in [Loans -> LoanRecord] /\ assetStatus' \in [Assets -> OperationalStatus]
        BY <1>0, <1>5, DeliveryType DEF UndoLocksLoan
    <2>2. cancelling' \in [Loans \cup Transfers \cup WriteOffs -> {"no", "checked", "voided"}]
        BY <1>5 DEF UndoLocksLoan, TypeOK
    <2> QED
        BY <1>5, <2>1, <2>2 DEF UndoLocksLoan, TypeOK, loanOthers
<1>6. ASSUME NEW l \in Loans, NEW S \in SUBSET loan[l].items, NEW condition \in [S -> {"GOOD", "LOST"}],
             StartReturn(l, S, condition)
      PROVE  TypeOK'
    BY <1>0, <1>6, ReturnType, LoanStepType DEF StartReturn, assetVars
<1>7. ASSUME NEW l \in Loans, ReceiveReturn(l) PROVE TypeOK'
    <2>1. acta' \in [Actas -> ActaRecord]
        <3>1. ASSUME NEW k \in Actas, Enqueue(k, l, "RETURN") PROVE acta' \in [Actas -> ActaRecord]
            BY <1>0, <3>1, ActaType
        <3> QED
            BY <1>0, <1>7, <3>1 DEF ReceiveReturn
    <2> QED
        BY <1>0, <1>7, <2>1, ReturnType, LoanStepType DEF ReceiveReturn
<1>8. ASSUME NEW k \in Actas, LoanActaGenerated(k) \/ LoanActaSigned(k) \/ LoanActaRejected(k) \/ ReturnActa(k)
      PROVE  TypeOK'
    <2>1. acta' \in [Actas -> ActaRecord]
        BY <1>8 DEF LoanActaGenerated, LoanActaSigned, LoanActaRejected, ReturnActa,
                    Generates, ClosesSigned, ClosesRejected, TypeOK, ActaRecord, ActaStatus
    <2>2. loan' \in [Loans -> LoanRecord]
        <3>1. CASE LoanActaGenerated(k)
            <4>1. PICK l \in Loans : loan' = [loan EXCEPT ![l].document = k]
                BY <3>1 DEF LoanActaGenerated
            <4> QED
                BY <4>1, LoanFieldType
        <3>2. CASE LoanActaSigned(k)
            <4>1. PICK l \in Loans : SetLoan(l, IF loan[l].status = "PENDING_SIGNATURES" THEN "ACTIVE" ELSE loan[l].status)
                BY <3>2 DEF LoanActaSigned
            <4>2. PICK st \in LoanStatus : loan' = [loan EXCEPT ![l].status = st]
                BY <1>0, <4>1, LoanStatuses DEF SetLoan
            <4> QED
                BY <4>2, LoanFieldType
        <3>3. CASE LoanActaRejected(k) \/ ReturnActa(k)
            BY <1>0, <3>3 DEF LoanActaRejected, ReturnActa
        <3> QED
            BY <1>8, <3>1, <3>2, <3>3
    <2> QED
        BY <1>0, <1>8, <2>1, <2>2, LoanStepType
           DEF LoanActaGenerated, LoanActaSigned, LoanActaRejected, ReturnActa, assetVars
<1> QED
    BY <1>1, <1>2, <1>3, <1>4, <1>5, <1>6, <1>7, <1>8, SimpleLoanType DEF LoanNext

\* Transfers, write-offs and handovers: the fields that their operations write.
LEMMA TransferFieldType ==
    ASSUME TypeOK, NEW t \in Transfers
    PROVE  /\ \A st \in ActStatus : CloseTransfer(t, st) => transfer' \in [Transfers -> TransferRecord]
           /\ \A st \in ActStatus : [transfer EXCEPT ![t].status = st] \in [Transfers -> TransferRecord]
           /\ \A k \in Actas : [transfer EXCEPT ![t].document = k] \in [Transfers -> TransferRecord]
           /\ \A S \in SUBSET Assets : [transfer EXCEPT ![t].items = S, ![t].open = S] \in [Transfers -> TransferRecord]
<1>1. transfer \in [Transfers -> TransferRecord] /\ transfer[t] \in TransferRecord
    BY DEF TypeOK
<1>2. ASSUME NEW st \in ActStatus, CloseTransfer(t, st) PROVE transfer' \in [Transfers -> TransferRecord]
    <2>1. [transfer EXCEPT ![t].status = st, ![t].open = {}] \in [Transfers -> TransferRecord]
        BY <1>1 DEF TransferRecord
    <2> QED
        BY <1>2, <2>1 DEF CloseTransfer
<1>3. ASSUME NEW st \in ActStatus PROVE [transfer EXCEPT ![t].status = st] \in [Transfers -> TransferRecord]
    BY <1>1 DEF TransferRecord
<1>4. ASSUME NEW k \in Actas PROVE [transfer EXCEPT ![t].document = k] \in [Transfers -> TransferRecord]
    BY <1>1 DEF TransferRecord
<1>5. ASSUME NEW S \in SUBSET Assets
      PROVE  [transfer EXCEPT ![t].items = S, ![t].open = S] \in [Transfers -> TransferRecord]
    BY <1>1 DEF TransferRecord
<1> QED
    BY <1>2, <1>3, <1>4, <1>5

LEMMA WriteOffFieldType ==
    ASSUME TypeOK, NEW w \in WriteOffs
    PROVE  /\ \A st \in ActStatus : CloseWriteOff(w, st) => writeOff' \in [WriteOffs -> WriteOffRecord]
           /\ \A st \in ActStatus : [writeOff EXCEPT ![w].status = st] \in [WriteOffs -> WriteOffRecord]
           /\ \A k \in Actas : [writeOff EXCEPT ![w].document = k] \in [WriteOffs -> WriteOffRecord]
           /\ \A S \in SUBSET Assets : [writeOff EXCEPT ![w].items = S, ![w].open = S] \in [WriteOffs -> WriteOffRecord]
<1>1. writeOff \in [WriteOffs -> WriteOffRecord] /\ writeOff[w] \in WriteOffRecord
    BY DEF TypeOK
<1>2. ASSUME NEW st \in ActStatus, CloseWriteOff(w, st) PROVE writeOff' \in [WriteOffs -> WriteOffRecord]
    <2>1. [writeOff EXCEPT ![w].status = st, ![w].open = {}] \in [WriteOffs -> WriteOffRecord]
        BY <1>1 DEF WriteOffRecord
    <2> QED
        BY <1>2, <2>1 DEF CloseWriteOff
<1>3. ASSUME NEW st \in ActStatus PROVE [writeOff EXCEPT ![w].status = st] \in [WriteOffs -> WriteOffRecord]
    BY <1>1 DEF WriteOffRecord
<1>4. ASSUME NEW k \in Actas PROVE [writeOff EXCEPT ![w].document = k] \in [WriteOffs -> WriteOffRecord]
    BY <1>1 DEF WriteOffRecord
<1>5. ASSUME NEW S \in SUBSET Assets
      PROVE  [writeOff EXCEPT ![w].items = S, ![w].open = S] \in [WriteOffs -> WriteOffRecord]
    BY <1>1 DEF WriteOffRecord
<1> QED
    BY <1>2, <1>3, <1>4, <1>5

LEMMA HandoverFieldType ==
    ASSUME TypeOK, NEW h \in Handovers
    PROVE  /\ \A st \in HandoverStatus : CloseHandover(h, st) => handover' \in [Handovers -> HandoverRecord]
           /\ \A k \in Actas, st \in HandoverStatus :
                [handover EXCEPT ![h].document = k, ![h].status = st] \in [Handovers -> HandoverRecord]
<1>1. handover \in [Handovers -> HandoverRecord] /\ handover[h] \in HandoverRecord
    BY DEF TypeOK
<1>2. ASSUME NEW st \in HandoverStatus, CloseHandover(h, st) PROVE handover' \in [Handovers -> HandoverRecord]
    <2>1. [handover EXCEPT ![h].status = st, ![h].open = {}] \in [Handovers -> HandoverRecord]
        BY <1>1 DEF HandoverRecord
    <2> QED
        BY <1>2, <2>1 DEF CloseHandover
<1>3. ASSUME NEW k \in Actas, NEW st \in HandoverStatus
      PROVE  [handover EXCEPT ![h].document = k, ![h].status = st] \in [Handovers -> HandoverRecord]
    BY <1>1 DEF HandoverRecord
<1> QED
    BY <1>2, <1>3

\* A transfer or a write-off is created with some items.
LEMMA TransferCreationType ==
    ASSUME TypeOK, NEW t \in Transfers, NEW S \in SUBSET Assets, NEW target \in Centers, NEW st \in ActStatus,
           TransferCreation(t, S, target, st)
    PROVE  transfer' \in [Transfers -> TransferRecord]
<1>1. PICK c \in Centers : transfer' = [transfer EXCEPT ![t] = [NoTransfer EXCEPT
          !.status = st, !.items = S, !.open = S, !.source = c, !.target = target]]
    BY DEF TransferCreation
<1>2. [NoTransfer EXCEPT !.status = st, !.items = S, !.open = S, !.source = c, !.target = target] \in TransferRecord
    BY EmptyRecords DEF TransferRecord
<1> QED
    BY <1>1, <1>2 DEF TypeOK

\* Moving the assets of a transfer keeps them in cost centers because every
\* transfer that exists has a target.
LEMMA TransferType == ASSUME TypeOK, TargetsAreKnown, TransferNext PROVE TypeOK'
<1>0. /\ acta \in [Actas -> ActaRecord] /\ transfer \in [Transfers -> TransferRecord]
      /\ \A t \in Transfers : t \in Processes
      /\ {"DRAFT", "PENDING_SIGNATURES", "COMPLETED", "REJECTED", "CANCELLED"} \subseteq ActStatus
    BY DEF TypeOK, Processes, ActStatus
<1>1. ASSUME NEW t \in Transfers, NEW S \in SUBSET Assets,
             TransferUpdateItems(t, S) \/ \E c \in Centers : TransferCreate(t, S, c)
      PROVE  TypeOK'
    <2>1. transfer' \in [Transfers -> TransferRecord]
        <3>1. CASE TransferUpdateItems(t, S)
            BY <3>1, TransferFieldType DEF TransferUpdateItems
        <3>2. CASE \E c \in Centers : TransferCreate(t, S, c)
            BY <1>0, <3>2, TransferCreationType DEF TransferCreate
        <3> QED
            BY <1>1, <3>1, <3>2
    <2> QED
        BY <1>1, <2>1 DEF TransferUpdateItems, TransferCreate, TypeOK, assetVars, transferOthers
<1>2. ASSUME NEW t \in Transfers, NEW k \in Actas, TransferGenerate(t, k) PROVE TypeOK'
    <2>1. acta' \in [Actas -> ActaRecord]
        BY <1>0, <1>2, ActaType DEF TransferGenerate
    <2>2. transfer' \in [Transfers -> TransferRecord]
        BY <1>0, <1>2, TransferFieldType DEF TransferGenerate
    <2> QED
        BY <1>2, <2>1, <2>2 DEF TransferGenerate, TypeOK, assetVars, transferOthers
<1>3. ASSUME NEW t \in Transfers,
             \/ TransferCancelChecks(t) \/ TransferCancelVoids(t) \/ TransferCancelFindsNoActa(t)
             \/ TransferCancelLocks(t) \/ TransferCancelRefused(t)
      PROVE  TypeOK'
    <2>1. cancelling' \in [Loans \cup Transfers \cup WriteOffs -> {"no", "checked", "voided"}]
        BY <1>3 DEF TransferCancelChecks, TransferCancelVoids, TransferCancelFindsNoActa, TransferCancelLocks,
                    TransferCancelRefused, TypeOK
    <2>2. acta' \in [Actas -> ActaRecord]
        <3>1. CASE TransferCancelVoids(t)
            BY <3>1 DEF TransferCancelVoids, VoidForEntity, TypeOK, ActaRecord, ActaStatus
        <3>2. CASE ~ TransferCancelVoids(t)
            BY <1>0, <1>3, <3>2 DEF TransferCancelChecks, TransferCancelFindsNoActa, TransferCancelLocks, TransferCancelRefused
        <3> QED
            BY <3>1, <3>2
    <2>3. transfer' \in [Transfers -> TransferRecord]
        BY <1>0, <1>3, TransferFieldType
           DEF TransferCancelChecks, TransferCancelVoids, TransferCancelFindsNoActa, TransferCancelLocks,
               TransferCancelRefused, processVars
    <2> QED
        BY <1>3, <2>1, <2>2, <2>3
           DEF TransferCancelChecks, TransferCancelVoids, TransferCancelFindsNoActa, TransferCancelLocks,
               TransferCancelRefused, TypeOK, assetVars, processVars, transferOthers
<1>4. ASSUME NEW k \in Actas, TransferActaGenerated(k) \/ TransferActaSigned(k) \/ TransferActaRejected(k)
      PROVE  TypeOK'
    <2>1. acta' \in [Actas -> ActaRecord]
        BY <1>4 DEF TransferActaGenerated, TransferActaSigned, TransferActaRejected,
                    Generates, ClosesSigned, ClosesRejected, TypeOK, ActaRecord, ActaStatus
    <2>2. transfer' \in [Transfers -> TransferRecord]
        <3>1. CASE TransferActaGenerated(k)
            <4>1. PICK t \in Transfers : transfer' = [transfer EXCEPT ![t].document = k]
                BY <3>1 DEF TransferActaGenerated
            <4> QED
                BY <4>1, TransferFieldType
        <3>2. CASE TransferActaSigned(k) \/ TransferActaRejected(k)
            <4>1. PICK t \in Transfers, st \in ActStatus : CloseTransfer(t, st)
                BY <1>0, <3>2 DEF TransferActaSigned, TransferActaRejected
            <4> QED
                BY <4>1, TransferFieldType
        <3> QED
            BY <1>4, <3>1, <3>2
    <2>3. assetCenter' \in [Assets -> Centers]
        <3>1. CASE TransferActaSigned(k)
            <4>1. PICK t \in Transfers :
                    /\ TransferItems(transfer[t].items, transfer[t].source, t)
                    /\ assetCenter' = [a \in Assets |-> IF a \in transfer[t].items THEN transfer[t].target ELSE assetCenter[a]]
                    /\ transfer[t].status = "PENDING_SIGNATURES"
                BY <3>1 DEF TransferActaSigned
            <4>2. transfer[t].target \in Centers
                BY <4>1 DEF TargetsAreKnown
            <4> QED
                BY <4>1, <4>2 DEF TypeOK
        <3>2. CASE ~ TransferActaSigned(k)
            BY <1>4, <3>2 DEF TransferActaGenerated, TransferActaRejected, TypeOK, assetVars
        <3> QED
            BY <3>1, <3>2
    <2> QED
        BY <1>4, <2>1, <2>2, <2>3 DEF TransferActaGenerated, TransferActaSigned, TransferActaRejected,
               TypeOK, assetVars, transferOthers
<1> QED
    BY <1>1, <1>2, <1>3, <1>4 DEF TransferNext

LEMMA WriteOffType == ASSUME TypeOK, WriteOffNext PROVE TypeOK'
<1>0. /\ acta \in [Actas -> ActaRecord] /\ writeOff \in [WriteOffs -> WriteOffRecord]
      /\ \A w \in WriteOffs : w \in Processes
      /\ {"DRAFT", "PENDING_SIGNATURES", "COMPLETED", "REJECTED", "CANCELLED"} \subseteq ActStatus
    BY DEF TypeOK, Processes, ActStatus
<1>1. ASSUME NEW w \in WriteOffs, NEW S \in SUBSET Assets, WriteOffCreate(w, S) \/ WriteOffUpdate(w, S)
      PROVE  TypeOK'
    <2>1. [NoWriteOff EXCEPT !.status = "DRAFT", !.items = S, !.open = S] \in WriteOffRecord
        BY <1>0, EmptyRecords DEF WriteOffRecord
    <2>2. writeOff' \in [WriteOffs -> WriteOffRecord]
        <3>1. CASE WriteOffCreate(w, S)
            BY <1>0, <2>1, <3>1 DEF WriteOffCreate
        <3>2. CASE WriteOffUpdate(w, S)
            BY <3>2, WriteOffFieldType DEF WriteOffUpdate
        <3> QED
            BY <1>1, <3>1, <3>2
    <2> QED
        BY <1>1, <2>2 DEF WriteOffCreate, WriteOffUpdate, TypeOK, assetVars, writeOffOthers
<1>2. ASSUME NEW w \in WriteOffs, NEW k \in Actas, WriteOffGenerate(w, k) PROVE TypeOK'
    <2>1. acta' \in [Actas -> ActaRecord]
        BY <1>0, <1>2, ActaType DEF WriteOffGenerate
    <2>2. writeOff' \in [WriteOffs -> WriteOffRecord]
        BY <1>0, <1>2, WriteOffFieldType DEF WriteOffGenerate
    <2> QED
        BY <1>2, <2>1, <2>2 DEF WriteOffGenerate, TypeOK, assetVars, writeOffOthers
<1>3. ASSUME NEW w \in WriteOffs, WriteOffCancelChecks(w) \/ WriteOffCancelCloses(w) PROVE TypeOK'
    <2>1. cancelling' \in [Loans \cup Transfers \cup WriteOffs -> {"no", "checked", "voided"}]
        BY <1>3 DEF WriteOffCancelChecks, WriteOffCancelCloses, TypeOK
    <2>2. acta' \in [Actas -> ActaRecord]
        BY <1>3 DEF WriteOffCancelChecks, WriteOffCancelCloses, VoidForEntity, TypeOK, ActaRecord, ActaStatus
    <2>3. writeOff' \in [WriteOffs -> WriteOffRecord]
        BY <1>0, <1>3, WriteOffFieldType DEF WriteOffCancelChecks, WriteOffCancelCloses, processVars
    <2> QED
        BY <1>3, <2>1, <2>2, <2>3
           DEF WriteOffCancelChecks, WriteOffCancelCloses, TypeOK, assetVars, processVars, writeOffOthers
<1>4. ASSUME NEW k \in Actas, WriteOffActaGenerated(k) \/ WriteOffActaSigned(k) \/ WriteOffActaRejected(k)
      PROVE  TypeOK'
    <2>1. acta' \in [Actas -> ActaRecord]
        BY <1>4 DEF WriteOffActaGenerated, WriteOffActaSigned, WriteOffActaRejected,
                    Generates, ClosesSigned, ClosesRejected, TypeOK, ActaRecord, ActaStatus
    <2>2. writeOff' \in [WriteOffs -> WriteOffRecord]
        <3>1. CASE WriteOffActaGenerated(k)
            <4>1. PICK w \in WriteOffs : writeOff' = [writeOff EXCEPT ![w].document = k]
                BY <3>1 DEF WriteOffActaGenerated
            <4> QED
                BY <4>1, WriteOffFieldType
        <3>2. CASE WriteOffActaSigned(k) \/ WriteOffActaRejected(k)
            <4>1. PICK w \in WriteOffs, st \in ActStatus : CloseWriteOff(w, st)
                BY <1>0, <3>2 DEF WriteOffActaSigned, WriteOffActaRejected
            <4> QED
                BY <4>1, WriteOffFieldType
        <3> QED
            BY <1>4, <3>1, <3>2
    <2>3. assetStatus' \in [Assets -> OperationalStatus]
        BY <1>4 DEF WriteOffActaGenerated, WriteOffActaSigned, WriteOffActaRejected, TypeOK, OperationalStatus, assetVars
    <2> QED
        BY <1>4, <2>1, <2>2, <2>3
           DEF WriteOffActaGenerated, WriteOffActaSigned, WriteOffActaRejected, TypeOK, assetVars, writeOffOthers
<1> QED
    BY <1>1, <1>2, <1>3, <1>4 DEF WriteOffNext

LEMMA HandoverType == ASSUME TypeOK, HandoverNext PROVE TypeOK'
<1>0. /\ acta \in [Actas -> ActaRecord] /\ handover \in [Handovers -> HandoverRecord]
      /\ \A h \in Handovers : h \in Processes
      /\ {"AWAITING_DOCUMENT", "PENDING_SIGNATURE", "SIGNED", "REJECTED", "CANCELLED"} \subseteq HandoverStatus
    BY DEF TypeOK, Processes, HandoverStatus
<1>1. ASSUME NEW h \in Handovers, NEW S \in SUBSET Assets, NEW c \in Centers, NEW k \in Actas,
             HandoverCreate(h, S, c, k)
      PROVE  TypeOK'
    <2>1. [NoHandover EXCEPT !.status = "AWAITING_DOCUMENT", !.items = S, !.open = S, !.center = c] \in HandoverRecord
        BY <1>0, EmptyRecords DEF HandoverRecord
    <2>2. handover' \in [Handovers -> HandoverRecord]
        BY <1>0, <1>1, <2>1 DEF HandoverCreate
    <2>3. acta' \in [Actas -> ActaRecord]
        BY <1>0, <1>1, ActaType DEF HandoverCreate
    <2> QED
        BY <1>1, <2>2, <2>3 DEF HandoverCreate, TypeOK, assetVars, handoverOthers
<1>2. ASSUME NEW h \in Handovers, HandoverCancel(h) PROVE TypeOK'
    <2>1. acta' \in [Actas -> ActaRecord]
        BY <1>2 DEF HandoverCancel, VoidForEntity, TypeOK, ActaRecord, ActaStatus
    <2>2. handover' \in [Handovers -> HandoverRecord]
        BY <1>0, <1>2, HandoverFieldType DEF HandoverCancel
    <2> QED
        BY <1>2, <2>1, <2>2 DEF HandoverCancel, TypeOK, assetVars, handoverOthers
<1>3. ASSUME NEW k \in Actas, HandoverActaGenerated(k) \/ HandoverActaSigned(k) \/ HandoverActaRejected(k)
      PROVE  TypeOK'
    <2>1. acta' \in [Actas -> ActaRecord]
        <3>1. Generates(k) \/ ClosesSigned(k) \/ ClosesRejected(k)
            BY <1>3 DEF HandoverActaGenerated, HandoverActaSigned, HandoverActaRejected
        <3> QED
            BY <3>1 DEF Generates, ClosesSigned, ClosesRejected, TypeOK, ActaRecord, ActaStatus
    <2>2. handover' \in [Handovers -> HandoverRecord]
        <3>1. CASE HandoverActaGenerated(k)
            <4>1. PICK h \in Handovers :
                    handover' = [handover EXCEPT ![h].document = k, ![h].status = "PENDING_SIGNATURE"]
                BY <3>1 DEF HandoverActaGenerated
            <4> QED
                BY <1>0, <4>1, HandoverFieldType
        <3>2. CASE HandoverActaSigned(k) \/ HandoverActaRejected(k)
            <4>1. PICK h \in Handovers, st \in HandoverStatus : CloseHandover(h, st)
                BY <1>0, <3>2 DEF HandoverActaSigned, HandoverActaRejected
            <4> QED
                BY <4>1, HandoverFieldType
        <3> QED
            BY <1>3, <3>1, <3>2
    <2>3. responsible' \in [Assets -> Persons \cup {None}]
        BY <1>3 DEF HandoverActaGenerated, HandoverActaSigned, HandoverActaRejected, TypeOK, assetVars
    <2> QED
        BY <1>3, <2>1, <2>2, <2>3
           DEF HandoverActaGenerated, HandoverActaSigned, HandoverActaRejected, TypeOK, assetVars, handoverOthers
<1> QED
    BY <1>1, <1>2, <1>3 DEF HandoverNext

\* Requests: the fields that their operations write.
LEMMA RequestFieldType ==
    ASSUME TypeOK, NEW r \in Requests
    PROVE  /\ \A st \in RequestStatus : CloseRequest(r, st) => request' \in [Requests -> RequestRecord]
           /\ \A st \in RequestStatus : [request EXCEPT ![r].status = st] \in [Requests -> RequestRecord]
           /\ \A st \in RequestStatus, S \in SUBSET Assets :
                [request EXCEPT ![r].status = st, ![r].open = S] \in [Requests -> RequestRecord]
           /\ \A st \in RequestStatus, l \in Loans :
                [request EXCEPT ![r].status = st, ![r].open = {}, ![r].loan = l] \in [Requests -> RequestRecord]
           /\ \A st \in RequestStatus, t \in Transfers :
                [request EXCEPT ![r].status = st, ![r].open = {}, ![r].transfer = t] \in [Requests -> RequestRecord]
           /\ \A st \in RequestStatus, S \in SUBSET Assets, kind \in {"TEMPORARY", "PERMANENT"}, c, d \in Centers :
                [request EXCEPT ![r] = [@ EXCEPT !.kind = kind, !.requesting = c, !.owner = d, !.status = st, !.open = S]]
                  \in [Requests -> RequestRecord]
<1>1. request \in [Requests -> RequestRecord] /\ request[r] \in RequestRecord
    BY DEF TypeOK
<1>2. ASSUME NEW st \in RequestStatus, CloseRequest(r, st) PROVE request' \in [Requests -> RequestRecord]
    <2>1. [request EXCEPT ![r].status = st, ![r].open = {}] \in [Requests -> RequestRecord]
        BY <1>1 DEF RequestRecord
    <2> QED
        BY <1>2, <2>1 DEF CloseRequest
<1>3. ASSUME NEW st \in RequestStatus PROVE [request EXCEPT ![r].status = st] \in [Requests -> RequestRecord]
    BY <1>1 DEF RequestRecord
<1>4. ASSUME NEW st \in RequestStatus, NEW S \in SUBSET Assets
      PROVE  [request EXCEPT ![r].status = st, ![r].open = S] \in [Requests -> RequestRecord]
    BY <1>1 DEF RequestRecord
<1>5. ASSUME NEW st \in RequestStatus, NEW l \in Loans
      PROVE  [request EXCEPT ![r].status = st, ![r].open = {}, ![r].loan = l] \in [Requests -> RequestRecord]
    BY <1>1 DEF RequestRecord
<1>6. ASSUME NEW st \in RequestStatus, NEW t \in Transfers
      PROVE  [request EXCEPT ![r].status = st, ![r].open = {}, ![r].transfer = t] \in [Requests -> RequestRecord]
    BY <1>1 DEF RequestRecord
<1>7. ASSUME NEW st \in RequestStatus, NEW S \in SUBSET Assets, NEW kind \in {"TEMPORARY", "PERMANENT"},
             NEW c \in Centers, NEW d \in Centers
      PROVE  [request EXCEPT ![r] = [@ EXCEPT !.kind = kind, !.requesting = c, !.owner = d, !.status = st, !.open = S]]
               \in [Requests -> RequestRecord]
    BY <1>1 DEF RequestRecord
<1> QED
    BY <1>2, <1>3, <1>4, <1>5, <1>6, <1>7

\* A request becomes a transfer to the cost center that wants its assets.
LEMMA RequestType == ASSUME TypeOK, TargetsAreKnown, RequestNext PROVE TypeOK'
<1>0. /\ acta \in [Actas -> ActaRecord] /\ request \in [Requests -> RequestRecord]
      /\ \A t \in Transfers : t \in Processes
      /\ \A r \in Requests : request[r] \in RequestRecord /\ request[r].open \in SUBSET Assets
      /\ \A r \in Requests : request[r].requesting \in Centers \cup {None}
      /\ {"REQUESTED", "ACCEPTED", "CLOSED_BY_OWNER", "RETURNED", "LOAN_SCHEDULED", "DOCUMENT_GENERATED",
          "CANCELLED", "EXPIRED"} \subseteq RequestStatus
      /\ "APPROVED" \in LoanStatus /\ "PENDING_SIGNATURES" \in ActStatus
    BY DEF TypeOK, Processes, RequestRecord, RequestStatus, LoanStatus, ActStatus
<1>1. ASSUME NEW r \in Requests, NEW kind \in {"TEMPORARY", "PERMANENT"}, NEW requesting \in Centers, NEW owner \in Centers,
             RequestCreate(r, kind, requesting, owner)
      PROVE  TypeOK'
    <2>1. [NoRequest EXCEPT !.status = "REQUESTED", !.kind = kind, !.requesting = requesting, !.owner = owner] \in RequestRecord
        BY <1>0, EmptyRecords DEF RequestRecord
    <2> QED
        BY <1>0, <1>1, <2>1 DEF RequestCreate, TypeOK, assetVars, requestOthers
<1>2. ASSUME NEW r \in Requests, NEW kind \in {"TEMPORARY", "PERMANENT"}, NEW requesting \in Centers, NEW owner \in Centers,
             RequestCorrect(r, kind, requesting, owner)
      PROVE  TypeOK'
    <2> DEFINE st == IF SameTerms(r, kind, requesting, owner) THEN "ACCEPTED" ELSE "REQUESTED"
               S == IF SameTerms(r, kind, requesting, owner) THEN request[r].open ELSE {}
    <2>1. /\ request' = [request EXCEPT ![r] = [@ EXCEPT !.kind = kind, !.requesting = requesting, !.owner = owner,
                                                 !.status = st, !.open = S]]
          /\ st \in RequestStatus /\ S \in SUBSET Assets
        <3>1. st \in RequestStatus /\ S \in SUBSET Assets
            BY <1>0
        <3>2. request' = [request EXCEPT ![r] = [@ EXCEPT !.kind = kind, !.requesting = requesting, !.owner = owner,
                                                   !.status = st, !.open = S]]
            BY <1>2 DEF RequestCorrect
        <3> QED
            BY <3>1, <3>2
    <2> HIDE DEF st, S
    <2>2. request' \in [Requests -> RequestRecord]
        BY <2>1, RequestFieldType
    <2> QED
        BY <1>2, <2>2 DEF RequestCorrect, TypeOK, assetVars, requestOthers
<1>3. ASSUME NEW r \in Requests, NEW S \in SUBSET Assets, RequestAccept(r, S) PROVE TypeOK'
    <2>1. request' \in [Requests -> RequestRecord]
        BY <1>0, <1>3, RequestFieldType DEF RequestAccept
    <2> QED
        BY <1>3, <2>1 DEF RequestAccept, TypeOK, assetVars, requestOthers
<1>4. ASSUME NEW r \in Requests, RequestClose(r) \/ RequestCancel(r) \/ ReturnToRequester(r) \/ RequestExpire(r)
      PROVE  TypeOK'
    <2>1. request' \in [Requests -> RequestRecord]
        <3>1. CASE ReturnToRequester(r)
            BY <1>0, <3>1, RequestFieldType DEF ReturnToRequester
        <3>2. CASE RequestClose(r) \/ RequestCancel(r) \/ RequestExpire(r)
            <4>1. PICK st \in RequestStatus : CloseRequest(r, st)
                BY <1>0, <3>2 DEF RequestClose, RequestCancel, RequestExpire
            <4> QED
                BY <4>1, RequestFieldType
        <3> QED
            BY <1>4, <3>1, <3>2
    <2> QED
        BY <1>4, <2>1 DEF RequestClose, RequestCancel, ReturnToRequester, RequestExpire, TypeOK, assetVars, requestOthers
<1>5. ASSUME NEW r \in Requests, NEW l \in Loans, RequestGenerateLoan(r, l) PROVE TypeOK'
    <2>1. loan' \in [Loans -> LoanRecord]
        BY <1>0, <1>5, LoanCreationType DEF RequestGenerateLoan
    <2>2. request' \in [Requests -> RequestRecord]
        <3>1. request' = [request EXCEPT ![r].status = "LOAN_SCHEDULED", ![r].open = {}, ![r].loan = l]
            BY <1>5 DEF RequestGenerateLoan
        <3> QED
            BY <1>0, <3>1, RequestFieldType
    <2> QED
        BY <1>5, <2>1, <2>2 DEF RequestGenerateLoan, TypeOK, assetVars
<1>6. ASSUME NEW r \in Requests, NEW t \in Transfers, NEW k \in Actas, RequestGenerateTransfer(r, t, k) PROVE TypeOK'
    <2>1. transfer' \in [Transfers -> TransferRecord]
        <3>1. request[r].requesting \in Centers
            BY <1>6 DEF RequestGenerateTransfer, Generable, TargetsAreKnown
        <3> QED
            BY <1>0, <1>6, <3>1, TransferCreationType DEF RequestGenerateTransfer
    <2>2. request' \in [Requests -> RequestRecord]
        BY <1>0, <1>6, RequestFieldType DEF RequestGenerateTransfer
    <2>3. acta' \in [Actas -> ActaRecord]
        BY <1>0, <1>6, ActaType DEF RequestGenerateTransfer
    <2> QED
        BY <1>6, <2>1, <2>2, <2>3 DEF RequestGenerateTransfer, TypeOK, assetVars
<1> QED
    BY <1>1, <1>2, <1>3, <1>4, <1>5, <1>6 DEF RequestNext

\* Inventories: the fields that their operations write.
LEMMA InventoryFieldType ==
    ASSUME TypeOK, NEW i \in Inventories
    PROVE  /\ \A S \in SUBSET Assets : [inventory EXCEPT ![i].starting = TRUE, ![i].snapshot = S] \in [Inventories -> InventoryRecord]
           /\ \A f \in [Assets -> ItemResult] :
                [inventory EXCEPT ![i].starting = FALSE, ![i].snapshot = {}, ![i].status = "IN_PROGRESS", ![i].result = f]
                  \in [Inventories -> InventoryRecord]
           /\ [inventory EXCEPT ![i].status = "CANCELLED"] \in [Inventories -> InventoryRecord]
           /\ [inventory EXCEPT ![i].closing = TRUE] \in [Inventories -> InventoryRecord]
           /\ [inventory EXCEPT ![i].requested = TRUE] \in [Inventories -> InventoryRecord]
           /\ \A f \in [Assets -> ItemResult] :
                [inventory EXCEPT ![i].status = "CLOSED", ![i].closing = FALSE, ![i].result = f] \in [Inventories -> InventoryRecord]
           /\ \A S \in SUBSET Assets : [inventory EXCEPT ![i].approving = TRUE, ![i].losing = S] \in [Inventories -> InventoryRecord]
           /\ [inventory EXCEPT ![i].status = "RECONCILED", ![i].approving = FALSE, ![i].losing = {}]
                \in [Inventories -> InventoryRecord]
<1>0. /\ inventory \in [Inventories -> InventoryRecord] /\ inventory[i] \in InventoryRecord
      /\ {"IN_PROGRESS", "CANCELLED", "CLOSED", "RECONCILED"} \subseteq InventoryStatus
    BY DEF TypeOK, InventoryStatus
<1>1. ASSUME NEW S \in SUBSET Assets
      PROVE  [inventory EXCEPT ![i].starting = TRUE, ![i].snapshot = S] \in [Inventories -> InventoryRecord]
    BY <1>0 DEF InventoryRecord
<1>2. ASSUME NEW f \in [Assets -> ItemResult]
      PROVE  [inventory EXCEPT ![i].starting = FALSE, ![i].snapshot = {}, ![i].status = "IN_PROGRESS", ![i].result = f]
                  \in [Inventories -> InventoryRecord]
    BY <1>0 DEF InventoryRecord
<1>3. [inventory EXCEPT ![i].status = "CANCELLED"] \in [Inventories -> InventoryRecord]
    BY <1>0 DEF InventoryRecord
<1>4. [inventory EXCEPT ![i].closing = TRUE] \in [Inventories -> InventoryRecord]
    BY <1>0 DEF InventoryRecord
<1>5. [inventory EXCEPT ![i].requested = TRUE] \in [Inventories -> InventoryRecord]
    BY <1>0 DEF InventoryRecord
<1>6. ASSUME NEW f \in [Assets -> ItemResult]
      PROVE  [inventory EXCEPT ![i].status = "CLOSED", ![i].closing = FALSE, ![i].result = f] \in [Inventories -> InventoryRecord]
    BY <1>0 DEF InventoryRecord
<1>7. ASSUME NEW S \in SUBSET Assets
      PROVE  [inventory EXCEPT ![i].approving = TRUE, ![i].losing = S] \in [Inventories -> InventoryRecord]
    BY <1>0 DEF InventoryRecord
<1>8. [inventory EXCEPT ![i].status = "RECONCILED", ![i].approving = FALSE, ![i].losing = {}]
                \in [Inventories -> InventoryRecord]
    BY <1>0 DEF InventoryRecord
<1> QED
    BY <1>1, <1>2, <1>3, <1>4, <1>5, <1>6, <1>7, <1>8

\* Reports write one asset's entry of a field.
LEMMA InventoryReportType ==
    ASSUME TypeOK, NEW i \in Inventories, NEW a \in Assets,
           \/ ReportUnexpected(i, a) \/ InventorySaveReport(i, a)
           \/ \E result \in {"FOUND", "MISSING"} : InventoryReport(i, a, result)
    PROVE  inventory' \in [Inventories -> InventoryRecord]
<1>0. /\ inventory \in [Inventories -> InventoryRecord] /\ inventory[i] \in InventoryRecord
      /\ {"FOUND", "MISSING", "SURPLUS", "OUT"} \subseteq ItemResult
      /\ inventory[i].reporting[a] \in ItemResult
    BY DEF TypeOK, ItemResult, InventoryRecord
<1>1. ASSUME NEW result \in ItemResult
      PROVE  [inventory EXCEPT ![i].reporting[a] = result] \in [Inventories -> InventoryRecord]
    BY <1>0 DEF InventoryRecord
<1>2. [inventory EXCEPT ![i].result[a] = inventory[i].reporting[a], ![i].reporting[a] = "OUT"]
        \in [Inventories -> InventoryRecord]
    BY <1>0 DEF InventoryRecord
<1>3. CASE ReportUnexpected(i, a)
    BY <1>0, <1>1, <1>3 DEF ReportUnexpected
<1>4. CASE \E result \in {"FOUND", "MISSING"} : InventoryReport(i, a, result)
    BY <1>0, <1>1, <1>4 DEF InventoryReport
<1>5. CASE InventorySaveReport(i, a)
    BY <1>2, <1>5 DEF InventorySaveReport
<1> QED
    BY <1>3, <1>4, <1>5

LEMMA InventoryType == ASSUME TypeOK, InventoryNext PROVE TypeOK'
<1>1. PICK i \in Inventories :
        \/ \E scope \in SUBSET Centers : InventoryStart(i, scope)
        \/ InventorySaveStart(i) \/ InventoryCancel(i) \/ InventoryClose(i) \/ InventorySaveClose(i)
        \/ \E a \in Assets : \/ ReportUnexpected(i, a) \/ InventorySaveReport(i, a)
                             \/ \E result \in {"FOUND", "MISSING"} : InventoryReport(i, a, result)
        \/ RequestReconcile(i) \/ ApproveReconcile(i) \/ ApplyReconcile(i)
    BY DEF InventoryNext
<1>2. /\ inventory[i].result \in [Assets -> ItemResult]
      /\ "PENDING" \in ItemResult /\ "OUT" \in ItemResult /\ "NOT_VERIFIED" \in ItemResult
    BY DEF TypeOK, InventoryRecord, ItemResult
<1>3. inventory' \in [Inventories -> InventoryRecord]
    <2>1. ASSUME NEW scope \in SUBSET Centers, InventoryStart(i, scope) PROVE inventory' \in [Inventories -> InventoryRecord]
        BY <2>1, InventoryFieldType DEF InventoryStart
    <2>2. CASE InventorySaveStart(i)
        <3>1. [a \in Assets |-> IF a \in inventory[i].snapshot THEN "PENDING" ELSE "OUT"] \in [Assets -> ItemResult]
            BY <1>2
        <3> QED
            BY <2>2, <3>1, InventoryFieldType DEF InventorySaveStart
    <2>3. CASE InventoryCancel(i) \/ InventoryClose(i) \/ RequestReconcile(i) \/ ApplyReconcile(i)
        <3>1. CASE InventoryCancel(i)
            BY <3>1, InventoryFieldType DEF InventoryCancel
        <3>2. CASE InventoryClose(i)
            BY <3>2, InventoryFieldType DEF InventoryClose
        <3>3. CASE RequestReconcile(i)
            BY <3>3, InventoryFieldType DEF RequestReconcile
        <3>4. CASE ApplyReconcile(i)
            BY <3>4, InventoryFieldType DEF ApplyReconcile
        <3> QED
            BY <2>3, <3>1, <3>2, <3>3, <3>4
    <2>4. CASE InventorySaveClose(i)
        <3> DEFINE f == [a \in Assets |-> IF inventory[i].result[a] = "PENDING" THEN "NOT_VERIFIED" ELSE inventory[i].result[a]]
        <3>1. f \in [Assets -> ItemResult]
            BY <1>2
        <3>2. inventory' = [inventory EXCEPT ![i].status = "CLOSED", ![i].closing = FALSE, ![i].result = f]
            BY <2>4 DEF InventorySaveClose
        <3> HIDE DEF f
        <3> QED
            BY <3>1, <3>2, InventoryFieldType
    <2>5. CASE ApproveReconcile(i)
        BY <2>5, InventoryFieldType DEF ApproveReconcile
    <2> QED
        BY <1>1, <2>1, <2>2, <2>3, <2>4, <2>5, InventoryReportType
<1>4. assetStatus' \in [Assets -> OperationalStatus]
    <2>1. CASE ApplyReconcile(i)
        BY <2>1 DEF ApplyReconcile, TypeOK, OperationalStatus
    <2>2. CASE ~ ApplyReconcile(i)
        BY <1>1, <2>2 DEF InventoryStart, InventorySaveStart, InventoryCancel, InventoryClose, InventorySaveClose,
               ReportUnexpected, InventorySaveReport, InventoryReport, RequestReconcile, ApproveReconcile, assetVars, TypeOK
    <2> QED
        BY <2>1, <2>2
<1>5. UNCHANGED <<assetCenter, responsible, inventoryOthers>>
    BY <1>1 DEF InventoryStart, InventorySaveStart, InventoryCancel, InventoryClose, InventorySaveClose,
               ReportUnexpected, InventorySaveReport, InventoryReport, RequestReconcile, ApproveReconcile,
               ApplyReconcile, assetVars
<1> QED
    BY <1>3, <1>4, <1>5 DEF TypeOK, inventoryOthers

\* Direct edits and the first signature of an acta.
LEMMA EditType ==
    ASSUME TypeOK, EditNext \/ \E k \in Actas : FirstSignature(k)
    PROVE  TypeOK'
<1>1. ASSUME NEW k \in Actas, FirstSignature(k) PROVE TypeOK'
    <2>1. acta' \in [Actas -> ActaRecord]
        BY <1>1 DEF FirstSignature, TypeOK, ActaRecord
    <2> QED
        BY <1>1, <2>1 DEF FirstSignature, TypeOK, assetVars, processVars
<1>2. ASSUME NEW e \in Editors, NEW a \in Assets,
             WriteOffAsset(e, a) \/ \E to \in OperationalStatus : ChangeStatus(e, a, to)
      PROVE  TypeOK'
    <2>1. assetStatus[a] \in OperationalStatus /\ "WRITTEN_OFF" \in OperationalStatus
        BY DEF TypeOK, OperationalStatus
    <2>2. edit' \in [Editors -> EditRecord]
        BY <1>2, <2>1 DEF WriteOffAsset, ChangeStatus, TypeOK, EditRecord
    <2> QED
        BY <1>2, <2>2 DEF WriteOffAsset, ChangeStatus, TypeOK, assetVars, processVars
<1>3. ASSUME NEW e \in Editors, ApplyEdit(e) \/ EditRefused(e) PROVE TypeOK'
    <2>1. edit' \in [Editors -> EditRecord]
        BY <1>3, EmptyRecords DEF ApplyEdit, EditRefused, TypeOK
    <2>2. edit[e].to \in OperationalStatus
        BY DEF TypeOK, EditRecord
    <2>3. assetStatus' \in [Assets -> OperationalStatus]
        BY <1>3, <2>2 DEF ApplyEdit, EditRefused, TypeOK, assetVars
    <2> QED
        BY <1>3, <2>1, <2>3 DEF ApplyEdit, EditRefused, TypeOK, assetVars, processVars
<1> QED
    BY <1>1, <1>2, <1>3 DEF EditNext

\* Every step keeps the types.
LEMMA NextType == ASSUME TypeOK, TargetsAreKnown, [Next]_vars PROVE TypeOK'
<1>1. CASE UNCHANGED vars
    BY <1>1 DEF TypeOK, vars, assetVars, processVars
<1> QED
    BY <1>1, LoanType, TransferType, WriteOffType, HandoverType, RequestType, InventoryType, EditType DEF Next

-----------------------------------------------------------------------------
(* The actas of a process.  What a process is and what its actas are fit    *)
(* together; a step changes the actas of one process.                      *)

Own(A, p) == {k \in Actas : A[k].owner = p}

SignedStatus == {"ACTIVE", "OVERDUE", "PENDING_RECEPTION", "PARTIALLY_RETURNED", "RETURNED", "CLOSED_WITH_LOSSES"}
Undelivered == {"NONE", "REQUESTED", "APPROVED"}

\* A loan x and its actas A: nothing before the delivery; afterwards the acta
\* it names is the one main acta that can be or was signed, and a queued one
\* replaces it when it is out of force.
LoanFits(A, l, x) ==
    /\ x.status \in Undelivered => ~x.delivered
    /\ ~x.delivered => Own(A, l) = {} /\ x.document = None
    /\ x.document # None =>
         /\ x.document \in Own(A, l) /\ A[x.document].kind = "MAIN"
         /\ A[x.document].status \in {"PENDING_SIGNATURE", "SIGNED", "REJECTED", "VOIDED"}
    /\ x.status \in SignedStatus => x.document # None /\ A[x.document].status = "SIGNED"
    /\ \A k \in Own(A, l) :
         /\ A[k].status # "NONE"
         /\ A[k].kind = "MAIN" /\ A[k].status \in {"PENDING_SIGNATURE", "SIGNED"} => k = x.document
         /\ A[k].kind = "MAIN" /\ A[k].status = "QUEUED" /\ x.document # None => A[x.document].status \in {"REJECTED", "VOIDED"}
    /\ \A j, k \in Own(A, l) :
         A[j].kind = "MAIN" /\ A[k].kind = "MAIN" /\ A[j].status = "QUEUED" /\ A[k].status = "QUEUED" => j = k

\* A transfer, write-off or handover x: it has one acta at most, and has ended
\* as that acta has.
ActFits(A, p, x) ==
    /\ x.status \in {"NONE", "DRAFT"} => Own(A, p) = {}
    /\ \A j, k \in Own(A, p) : j = k
    /\ \A k \in Own(A, p) :
         /\ A[k].status # "NONE" /\ A[k].kind = "MAIN"
         /\ A[k].status = "SIGNED" <=> x.status \in {"COMPLETED", "SIGNED"} /\ x.document = k
         /\ A[k].status = "REJECTED" <=> x.status = "REJECTED" /\ x.document = k

\* The cancellation of a write-off has it locked since it looked at its status.
CancelKnowsStatus ==
    \A w \in WriteOffs : cancelling[w] = "checked" => writeOff[w].status \in {"DRAFT", "PENDING_SIGNATURES"}

ActasFit ==
    /\ \A l \in Loans : LoanFits(acta, l, loan[l])
    /\ \A t \in Transfers : ActFits(acta, t, transfer[t])
    /\ \A w \in WriteOffs : ActFits(acta, w, writeOff[w])
    /\ \A h \in Handovers : ActFits(acta, h, handover[h])
    /\ CancelKnowsStatus

\* The actas of p are in B what they were in A.
ActasKept(A, B, p) ==
    /\ Own(B, p) = Own(A, p)
    /\ \A k \in Own(A, p) : B[k].status = A[k].status /\ B[k].kind = A[k].kind

LEMMA KeptFits ==
    ASSUME NEW A, NEW B, NEW p, NEW x, ActasKept(A, B, p)
    PROVE  /\ LoanFits(A, p, x) => LoanFits(B, p, x)
           /\ ActFits(A, p, x) => ActFits(B, p, x)
<1>1. LoanFits(A, p, x) => LoanFits(B, p, x)
    BY DEF ActasKept, LoanFits
<1>2. ActFits(A, p, x) => ActFits(B, p, x)
    BY DEF ActasKept, ActFits
<1> QED
    BY <1>1, <1>2

\* A step of process p fits if p does.
LEMMA OneProcessFits ==
    ASSUME ActasFit, NEW p \in Processes, \A q \in Processes \ {p} : ActasKept(acta, acta', q),
           \A l \in Loans \ {p} : loan'[l] = loan[l], \A t \in Transfers \ {p} : transfer'[t] = transfer[t],
           \A w \in WriteOffs \ {p} : writeOff'[w] = writeOff[w], \A h \in Handovers \ {p} : handover'[h] = handover[h],
           p \in Loans => LoanFits(acta', p, loan'[p]), p \in Transfers => ActFits(acta', p, transfer'[p]),
           p \in WriteOffs => ActFits(acta', p, writeOff'[p]), p \in Handovers => ActFits(acta', p, handover'[p]),
           CancelKnowsStatus'
    PROVE  ActasFit'
<1>1. \A l \in Loans : LoanFits(acta', l, loan'[l])
    BY KeptFits DEF ActasFit, Processes
<1>2. \A t \in Transfers : ActFits(acta', t, transfer'[t])
    BY KeptFits DEF ActasFit, Processes
<1>3. \A w \in WriteOffs : ActFits(acta', w, writeOff'[w])
    BY KeptFits DEF ActasFit, Processes
<1>4. \A h \in Handovers : ActFits(acta', h, handover'[h])
    BY KeptFits DEF ActasFit, Processes
<1> QED
    BY <1>1, <1>2, <1>3, <1>4 DEF ActasFit

\* The operations of the engine: whose actas they change, and how.
LEMMA EnqueueFrame ==
    ASSUME TypeOK, ActasFit, NEW k \in Actas, NEW p \in Processes, NEW kind \in {"MAIN", "RETURN"}, Enqueue(k, p, kind)
    PROVE  /\ \A q \in Processes \ {p} : ActasKept(acta, acta', q)
           /\ k \notin Own(acta, p) /\ Own(acta', p) = Own(acta, p) \cup {k}
           /\ acta'[k].status = "QUEUED" /\ acta'[k].kind = kind
           /\ \A j \in Own(acta, p) : acta'[j] = acta[j]
<1>1. \A q \in Processes : k \notin Own(acta, q)
    BY DEF Enqueue, ActasFit, LoanFits, ActFits, Processes
<1>2. acta' = [acta EXCEPT ![k] = [status |-> "QUEUED", owner |-> p, kind |-> kind, signed |-> FALSE]]
    BY DEF Enqueue
<1>3. /\ acta'[k].status = "QUEUED" /\ acta'[k].kind = kind /\ acta'[k].owner = p
      /\ \A j \in Actas \ {k} : acta'[j] = acta[j]
    BY <1>2 DEF TypeOK
<1>4. ASSUME NEW q \in Processes \ {p} PROVE ActasKept(acta, acta', q)
    <2>1. Own(acta', q) = Own(acta, q)
        BY <1>1, <1>3 DEF Own
    <2> QED
        BY <1>1, <1>3, <2>1 DEF ActasKept, Own
<1> QED
    BY <1>1, <1>3, <1>4 DEF Own

LEMMA VoidFrame ==
    ASSUME TypeOK, NEW p \in Processes, VoidForEntity(p)
    PROVE  /\ \A q \in Processes \ {p} : ActasKept(acta, acta', q)
           /\ Own(acta', p) = Own(acta, p)
           /\ \A k \in Own(acta, p) :
                /\ acta[k].status # "SIGNED" /\ acta'[k].kind = acta[k].kind
                /\ acta'[k].status = IF acta[k].status = "QUEUED" THEN "CANCELLED"
                                     ELSE IF acta[k].status = "PENDING_SIGNATURE" THEN "VOIDED" ELSE acta[k].status
<1>1. ASSUME NEW k \in Actas, acta[k].owner # p PROVE acta'[k] = acta[k]
    BY <1>1 DEF VoidForEntity
<1>2. ASSUME NEW k \in Actas, acta[k].owner = p
      PROVE  /\ acta'[k].owner = p /\ acta'[k].kind = acta[k].kind
             /\ acta'[k].status = IF acta[k].status = "QUEUED" THEN "CANCELLED"
                                  ELSE IF acta[k].status = "PENDING_SIGNATURE" THEN "VOIDED" ELSE acta[k].status
    <2>1. acta[k] \in ActaRecord
        BY DEF TypeOK
    <2>2. acta'[k] = CASE acta[k].status = "QUEUED" -> [acta[k] EXCEPT !.status = "CANCELLED"]
                       [] acta[k].status = "PENDING_SIGNATURE" -> [acta[k] EXCEPT !.status = "VOIDED"]
                       [] OTHER -> acta[k]
        BY <1>2 DEF VoidForEntity
    <2> QED
        BY <1>2, <2>1, <2>2 DEF ActaRecord
<1>3. \A q \in Processes \ {p} : ActasKept(acta, acta', q)
    BY <1>1, <1>2 DEF ActasKept, Own
<1>4. Own(acta', p) = Own(acta, p)
    BY <1>1, <1>2 DEF Own
<1>5. \A k \in Own(acta, p) : acta[k].status # "SIGNED"
    BY DEF VoidForEntity, SignedActas, ActasOf, Own
<1> QED
    BY <1>2, <1>3, <1>4, <1>5 DEF Own

LEMMA ActaFrame ==
    ASSUME TypeOK, NEW k \in Actas, NEW st, acta' = [acta EXCEPT ![k].status = st]
    PROVE  /\ \A q \in Processes : acta[k].owner # q => ActasKept(acta, acta', q)
           /\ \A q \in Processes : Own(acta', q) = Own(acta, q)
           /\ acta'[k].status = st /\ \A j \in Actas : acta'[j].kind = acta[j].kind
           /\ \A j \in Actas \ {k} : acta'[j] = acta[j]
<1>1. acta[k] \in ActaRecord /\ acta \in [Actas -> ActaRecord]
    BY DEF TypeOK
<1>2. /\ acta'[k].status = st /\ acta'[k].kind = acta[k].kind /\ acta'[k].owner = acta[k].owner
      /\ \A j \in Actas \ {k} : acta'[j] = acta[j]
    BY <1>1 DEF ActaRecord
<1>3. \A q \in Processes : Own(acta', q) = Own(acta, q)
    BY <1>2 DEF Own
<1> QED
    BY <1>2, <1>3 DEF ActasKept, Own

\* A step of the loans that leaves the actas alone, opens no loan again and
\* makes none active.
LEMMA QuietLoanFits ==
    ASSUME TypeOK, ActasFit, NEW l \in Loans, UNCHANGED <<acta, transfer, writeOff, handover>>,
           \A m \in Loans \ {l} : loan'[m] = loan[m], \A w \in WriteOffs : cancelling'[w] = cancelling[w],
           loan'[l].delivered = loan[l].delivered, loan'[l].document = loan[l].document,
           loan'[l].status \in Undelivered => loan[l].status \in Undelivered,
           loan'[l].status \in SignedStatus => loan[l].status \in SignedStatus
    PROVE  ActasFit'
<1>1. LoanFits(acta, l, loan[l])
    BY DEF ActasFit
<1>2. LoanFits(acta, l, loan'[l])
    BY <1>1 DEF LoanFits
<1>3. \A q \in Processes : ActasKept(acta, acta, q)
    BY DEF ActasKept
<1>4. l \in Processes /\ l \notin Transfers /\ l \notin WriteOffs /\ l \notin Handovers
    BY DistinctProcesses DEF Processes
<1>5. CancelKnowsStatus'
    BY DEF ActasFit, CancelKnowsStatus
<1> QED
    BY <1>2, <1>3, <1>4, <1>5, OneProcessFits

\* What a loan becomes without its acta: creation, decision, cancellation,
\* extension, return and overdue.
LEMMA QuietLoanSteps ==
    ASSUME TypeOK, ActasFit, NEW l \in Loans,
           \/ \E S \in SUBSET Assets : LoanCreate(l, S)
           \/ LoanApprove(l) \/ LoanReject(l) \/ LoanCancel(l) \/ MarkOverdue(l)
           \/ RequestExtension(l) \/ ApproveExtension(l) \/ RejectExtension(l)
           \/ \E S \in SUBSET loan[l].items : \E condition \in [S -> {"GOOD", "LOST"}] : StartReturn(l, S, condition)
           \/ UndoFindsNoActa(l) \/ UndoLocksLoan(l)
    PROVE  ActasFit'
<1> USE DEF SignedStatus, Undelivered
<1>0. loan \in [Loans -> LoanRecord] /\ loan[l] \in LoanRecord
    BY DEF TypeOK
<1>1. ASSUME NEW S \in SUBSET Assets, NEW r, NEW st \in {"REQUESTED", "APPROVED"}, LoanCreation(l, S, r, st),
             UNCHANGED <<acta, transfer, writeOff, handover, cancelling>>
      PROVE  ActasFit'
    <2>1. /\ loan'[l].status = st /\ loan'[l].delivered = FALSE /\ loan'[l].document = None
          /\ \A m \in Loans \ {l} : loan'[m] = loan[m]
        BY <1>0, <1>1 DEF LoanCreation, NoLoan
    <2>2. loan[l].status = "NONE" /\ loan[l].delivered = FALSE /\ loan[l].document = None
        BY <1>0, <1>1 DEF LoanCreation, ActasFit, LoanFits, LoanRecord
    <2> QED
        BY <1>1, <2>1, <2>2, QuietLoanFits
<1>2. ASSUME NEW S \in SUBSET Assets, LoanCreate(l, S) PROVE ActasFit'
    BY <1>1, <1>2 DEF LoanCreate, loanOthers
<1>3. CASE LoanApprove(l) \/ LoanReject(l) \/ LoanCancel(l) \/ MarkOverdue(l)
    <2>1. PICK st \in {"APPROVED", "REJECTED", "CANCELLED", "OVERDUE"} :
            /\ loan' = [loan EXCEPT ![l].status = st]
            /\ st = "APPROVED" => loan[l].status = "REQUESTED"
            /\ st = "OVERDUE" => loan[l].status = "ACTIVE"
        BY <1>3 DEF LoanApprove, LoanReject, LoanCancel, MarkOverdue, SetLoan
    <2>2. /\ loan'[l].status = st /\ loan'[l].delivered = loan[l].delivered /\ loan'[l].document = loan[l].document
          /\ \A m \in Loans \ {l} : loan'[m] = loan[m]
        BY <1>0, <2>1 DEF LoanRecord
    <2>3. UNCHANGED <<acta, transfer, writeOff, handover, cancelling>>
        BY <1>3 DEF LoanApprove, LoanReject, LoanCancel, MarkOverdue, loanOthers
    <2> QED
        BY <2>1, <2>2, <2>3, QuietLoanFits
<1>4. CASE RequestExtension(l) \/ ApproveExtension(l) \/ RejectExtension(l)
    <2>1. /\ loan'[l].status = loan[l].status \/ (loan'[l].status = "ACTIVE" /\ loan[l].status \in {"ACTIVE", "OVERDUE"})
          /\ loan'[l].delivered = loan[l].delivered /\ loan'[l].document = loan[l].document
          /\ \A m \in Loans \ {l} : loan'[m] = loan[m]
        <3>1. CASE ApproveExtension(l)
            BY <1>0, <3>1 DEF ApproveExtension, LoanRecord
        <3>2. CASE RequestExtension(l) \/ RejectExtension(l)
            BY <1>0, <3>2 DEF RequestExtension, RejectExtension, LoanRecord
        <3> QED
            BY <1>4, <3>1, <3>2
    <2>2. UNCHANGED <<acta, transfer, writeOff, handover, cancelling>>
        BY <1>4 DEF RequestExtension, ApproveExtension, RejectExtension, loanOthers
    <2> QED
        BY <2>1, <2>2, QuietLoanFits
<1>5. ASSUME NEW S \in SUBSET loan[l].items, NEW condition \in [S -> {"GOOD", "LOST"}], StartReturn(l, S, condition)
      PROVE  ActasFit'
    <2>1. /\ loan'[l].status = "PENDING_RECEPTION" /\ loan[l].status \in SignedStatus
          /\ loan'[l].delivered = loan[l].delivered /\ loan'[l].document = loan[l].document
          /\ \A m \in Loans \ {l} : loan'[m] = loan[m]
        BY <1>0, <1>5 DEF StartReturn, LoanRecord
    <2> QED
        BY <1>5, <2>1, QuietLoanFits DEF StartReturn, loanOthers
<1>6. CASE UndoFindsNoActa(l) \/ UndoLocksLoan(l)
    <2>1. l \notin WriteOffs
        BY DistinctProcesses
    <2>2. \A w \in WriteOffs : cancelling'[w] = cancelling[w]
        BY <1>6, <2>1 DEF UndoFindsNoActa, UndoLocksLoan, TypeOK
    <2>3. UNCHANGED <<acta, transfer, writeOff, handover>>
        BY <1>6 DEF UndoFindsNoActa, UndoLocksLoan, processVars, loanOthers
    <2>4. /\ loan'[l].status \in {"CANCELLED", loan[l].status}
          /\ loan'[l].delivered = loan[l].delivered /\ loan'[l].document = loan[l].document
          /\ \A m \in Loans \ {l} : loan'[m] = loan[m]
        BY <1>0, <1>6 DEF UndoFindsNoActa, UndoLocksLoan, UndoDeliveryEffect, SetLoan, processVars, LoanRecord
    <2> QED
        BY <2>2, <2>3, <2>4, QuietLoanFits
<1> QED
    BY <1>2, <1>3, <1>4, <1>5, <1>6

\* A step of a loan with its actas.
LEMMA LoanActaFits ==
    ASSUME TypeOK, ActasFit, NEW l \in Loans, UNCHANGED <<transfer, writeOff, handover, cancelling>>,
           \A m \in Loans \ {l} : loan'[m] = loan[m], \A q \in Processes \ {l} : ActasKept(acta, acta', q),
           LoanFits(acta', l, loan'[l])
    PROVE  ActasFit'
<1>1. l \in Processes /\ l \notin Transfers /\ l \notin WriteOffs /\ l \notin Handovers
    BY DistinctProcesses DEF Processes
<1>2. CancelKnowsStatus'
    BY DEF ActasFit, CancelKnowsStatus
<1> QED
    BY <1>1, <1>2, OneProcessFits

LEMMA DeliverFits ==
    ASSUME TypeOK, ActasFit, NEW l \in Loans, NEW k \in Actas, LoanDeliver(l, k)
    PROVE  ActasFit'
<1>1. loan \in [Loans -> LoanRecord] /\ loan[l] \in LoanRecord /\ l \in Processes
    BY DEF TypeOK, Processes
<1>2. /\ loan[l].status = "APPROVED" /\ Enqueue(k, l, "MAIN")
      /\ loan' = [loan EXCEPT ![l].status = "PENDING_SIGNATURES", ![l].delivered = TRUE,
                    ![l].back = [a \in Assets |-> IF a \in loan[l].items THEN assetStatus[a] ELSE "IN_USE"]]
      /\ UNCHANGED <<transfer, writeOff, handover, cancelling>>
    BY DEF LoanDeliver, loanOthers
<1>3. /\ loan'[l].status = "PENDING_SIGNATURES" /\ loan'[l].delivered = TRUE /\ loan'[l].document = loan[l].document
      /\ \A m \in Loans \ {l} : loan'[m] = loan[m]
    BY <1>1, <1>2 DEF LoanRecord
<1>4. Own(acta, l) = {} /\ loan[l].document = None
    BY <1>1, <1>2 DEF ActasFit, LoanFits, Undelivered
<1>5. /\ \A q \in Processes \ {l} : ActasKept(acta, acta', q)
      /\ Own(acta', l) = {k} /\ acta'[k].status = "QUEUED" /\ acta'[k].kind = "MAIN"
    BY <1>1, <1>2, <1>4, EnqueueFrame
<1>6. LoanFits(acta', l, loan'[l])
    BY <1>3, <1>4, <1>5 DEF LoanFits, Undelivered, SignedStatus
<1> QED
    BY <1>2, <1>3, <1>5, <1>6, LoanActaFits

\* regenerateDeliveryAct: the acta named is out of force and no other waits.
LEMMA RegenerateFits ==
    ASSUME TypeOK, ActasFit, NEW l \in Loans, NEW k \in Actas, RegenerateDeliveryAct(l, k)
    PROVE  ActasFit'
<1>1. l \in Processes /\ Enqueue(k, l, "MAIN") /\ UNCHANGED <<loan, transfer, writeOff, handover, cancelling>>
    BY DEF Processes, RegenerateDeliveryAct, loanOthers
<1>2. /\ \A q \in Processes \ {l} : ActasKept(acta, acta', q)
      /\ k \notin Own(acta, l) /\ Own(acta', l) = Own(acta, l) \cup {k}
      /\ acta'[k].status = "QUEUED" /\ acta'[k].kind = "MAIN"
      /\ \A j \in Own(acta, l) : acta'[j] = acta[j]
    BY <1>1, EnqueueFrame
<1>3. /\ loan[l].status = "PENDING_SIGNATURES"
      /\ \A j \in Own(acta, l) : acta[j].status # "QUEUED"
      /\ loan[l].document # None /\ acta[loan[l].document].status = "REJECTED"
    BY DEF RegenerateDeliveryAct, Regenerable, ActasOf, Own
<1>4. LoanFits(acta, l, loan[l])
    BY DEF ActasFit
<1>5. LoanFits(acta', l, loan[l])
    BY <1>2, <1>3, <1>4 DEF LoanFits, Undelivered, SignedStatus
<1> QED
    BY <1>1, <1>2, <1>5, LoanActaFits

\* undoDelivery: nothing of a loan whose actas are voided was signed.
LEMMA UndoFits ==
    ASSUME TypeOK, ActasFit, NEW l \in Loans, UndoDelivery(l)
    PROVE  ActasFit'
<1>1. l \in Processes /\ VoidForEntity(l) /\ UNCHANGED <<transfer, writeOff, handover, cancelling>>
    BY DEF Processes, UndoDelivery, loanOthers
<1>2. /\ loan[l].status = "PENDING_SIGNATURES" /\ loan'[l].status = "CANCELLED"
      /\ loan'[l].delivered = loan[l].delivered /\ loan'[l].document = loan[l].document
      /\ \A m \in Loans \ {l} : loan'[m] = loan[m]
    BY DEF UndoDelivery, UndoDeliveryEffect, SetLoan, TypeOK, LoanRecord
<1>3. /\ \A q \in Processes \ {l} : ActasKept(acta, acta', q)
      /\ Own(acta', l) = Own(acta, l)
      /\ \A k \in Own(acta, l) :
           /\ acta[k].status # "SIGNED" /\ acta'[k].kind = acta[k].kind
           /\ acta'[k].status = IF acta[k].status = "QUEUED" THEN "CANCELLED"
                                ELSE IF acta[k].status = "PENDING_SIGNATURE" THEN "VOIDED" ELSE acta[k].status
    BY <1>1, VoidFrame
<1>4. LoanFits(acta, l, loan[l])
    BY DEF ActasFit
<1>5. LoanFits(acta', l, loan'[l])
    BY <1>2, <1>3, <1>4 DEF LoanFits, Undelivered, SignedStatus
<1> QED
    BY <1>1, <1>2, <1>3, <1>5, LoanActaFits

\* receiveReturn, with or without a return acta.
LEMMA ReceiveFits ==
    ASSUME TypeOK, ActasFit, NEW l \in Loans, ReceiveReturn(l)
    PROVE  ActasFit'
<1>1. l \in Processes /\ UNCHANGED <<transfer, writeOff, handover, cancelling>>
    BY DEF Processes, ReceiveReturn, loanOthers
<1>2. /\ loan[l].status = "PENDING_RECEPTION" /\ loan'[l].status \in SignedStatus
      /\ loan'[l].delivered = loan[l].delivered /\ loan'[l].document = loan[l].document
      /\ \A m \in Loans \ {l} : loan'[m] = loan[m]
    BY DEF ReceiveReturn, StatusAfterReception, SignedStatus, TypeOK, LoanRecord
<1>3. LoanFits(acta, l, loan[l])
    BY DEF ActasFit
<1>4. CASE UNCHANGED acta
    <2>1. loan[l].status \in SignedStatus /\ loan'[l].status \notin Undelivered
        BY <1>2 DEF SignedStatus, Undelivered
    <2> QED
        BY <1>1, <1>2, <1>4, <2>1, QuietLoanFits
<1>5. ASSUME NEW k \in Actas, Enqueue(k, l, "RETURN") PROVE ActasFit'
    <2>1. /\ \A q \in Processes \ {l} : ActasKept(acta, acta', q)
          /\ k \notin Own(acta, l) /\ Own(acta', l) = Own(acta, l) \cup {k}
          /\ acta'[k].status = "QUEUED" /\ acta'[k].kind = "RETURN"
          /\ \A j \in Own(acta, l) : acta'[j] = acta[j]
        BY <1>1, <1>5, EnqueueFrame
    <2>2. LoanFits(acta', l, loan'[l])
        BY <1>2, <1>3, <2>1 DEF LoanFits, Undelivered, SignedStatus
    <2> QED
        BY <1>1, <1>2, <2>1, <2>2, LoanActaFits
<1> QED
    BY <1>4, <1>5 DEF ReceiveReturn

\* The callbacks of the delivery acta.
LEMMA LoanCallbacksFit ==
    ASSUME TypeOK, ActasFit, NEW k \in Actas, LoanActaGenerated(k) \/ LoanActaSigned(k) \/ LoanActaRejected(k)
    PROVE  ActasFit'
<1>0. None \notin Actas
    BY NoneAssumption
<1>1. PICK l \in Loans :
        \/ /\ acta[k].owner = l /\ acta[k].kind = "MAIN" /\ loan[l].delivered
           /\ loan[l].document # None => acta[loan[l].document].status \in {"REJECTED", "VOIDED"}
           /\ Generates(k) /\ loan' = [loan EXCEPT ![l].document = k]
        \/ /\ acta[k].owner = l /\ loan[l].document = k /\ ClosesSigned(k)
           /\ SetLoan(l, IF loan[l].status = "PENDING_SIGNATURES" THEN "ACTIVE" ELSE loan[l].status)
        \/ acta[k].owner = l /\ loan[l].document = k /\ ClosesRejected(k) /\ loan' = loan
    BY DEF LoanActaGenerated, LoanActaSigned, LoanActaRejected
<1>2. l \in Processes /\ acta[k].owner = l /\ UNCHANGED <<transfer, writeOff, handover, cancelling>>
    BY <1>1 DEF Processes, LoanActaGenerated, LoanActaSigned, LoanActaRejected, loanOthers
<1>3. LoanFits(acta, l, loan[l]) /\ loan \in [Loans -> LoanRecord] /\ loan[l] \in LoanRecord
    BY DEF ActasFit, TypeOK
<1>4. \E st : acta' = [acta EXCEPT ![k].status = st]
    BY <1>1 DEF Generates, ClosesSigned, ClosesRejected
<1>5. /\ \A q \in Processes \ {l} : ActasKept(acta, acta', q)
      /\ Own(acta', l) = Own(acta, l) /\ k \in Own(acta, l)
      /\ \A j \in Actas : acta'[j].kind = acta[j].kind
      /\ \A j \in Actas \ {k} : acta'[j] = acta[j]
    BY <1>2, <1>4, ActaFrame DEF Own
<1>6. /\ loan'[l].delivered = loan[l].delivered
      /\ \A m \in Loans \ {l} : loan'[m] = loan[m]
    BY <1>1, <1>3 DEF SetLoan, LoanRecord
<1>7. \A j \in Own(acta, l) : j \in Actas
    BY DEF Own
<1>8. CASE Generates(k) /\ loan' = [loan EXCEPT ![l].document = k] /\ acta[k].kind = "MAIN" /\ loan[l].delivered
           /\ (loan[l].document # None => acta[loan[l].document].status \in {"REJECTED", "VOIDED"})
    <2>1. acta[k].status = "QUEUED" /\ acta'[k].status = "PENDING_SIGNATURE"
        BY <1>8, ActaFrame DEF Generates
    <2>2. loan'[l].document = k /\ loan'[l].status = loan[l].status
        BY <1>3, <1>8 DEF LoanRecord
    <2>3. LoanFits(acta', l, loan'[l])
        BY <1>0, <1>3, <1>5, <1>6, <1>7, <1>8, <2>1, <2>2 DEF LoanFits, Undelivered, SignedStatus
    <2> QED
        BY <1>2, <1>5, <1>6, <2>3, LoanActaFits
<1>9. CASE loan[l].document = k /\ ClosesSigned(k)
           /\ SetLoan(l, IF loan[l].status = "PENDING_SIGNATURES" THEN "ACTIVE" ELSE loan[l].status)
    <2>1. acta[k].status = "PENDING_SIGNATURE" /\ acta'[k].status = "SIGNED"
        BY <1>9, ActaFrame DEF ClosesSigned
    <2>2. /\ loan'[l].document = loan[l].document
          /\ loan'[l].status = IF loan[l].status = "PENDING_SIGNATURES" THEN "ACTIVE" ELSE loan[l].status
        BY <1>3, <1>9 DEF SetLoan, LoanRecord
    <2>3. LoanFits(acta', l, loan'[l])
        BY <1>0, <1>3, <1>5, <1>6, <1>7, <1>9, <2>1, <2>2 DEF LoanFits, Undelivered, SignedStatus
    <2> QED
        BY <1>2, <1>5, <1>6, <2>3, LoanActaFits
<1>10. CASE loan[l].document = k /\ ClosesRejected(k) /\ loan' = loan
    <2>1. acta[k].status = "PENDING_SIGNATURE" /\ acta'[k].status = "REJECTED"
        BY <1>10, ActaFrame DEF ClosesRejected
    <2>2. LoanFits(acta', l, loan[l])
        BY <1>0, <1>3, <1>5, <1>7, <1>10, <2>1 DEF LoanFits, Undelivered, SignedStatus
    <2> QED
        BY <1>2, <1>5, <1>6, <1>10, <2>2, LoanActaFits
<1> QED
    BY <1>1, <1>8, <1>9, <1>10

\* A return acta goes its way without the loan.
LEMMA ReturnActaFits ==
    ASSUME TypeOK, ActasFit, NEW k \in Actas, ReturnActa(k)
    PROVE  ActasFit'
<1>1. acta[k].kind = "RETURN" /\ UNCHANGED <<loan, transfer, writeOff, handover, cancelling>>
    BY DEF ReturnActa, loanOthers
<1>2. PICK st \in {"PENDING_SIGNATURE", "SIGNED", "REJECTED"} : acta' = [acta EXCEPT ![k].status = st]
    BY DEF ReturnActa, Generates, ClosesSigned, ClosesRejected
<1>3. /\ \A q \in Processes : acta[k].owner # q => ActasKept(acta, acta', q)
      /\ \A q \in Processes : Own(acta', q) = Own(acta, q)
      /\ acta'[k].status = st /\ \A j \in Actas : acta'[j].kind = acta[j].kind
      /\ \A j \in Actas \ {k} : acta'[j] = acta[j]
    BY <1>2, ActaFrame
<1>4. \A q \in Transfers \cup WriteOffs \cup Handovers : acta[k].owner # q
    BY <1>1 DEF ActasFit, ActFits, Own
<1>5. ASSUME NEW l \in Loans PROVE LoanFits(acta', l, loan[l])
    <2>1. LoanFits(acta, l, loan[l]) /\ Own(acta', l) = Own(acta, l) /\ \A j \in Own(acta, l) : j \in Actas
        BY <1>3 DEF ActasFit, Own, Processes
    <2>2. CASE acta[k].owner # l
        BY <1>3, <2>1, <2>2, KeptFits DEF Processes
    <2>3. CASE acta[k].owner = l
        <3>1. k # loan[l].document /\ loan[l].document \in Actas \cup {None}
            BY <1>1, <2>1, NoneAssumption DEF LoanFits
        <3>2. \A j \in Own(acta, l) : acta'[j].kind = acta[j].kind /\ (acta[j].kind = "MAIN" => acta'[j] = acta[j])
            BY <1>1, <1>3, <2>1
        <3>3. loan[l].document # None => acta'[loan[l].document] = acta[loan[l].document]
            BY <1>3, <3>1
        <3>4. acta'[k].status # "NONE" /\ \A j \in Own(acta, l) : acta[j].status # "NONE" => acta'[j].status # "NONE"
            BY <1>2, <1>3, <2>1
        <3> QED
            BY <2>1, <3>2, <3>3, <3>4 DEF LoanFits
    <2> QED
        BY <2>2, <2>3
<1>6. /\ \A t \in Transfers : ActFits(acta', t, transfer[t])
      /\ \A w \in WriteOffs : ActFits(acta', w, writeOff[w])
      /\ \A h \in Handovers : ActFits(acta', h, handover[h])
    BY <1>3, <1>4, KeptFits DEF ActasFit, Processes
<1>7. CancelKnowsStatus'
    BY <1>1 DEF ActasFit, CancelKnowsStatus
<1> QED
    BY <1>1, <1>5, <1>6, <1>7 DEF ActasFit

LEMMA LoansFit == ASSUME TypeOK, ActasFit, LoanNext PROVE ActasFit'
BY QuietLoanSteps, DeliverFits, RegenerateFits, UndoFits, ReceiveFits, LoanCallbacksFit, ReturnActaFits DEF LoanNext

-----------------------------------------------------------------------------
(* Transfers, write-offs and handovers have one acta.                       *)

\* An acta is requested for a process that has none.
LEMMA ActEnqueueFits ==
    ASSUME TypeOK, ActasFit, NEW k \in Actas, NEW p \in Processes, Enqueue(k, p, "MAIN"), Own(acta, p) = {},
           NEW y, y.status \in {"PENDING_SIGNATURES", "AWAITING_DOCUMENT"}
    PROVE  ActFits(acta', p, y) /\ \A q \in Processes \ {p} : ActasKept(acta, acta', q)
BY EnqueueFrame DEF ActFits

\* The acta of a process is generated, signed or rejected, and the process with it.
LEMMA ActCallbackFits ==
    ASSUME TypeOK, NEW p \in Processes, NEW k \in Actas, acta[k].owner = p, NEW x, ActFits(acta, p, x),
           NEW st \in {"PENDING_SIGNATURE", "SIGNED", "REJECTED"}, acta' = [acta EXCEPT ![k].status = st],
           NEW y, y.status \notin {"NONE", "DRAFT"}, y.document = k,
           st = "SIGNED" <=> y.status \in {"COMPLETED", "SIGNED"}, st = "REJECTED" <=> y.status = "REJECTED"
    PROVE  ActFits(acta', p, y) /\ \A q \in Processes \ {p} : ActasKept(acta, acta', q)
<1>1. /\ \A q \in Processes \ {p} : ActasKept(acta, acta', q)
      /\ Own(acta', p) = Own(acta, p)
      /\ acta'[k].status = st /\ acta'[k].kind = acta[k].kind
    BY ActaFrame
<1>2. k \in Own(acta, p)
    BY DEF Own
<1>3. Own(acta', p) = {k} /\ acta'[k].kind = "MAIN"
    BY <1>1, <1>2 DEF ActFits
<1> QED
    BY <1>1, <1>3 DEF ActFits

\* The acta of a process that has not ended is voided.
LEMMA ActVoidFits ==
    ASSUME TypeOK, NEW p \in Processes, VoidForEntity(p), NEW x, ActFits(acta, p, x), x.status # "REJECTED",
           NEW y, y.status = "CANCELLED"
    PROVE  ActFits(acta', p, y) /\ \A q \in Processes \ {p} : ActasKept(acta, acta', q)
<1>1. /\ \A q \in Processes \ {p} : ActasKept(acta, acta', q)
      /\ Own(acta', p) = Own(acta, p)
      /\ \A k \in Own(acta, p) :
           /\ acta[k].status # "SIGNED" /\ acta'[k].kind = acta[k].kind
           /\ acta'[k].status = IF acta[k].status = "QUEUED" THEN "CANCELLED"
                                ELSE IF acta[k].status = "PENDING_SIGNATURE" THEN "VOIDED" ELSE acta[k].status
    BY VoidFrame
<1>2. \A k \in Own(acta, p) : acta'[k].status \notin {"NONE", "SIGNED", "REJECTED"} /\ acta'[k].kind = "MAIN"
    BY <1>1 DEF ActFits
<1> QED
    BY <1>1, <1>2 DEF ActFits

\* A process that has not ended changes without its acta.
LEMMA ActQuietFits ==
    ASSUME NEW p \in Processes, NEW x, ActFits(acta, p, x), x.status \notin {"COMPLETED", "SIGNED", "REJECTED"},
           NEW y, y.status \notin {"COMPLETED", "SIGNED", "REJECTED"}, acta' = acta,
           y.status \in {"NONE", "DRAFT"} => x.status \in {"NONE", "DRAFT"}
    PROVE  ActFits(acta', p, y) /\ \A q \in Processes \ {p} : ActasKept(acta, acta', q)
BY DEF ActFits, ActasKept

\* A step of the transfer t.
LEMMA OneTransferFits ==
    ASSUME ActasFit, NEW t \in Transfers, UNCHANGED <<loan, writeOff, handover>>,
           \A u \in Transfers \ {t} : transfer'[u] = transfer[u], \A w \in WriteOffs : cancelling'[w] = cancelling[w],
           \A q \in Processes \ {t} : ActasKept(acta, acta', q), ActFits(acta', t, transfer'[t])
    PROVE  ActasFit'
<1>1. t \in Processes /\ t \notin Loans /\ t \notin WriteOffs /\ t \notin Handovers
    BY DistinctProcesses DEF Processes
<1>2. CancelKnowsStatus'
    BY DEF ActasFit, CancelKnowsStatus
<1> QED
    BY <1>1, <1>2, OneProcessFits

\* TransfersService: creation, update, generation and the cancellation.
LEMMA TransferStepsFit ==
    ASSUME TypeOK, ActasFit, NEW t \in Transfers,
           \/ \E S \in SUBSET Assets : TransferUpdateItems(t, S) \/ \E c \in Centers : TransferCreate(t, S, c)
           \/ \E k \in Actas : TransferGenerate(t, k)
           \/ TransferCancelChecks(t) \/ TransferCancelVoids(t) \/ TransferCancelFindsNoActa(t)
           \/ TransferCancelLocks(t) \/ TransferCancelRefused(t)
    PROVE  ActasFit'
<1>0. transfer \in [Transfers -> TransferRecord] /\ transfer[t] \in TransferRecord /\ t \in Processes /\ ActFits(acta, t, transfer[t])
    BY DEF TypeOK, Processes, ActasFit
<1>1. ASSUME NEW S \in SUBSET Assets, TransferUpdateItems(t, S) PROVE ActasFit'
    <2>1. /\ transfer[t].status = "DRAFT" /\ transfer'[t].status = "DRAFT"
          /\ \A u \in Transfers \ {t} : transfer'[u] = transfer[u]
        BY <1>0, <1>1 DEF TransferUpdateItems, TransferRecord
    <2>2. UNCHANGED <<loan, writeOff, handover, cancelling, acta>>
        BY <1>1 DEF TransferUpdateItems, transferOthers
    <2> QED
        BY <1>0, <2>1, <2>2, ActQuietFits, OneTransferFits
<1>2. ASSUME NEW S \in SUBSET Assets, NEW c \in Centers, TransferCreate(t, S, c) PROVE ActasFit'
    <2>1. /\ transfer[t].status = "NONE" /\ transfer'[t].status = "DRAFT"
          /\ \A u \in Transfers \ {t} : transfer'[u] = transfer[u]
        BY <1>0, <1>2 DEF TransferCreate, TransferCreation, NoTransfer
    <2>2. UNCHANGED <<loan, writeOff, handover, cancelling, acta>>
        BY <1>2 DEF TransferCreate, transferOthers
    <2> QED
        BY <1>0, <2>1, <2>2, ActQuietFits, OneTransferFits
<1>3. ASSUME NEW k \in Actas, TransferGenerate(t, k) PROVE ActasFit'
    <2>1. /\ transfer[t].status = "DRAFT" /\ transfer'[t].status = "PENDING_SIGNATURES"
          /\ \A u \in Transfers \ {t} : transfer'[u] = transfer[u]
        BY <1>0, <1>3 DEF TransferGenerate, TransferRecord
    <2>2. UNCHANGED <<loan, writeOff, handover, cancelling>> /\ Enqueue(k, t, "MAIN")
        BY <1>3 DEF TransferGenerate, transferOthers
    <2>3. Own(acta, t) = {}
        BY <1>0, <2>1 DEF ActFits
    <2> QED
        BY <1>0, <2>1, <2>2, <2>3, ActEnqueueFits, OneTransferFits
<1>4. CASE TransferCancelVoids(t)
    <2>1. /\ transfer[t].status # "REJECTED" /\ transfer'[t].status = "CANCELLED"
          /\ \A u \in Transfers \ {t} : transfer'[u] = transfer[u]
        BY <1>0, <1>4 DEF TransferCancelVoids, TransferCancellable, CloseTransfer, TransferRecord
    <2>2. UNCHANGED <<loan, writeOff, handover>> /\ VoidForEntity(t)
        BY <1>4 DEF TransferCancelVoids, transferOthers
    <2>3. \A w \in WriteOffs : cancelling'[w] = cancelling[w]
        BY <1>4, DistinctProcesses DEF TransferCancelVoids, TypeOK
    <2> QED
        BY <1>0, <2>1, <2>2, <2>3, ActVoidFits, OneTransferFits
<1>5. CASE TransferCancelLocks(t)
    <2>1. /\ transfer[t].status \in {"DRAFT", "PENDING_SIGNATURES"} /\ transfer'[t].status = "CANCELLED"
          /\ \A u \in Transfers \ {t} : transfer'[u] = transfer[u]
        BY <1>0, <1>5 DEF TransferCancelLocks, TransferCancellable, CloseTransfer, TransferRecord
    <2>2. UNCHANGED <<loan, writeOff, handover, acta>>
        BY <1>5 DEF TransferCancelLocks, transferOthers
    <2>3. \A w \in WriteOffs : cancelling'[w] = cancelling[w]
        BY <1>5, DistinctProcesses DEF TransferCancelLocks, TypeOK
    <2> QED
        BY <1>0, <2>1, <2>2, <2>3, ActQuietFits, OneTransferFits
<1>6. CASE TransferCancelChecks(t) \/ TransferCancelFindsNoActa(t) \/ TransferCancelRefused(t)
    <2>1. UNCHANGED <<loan, transfer, writeOff, handover, acta>>
        BY <1>6 DEF TransferCancelChecks, TransferCancelFindsNoActa, TransferCancelRefused, processVars
    <2>2. \A w \in WriteOffs : cancelling'[w] = cancelling[w]
        BY <1>6, DistinctProcesses DEF TransferCancelChecks, TransferCancelFindsNoActa, TransferCancelRefused, TypeOK
    <2> QED
        BY <2>1, <2>2 DEF ActasFit, CancelKnowsStatus
<1> QED
    BY <1>1, <1>2, <1>3, <1>4, <1>5, <1>6

\* The callbacks of the transfer acta.
LEMMA TransferCallbacksFit ==
    ASSUME TypeOK, ActasFit, NEW k \in Actas, TransferActaGenerated(k) \/ TransferActaSigned(k) \/ TransferActaRejected(k)
    PROVE  ActasFit'
<1>1. PICK t \in Transfers, st \in {"PENDING_SIGNATURE", "SIGNED", "REJECTED"} :
        /\ acta[k].owner = t /\ transfer[t].status = "PENDING_SIGNATURES"
        /\ acta' = [acta EXCEPT ![k].status = st]
        /\ \/ st = "PENDING_SIGNATURE" /\ transfer' = [transfer EXCEPT ![t].document = k]
           \/ st = "SIGNED" /\ transfer[t].document = k /\ CloseTransfer(t, "COMPLETED")
           \/ st = "REJECTED" /\ transfer[t].document = k /\ CloseTransfer(t, "REJECTED")
    BY DEF TransferActaGenerated, TransferActaSigned, TransferActaRejected, Generates, ClosesSigned, ClosesRejected
<1>2. t \in Processes /\ UNCHANGED <<loan, writeOff, handover, cancelling>>
    BY DEF Processes, TransferActaGenerated, TransferActaSigned, TransferActaRejected, transferOthers
<1>3. /\ transfer'[t].document = k /\ \A u \in Transfers \ {t} : transfer'[u] = transfer[u]
      /\ transfer'[t].status = IF st = "SIGNED" THEN "COMPLETED" ELSE IF st = "REJECTED" THEN "REJECTED" ELSE "PENDING_SIGNATURES"
    <2>1. transfer \in [Transfers -> TransferRecord] /\ transfer[t] \in TransferRecord
        BY DEF TypeOK
    <2> QED
        BY <1>1, <2>1 DEF CloseTransfer, TransferRecord
<1>4. ActFits(acta, t, transfer[t])
    BY DEF ActasFit
<1>5. ActFits(acta', t, transfer'[t]) /\ \A q \in Processes \ {t} : ActasKept(acta, acta', q)
    <2>1. /\ transfer'[t].status \notin {"NONE", "DRAFT"}
          /\ st = "SIGNED" <=> transfer'[t].status \in {"COMPLETED", "SIGNED"}
          /\ st = "REJECTED" <=> transfer'[t].status = "REJECTED"
        BY <1>3
    <2> QED
        BY <1>1, <1>2, <1>3, <1>4, <2>1, ActCallbackFits
<1> QED
    BY <1>2, <1>3, <1>5, OneTransferFits

LEMMA TransfersFit == ASSUME TypeOK, ActasFit, TransferNext PROVE ActasFit'
BY TransferStepsFit, TransferCallbacksFit DEF TransferNext

\* A step of the write-off w: while its cancellation has it locked it stays as
\* the cancellation found it.
LEMMA OneWriteOffFits ==
    ASSUME ActasFit, NEW w \in WriteOffs, UNCHANGED <<loan, transfer, handover>>,
           \A v \in WriteOffs \ {w} : writeOff'[v] = writeOff[v] /\ cancelling'[v] = cancelling[v],
           cancelling'[w] = "checked" => writeOff'[w].status \in {"DRAFT", "PENDING_SIGNATURES"},
           \A q \in Processes \ {w} : ActasKept(acta, acta', q), ActFits(acta', w, writeOff'[w])
    PROVE  ActasFit'
<1>1. w \in Processes /\ w \notin Loans /\ w \notin Transfers /\ w \notin Handovers
    BY DistinctProcesses DEF Processes
<1>2. CancelKnowsStatus'
    BY DEF ActasFit, CancelKnowsStatus
<1> QED
    BY <1>1, <1>2, OneProcessFits

\* WriteOffsService: creation, update, generation and the cancellation.
LEMMA WriteOffStepsFit ==
    ASSUME TypeOK, ActasFit, NEW w \in WriteOffs,
           \/ \E S \in SUBSET Assets : WriteOffCreate(w, S) \/ WriteOffUpdate(w, S)
           \/ \E k \in Actas : WriteOffGenerate(w, k)
           \/ WriteOffCancelChecks(w) \/ WriteOffCancelCloses(w)
    PROVE  ActasFit'
<1>0. /\ writeOff \in [WriteOffs -> WriteOffRecord] /\ writeOff[w] \in WriteOffRecord
      /\ w \in Processes /\ ActFits(acta, w, writeOff[w]) /\ CancelKnowsStatus
    BY DEF TypeOK, Processes, ActasFit
<1>1. ASSUME NEW S \in SUBSET Assets, WriteOffCreate(w, S) PROVE ActasFit'
    <2>1. /\ writeOff[w].status = "NONE" /\ writeOff'[w].status = "DRAFT"
          /\ \A v \in WriteOffs \ {w} : writeOff'[v] = writeOff[v]
        BY <1>0, <1>1 DEF WriteOffCreate, NoWriteOff
    <2>2. UNCHANGED <<loan, transfer, handover, cancelling, acta>>
        BY <1>1 DEF WriteOffCreate, writeOffOthers
    <2> QED
        BY <1>0, <2>1, <2>2, ActQuietFits, OneWriteOffFits
<1>2. ASSUME NEW S \in SUBSET Assets, WriteOffUpdate(w, S) PROVE ActasFit'
    <2>1. /\ writeOff[w].status = "DRAFT" /\ writeOff'[w].status = "DRAFT"
          /\ \A v \in WriteOffs \ {w} : writeOff'[v] = writeOff[v]
        BY <1>0, <1>2 DEF WriteOffUpdate, WriteOffRecord
    <2>2. UNCHANGED <<loan, transfer, handover, cancelling, acta>>
        BY <1>2 DEF WriteOffUpdate, writeOffOthers
    <2> QED
        BY <1>0, <2>1, <2>2, ActQuietFits, OneWriteOffFits
<1>3. ASSUME NEW k \in Actas, WriteOffGenerate(w, k) PROVE ActasFit'
    <2>1. /\ writeOff[w].status = "DRAFT" /\ writeOff'[w].status = "PENDING_SIGNATURES"
          /\ \A v \in WriteOffs \ {w} : writeOff'[v] = writeOff[v]
        BY <1>0, <1>3 DEF WriteOffGenerate, WriteOffRecord
    <2>2. UNCHANGED <<loan, transfer, handover, cancelling>> /\ Enqueue(k, w, "MAIN")
        BY <1>3 DEF WriteOffGenerate, writeOffOthers
    <2>3. Own(acta, w) = {}
        BY <1>0, <2>1 DEF ActFits
    <2> QED
        BY <1>0, <2>1, <2>2, <2>3, ActEnqueueFits, OneWriteOffFits
<1>4. CASE WriteOffCancelChecks(w)
    <2>1. UNCHANGED <<loan, transfer, writeOff, handover, acta>> /\ writeOff[w].status \in {"DRAFT", "PENDING_SIGNATURES"}
        BY <1>4 DEF WriteOffCancelChecks, processVars
    <2>2. \A v \in WriteOffs \ {w} : cancelling'[v] = cancelling[v]
        BY <1>4 DEF WriteOffCancelChecks, TypeOK, Processes
    <2> QED
        BY <1>0, <2>1, <2>2, ActQuietFits, OneWriteOffFits
<1>5. CASE WriteOffCancelCloses(w)
    <2>1. writeOff[w].status # "REJECTED"
        BY <1>0, <1>5 DEF WriteOffCancelCloses, CancelKnowsStatus
    <2>2. /\ writeOff'[w].status = "CANCELLED"
          /\ \A v \in WriteOffs \ {w} : writeOff'[v] = writeOff[v]
        BY <1>0, <1>5 DEF WriteOffCancelCloses, CloseWriteOff, WriteOffRecord
    <2>3. UNCHANGED <<loan, transfer, handover>> /\ VoidForEntity(w)
        BY <1>5 DEF WriteOffCancelCloses, writeOffOthers
    <2>4. cancelling'[w] = "no" /\ \A v \in WriteOffs \ {w} : cancelling'[v] = cancelling[v]
        BY <1>0, <1>5 DEF WriteOffCancelCloses, TypeOK, Processes
    <2> QED
        BY <1>0, <2>1, <2>2, <2>3, <2>4, ActVoidFits, OneWriteOffFits
<1> QED
    BY <1>1, <1>2, <1>3, <1>4, <1>5

\* The callbacks of the write-off acta, which need the lock of the write-off.
LEMMA WriteOffCallbacksFit ==
    ASSUME TypeOK, ActasFit, NEW k \in Actas, WriteOffActaGenerated(k) \/ WriteOffActaSigned(k) \/ WriteOffActaRejected(k)
    PROVE  ActasFit'
<1>1. PICK w \in WriteOffs, st \in {"PENDING_SIGNATURE", "SIGNED", "REJECTED"} :
        /\ acta[k].owner = w /\ writeOff[w].status = "PENDING_SIGNATURES" /\ Unlocked(w)
        /\ acta' = [acta EXCEPT ![k].status = st]
        /\ \/ st = "PENDING_SIGNATURE" /\ writeOff' = [writeOff EXCEPT ![w].document = k]
           \/ st = "SIGNED" /\ writeOff[w].document = k /\ CloseWriteOff(w, "COMPLETED")
           \/ st = "REJECTED" /\ writeOff[w].document = k /\ CloseWriteOff(w, "REJECTED")
    BY DEF WriteOffActaGenerated, WriteOffActaSigned, WriteOffActaRejected, Generates, ClosesSigned, ClosesRejected
<1>2. w \in Processes /\ UNCHANGED <<loan, transfer, handover, cancelling>>
    BY DEF Processes, WriteOffActaGenerated, WriteOffActaSigned, WriteOffActaRejected, writeOffOthers
<1>3. /\ writeOff'[w].document = k /\ \A v \in WriteOffs \ {w} : writeOff'[v] = writeOff[v]
      /\ writeOff'[w].status = IF st = "SIGNED" THEN "COMPLETED" ELSE IF st = "REJECTED" THEN "REJECTED" ELSE "PENDING_SIGNATURES"
    <2>1. writeOff \in [WriteOffs -> WriteOffRecord] /\ writeOff[w] \in WriteOffRecord
        BY DEF TypeOK
    <2> QED
        BY <1>1, <2>1 DEF CloseWriteOff, WriteOffRecord
<1>4. ActFits(acta, w, writeOff[w])
    BY DEF ActasFit
<1>5. ActFits(acta', w, writeOff'[w]) /\ \A q \in Processes \ {w} : ActasKept(acta, acta', q)
    <2>1. /\ writeOff'[w].status \notin {"NONE", "DRAFT"}
          /\ st = "SIGNED" <=> writeOff'[w].status \in {"COMPLETED", "SIGNED"}
          /\ st = "REJECTED" <=> writeOff'[w].status = "REJECTED"
        BY <1>3
    <2> QED
        BY <1>1, <1>2, <1>3, <1>4, <2>1, ActCallbackFits
<1>6. cancelling'[w] # "checked"
    BY <1>1, <1>2 DEF Unlocked
<1> QED
    BY <1>2, <1>3, <1>5, <1>6, OneWriteOffFits

LEMMA WriteOffsFit == ASSUME TypeOK, ActasFit, WriteOffNext PROVE ActasFit'
BY WriteOffStepsFit, WriteOffCallbacksFit DEF WriteOffNext

\* A step of the handover h.
LEMMA OneHandoverFits ==
    ASSUME ActasFit, NEW h \in Handovers, UNCHANGED <<loan, transfer, writeOff, cancelling>>,
           \A g \in Handovers \ {h} : handover'[g] = handover[g],
           \A q \in Processes \ {h} : ActasKept(acta, acta', q), ActFits(acta', h, handover'[h])
    PROVE  ActasFit'
<1>1. h \in Processes /\ h \notin Loans /\ h \notin Transfers /\ h \notin WriteOffs
    BY DistinctProcesses DEF Processes
<1>2. CancelKnowsStatus'
    BY DEF ActasFit, CancelKnowsStatus
<1> QED
    BY <1>1, <1>2, OneProcessFits

\* HandoversService: a handover is created with its acta and cancelled with it.
LEMMA HandoverStepsFit ==
    ASSUME TypeOK, ActasFit, NEW h \in Handovers,
           \/ \E S \in SUBSET Assets, c \in Centers, k \in Actas : HandoverCreate(h, S, c, k)
           \/ HandoverCancel(h)
    PROVE  ActasFit'
<1>0. handover \in [Handovers -> HandoverRecord] /\ handover[h] \in HandoverRecord /\ h \in Processes /\ ActFits(acta, h, handover[h])
    BY DEF TypeOK, Processes, ActasFit
<1>1. ASSUME NEW S \in SUBSET Assets, NEW c \in Centers, NEW k \in Actas, HandoverCreate(h, S, c, k) PROVE ActasFit'
    <2>1. /\ handover[h].status = "NONE" /\ handover'[h].status = "AWAITING_DOCUMENT"
          /\ \A g \in Handovers \ {h} : handover'[g] = handover[g]
        BY <1>0, <1>1 DEF HandoverCreate, NoHandover
    <2>2. UNCHANGED <<loan, transfer, writeOff, cancelling>> /\ Enqueue(k, h, "MAIN")
        BY <1>1 DEF HandoverCreate, handoverOthers
    <2>3. Own(acta, h) = {}
        BY <1>0, <2>1 DEF ActFits
    <2> QED
        BY <1>0, <2>1, <2>2, <2>3, ActEnqueueFits, OneHandoverFits
<1>2. CASE HandoverCancel(h)
    <2>1. /\ handover[h].status # "REJECTED" /\ handover'[h].status = "CANCELLED"
          /\ \A g \in Handovers \ {h} : handover'[g] = handover[g]
        BY <1>0, <1>2 DEF HandoverCancel, CloseHandover, HandoverRecord
    <2>2. UNCHANGED <<loan, transfer, writeOff, cancelling>> /\ VoidForEntity(h)
        BY <1>2 DEF HandoverCancel, handoverOthers
    <2> QED
        BY <1>0, <2>1, <2>2, ActVoidFits, OneHandoverFits
<1> QED
    BY <1>1, <1>2

\* The callbacks of the handover acta.
LEMMA HandoverCallbacksFit ==
    ASSUME TypeOK, ActasFit, NEW k \in Actas, HandoverActaGenerated(k) \/ HandoverActaSigned(k) \/ HandoverActaRejected(k)
    PROVE  ActasFit'
<1>1. PICK h \in Handovers, st \in {"PENDING_SIGNATURE", "SIGNED", "REJECTED"} :
        /\ acta[k].owner = h
        /\ acta' = [acta EXCEPT ![k].status = st]
        /\ \/ st = "PENDING_SIGNATURE" /\ handover' = [handover EXCEPT ![h].document = k, ![h].status = "PENDING_SIGNATURE"]
           \/ st = "SIGNED" /\ handover[h].document = k /\ CloseHandover(h, "SIGNED")
           \/ st = "REJECTED" /\ handover[h].document = k /\ CloseHandover(h, "REJECTED")
    BY DEF HandoverActaGenerated, HandoverActaSigned, HandoverActaRejected, Generates, ClosesSigned, ClosesRejected
<1>2. h \in Processes /\ UNCHANGED <<loan, transfer, writeOff, cancelling>>
    BY DEF Processes, HandoverActaGenerated, HandoverActaSigned, HandoverActaRejected, handoverOthers
<1>3. /\ handover'[h].document = k /\ \A g \in Handovers \ {h} : handover'[g] = handover[g]
      /\ handover'[h].status = st
    <2>1. handover \in [Handovers -> HandoverRecord] /\ handover[h] \in HandoverRecord
        BY DEF TypeOK
    <2>2. CASE st = "PENDING_SIGNATURE" /\ handover' = [handover EXCEPT ![h].document = k, ![h].status = "PENDING_SIGNATURE"]
        BY <2>1, <2>2 DEF HandoverRecord
    <2>3. CASE st # "PENDING_SIGNATURE"
        BY <1>1, <2>1, <2>3 DEF CloseHandover, HandoverRecord
    <2> QED
        BY <1>1, <2>2, <2>3
<1>4. ActFits(acta, h, handover[h])
    BY DEF ActasFit
<1>5. ActFits(acta', h, handover'[h]) /\ \A q \in Processes \ {h} : ActasKept(acta, acta', q)
    <2>1. /\ handover'[h].status \notin {"NONE", "DRAFT"}
          /\ st = "SIGNED" <=> handover'[h].status \in {"COMPLETED", "SIGNED"}
          /\ st = "REJECTED" <=> handover'[h].status = "REJECTED"
        BY <1>3
    <2>2. acta[k].owner = h /\ acta' = [acta EXCEPT ![k].status = st]
        BY <1>1
    <2>3. handover'[h].document = k
        BY <1>3
    <2> QED
        BY <1>2, <1>4, <2>1, <2>2, <2>3, ActCallbackFits
<1> QED
    BY <1>2, <1>3, <1>5, OneHandoverFits

LEMMA HandoversFit == ASSUME TypeOK, ActasFit, HandoverNext PROVE ActasFit'
BY HandoverStepsFit, HandoverCallbacksFit DEF HandoverNext

\* AssetRequestsService.generate: the loan is new, or the transfer is with its acta.
LEMMA RequestsFit == ASSUME TypeOK, ActasFit, RequestNext PROVE ActasFit'
<1>1. CASE UNCHANGED requestOthers
    BY <1>1 DEF requestOthers, ActasFit, CancelKnowsStatus
<1>2. ASSUME NEW r \in Requests, NEW l \in Loans, RequestGenerateLoan(r, l) PROVE ActasFit'
    <2>0. loan \in [Loans -> LoanRecord] /\ loan[l] \in LoanRecord
        BY DEF TypeOK
    <2>1. /\ loan'[l].status = "APPROVED" /\ loan'[l].delivered = FALSE /\ loan'[l].document = None
          /\ loan[l].status = "NONE" /\ \A m \in Loans \ {l} : loan'[m] = loan[m]
        BY <1>2, <2>0 DEF RequestGenerateLoan, LoanCreation, NoLoan
    <2>2. loan[l].delivered = FALSE /\ loan[l].document = None
        BY <2>0, <2>1 DEF ActasFit, LoanFits, LoanRecord, Undelivered
    <2>3. UNCHANGED <<acta, transfer, writeOff, handover, cancelling>>
        BY <1>2 DEF RequestGenerateLoan
    <2>4. loan'[l].status \notin SignedStatus /\ loan[l].status \in Undelivered
        BY <2>1 DEF SignedStatus, Undelivered
    <2> QED
        BY <2>1, <2>2, <2>3, <2>4, QuietLoanFits
<1>3. ASSUME NEW r \in Requests, NEW t \in Transfers, NEW k \in Actas, RequestGenerateTransfer(r, t, k) PROVE ActasFit'
    <2>0. /\ transfer \in [Transfers -> TransferRecord] /\ transfer[t] \in TransferRecord
          /\ t \in Processes /\ ActFits(acta, t, transfer[t])
        BY DEF TypeOK, Processes, ActasFit
    <2>1. /\ transfer[t].status = "NONE" /\ transfer'[t].status = "PENDING_SIGNATURES"
          /\ \A u \in Transfers \ {t} : transfer'[u] = transfer[u]
        BY <1>3, <2>0 DEF RequestGenerateTransfer, TransferCreation, NoTransfer
    <2>2. UNCHANGED <<loan, writeOff, handover, cancelling>> /\ Enqueue(k, t, "MAIN")
        BY <1>3 DEF RequestGenerateTransfer
    <2>3. Own(acta, t) = {}
        BY <2>0, <2>1 DEF ActFits
    <2> QED
        BY <2>0, <2>1, <2>2, <2>3, ActEnqueueFits, OneTransferFits
<1> QED
    BY <1>1, <1>2, <1>3 DEF RequestNext, RequestCreate, RequestAccept, RequestClose, RequestCancel, ReturnToRequester,
       RequestCorrect, RequestExpire

\* What follows from the fit of every process with its actas.
LEMMA FitIsSound == ASSUME TypeOK, ActasFit PROVE ActiveIsSigned /\ OneLiveActa /\ SettledTogether
<1>0. None \notin Actas
    BY NoneAssumption
<1>1. ActiveIsSigned
    BY DEF ActiveIsSigned, ActasFit, LoanFits, SignedStatus
<1>2. ASSUME NEW p \in Processes PROVE Cardinality({k \in LiveActas(p) : acta[k].kind = "MAIN"}) <= 1
    <2> DEFINE Live == {k \in LiveActas(p) : acta[k].kind = "MAIN"}
    <2>1. \A k \in Live : k \in Own(acta, p) /\ acta[k].kind = "MAIN" /\ acta[k].status \in {"QUEUED", "PENDING_SIGNATURE"}
        BY DEF LiveActas, ActasOf, Own
    <2>2. \A k \in Own(acta, p) : k # None
        BY <1>0 DEF Own
    <2>3. \A j, k \in Live : j = k
        <3>1. CASE p \in Loans
            <4>1. LoanFits(acta, p, loan[p])
                BY <3>1 DEF ActasFit
            <4> QED
                BY <2>1, <2>2, <4>1 DEF LoanFits
        <3>2. CASE p \notin Loans
            <4>1. \A j, k \in Own(acta, p) : j = k
                BY <3>2 DEF ActasFit, ActFits, Processes
            <4> QED
                BY <2>1, <4>1
        <3> QED
            BY <3>1, <3>2
    <2>4. Live = {} \/ \E k \in Live : Live = {k}
        BY <2>3
    <2> HIDE DEF Live
    <2>5. Cardinality(Live) <= 1
        <3>1. CASE Live = {}
            BY <3>1, FS_EmptySet
        <3>2. CASE \E k \in Live : Live = {k}
            BY <3>2, FS_Singleton
        <3> QED
            BY <2>4, <3>1, <3>2
    <2> QED
        BY <2>5 DEF Live
<1>3. SettledTogether
    <2>1. ASSUME NEW k \in Actas, NEW t \in Transfers, acta[k].owner = t
          PROVE  /\ acta[k].status = "SIGNED" <=> transfer[t].status = "COMPLETED" /\ transfer[t].document = k
                 /\ acta[k].status = "REJECTED" <=> transfer[t].status = "REJECTED" /\ transfer[t].document = k
        <3>1. ActFits(acta, t, transfer[t]) /\ k \in Own(acta, t) /\ transfer[t].status # "SIGNED"
            BY <2>1 DEF ActasFit, Own, TypeOK, TransferRecord, ActStatus
        <3> QED
            BY <3>1 DEF ActFits
    <2>2. ASSUME NEW k \in Actas, NEW w \in WriteOffs, acta[k].owner = w
          PROVE  /\ acta[k].status = "SIGNED" <=> writeOff[w].status = "COMPLETED" /\ writeOff[w].document = k
                 /\ acta[k].status = "REJECTED" <=> writeOff[w].status = "REJECTED" /\ writeOff[w].document = k
        <3>1. ActFits(acta, w, writeOff[w]) /\ k \in Own(acta, w) /\ writeOff[w].status # "SIGNED"
            BY <2>2 DEF ActasFit, Own, TypeOK, WriteOffRecord, ActStatus
        <3> QED
            BY <3>1 DEF ActFits
    <2>3. ASSUME NEW k \in Actas, NEW h \in Handovers, acta[k].owner = h
          PROVE  /\ acta[k].status = "SIGNED" <=> handover[h].status = "SIGNED" /\ handover[h].document = k
                 /\ acta[k].status = "REJECTED" <=> handover[h].status = "REJECTED" /\ handover[h].document = k
        <3>1. ActFits(acta, h, handover[h]) /\ k \in Own(acta, h) /\ handover[h].status # "COMPLETED"
            BY <2>3 DEF ActasFit, Own, TypeOK, HandoverRecord, HandoverStatus
        <3> QED
            BY <3>1 DEF ActFits
    <2> QED
        BY <2>1, <2>2, <2>3 DEF SettledTogether
<1> QED
    BY <1>1, <1>2, <1>3 DEF OneLiveActa

\* A signature that does not settle the acta changes nothing of the fit.
LEMMA FirstSignatureFits == ASSUME TypeOK, ActasFit, NEW k \in Actas, FirstSignature(k) PROVE ActasFit'
<1>1. acta' = [acta EXCEPT ![k].signed = TRUE] /\ UNCHANGED <<loan, transfer, writeOff, handover, cancelling>>
    BY DEF FirstSignature, processVars
<1>2. \A j \in Actas : acta'[j].owner = acta[j].owner /\ acta'[j].status = acta[j].status /\ acta'[j].kind = acta[j].kind
    <2>1. acta \in [Actas -> ActaRecord]
        BY DEF TypeOK
    <2> QED
        BY <1>1, <2>1 DEF ActaRecord
<1>3. \A p \in Processes : ActasKept(acta, acta', p)
    BY <1>2 DEF ActasKept, Own
<1>4. CancelKnowsStatus'
    BY <1>1 DEF ActasFit, CancelKnowsStatus
<1> QED
    BY <1>1, <1>3, <1>4, KeptFits DEF ActasFit, Processes

LEMMA InitFits == ASSUME Init PROVE ActasFit
<1>1. \A p \in Processes : Own(acta, p) = {}
    BY NoneAssumption DEF Init, Own, NoActa, Processes
<1>2. \A w \in WriteOffs : cancelling[w] = "no"
    BY DEF Init
<1> QED
    BY <1>1, <1>2 DEF Init, ActasFit, LoanFits, ActFits, CancelKnowsStatus, Processes, NoLoan, NoTransfer, NoWriteOff, NoHandover,
       SignedStatus, Undelivered

LEMMA NextFits == ASSUME TypeOK, ActasFit, [Next]_vars PROVE ActasFit'
<1>1. ASSUME UNCHANGED <<loan, transfer, writeOff, handover, acta, cancelling>> PROVE ActasFit'
    BY <1>1 DEF ActasFit, CancelKnowsStatus
<1>2. CASE InventoryNext
    BY <1>1, <1>2 DEF InventoryNext, inventoryOthers, InventoryStart, InventorySaveStart, InventoryCancel, InventoryClose,
       InventorySaveClose, ReportUnexpected, InventorySaveReport, InventoryReport, RequestReconcile, ApproveReconcile, ApplyReconcile
<1>3. CASE EditNext
    BY <1>1, <1>3 DEF EditNext, WriteOffAsset, ChangeStatus, ApplyEdit, EditRefused, processVars
<1>4. CASE UNCHANGED vars
    BY <1>1, <1>4 DEF vars, processVars
<1> QED
    BY <1>2, <1>3, <1>4, LoansFit, TransfersFit, WriteOffsFit, HandoversFit, RequestsFit, FirstSignatureFits DEF Next

-----------------------------------------------------------------------------
(* The request that ordered a loan follows it.                             *)

\* Only the loan a request ordered answers to it, and the request waits for it
\* exactly while it is approved.
LoanOf(r, q, ln) ==
    q.loan # None =>
        /\ ln[q.loan].request = r /\ ln[q.loan].status \notin {"NONE", "REQUESTED"}
        /\ q.status \in {"LOAN_SCHEDULED", "DOCUMENT_GENERATED", "CLOSED_LOAN_REJECTED", "CLOSED_LOAN_CANCELLED"}
        /\ q.status = "LOAN_SCHEDULED" <=> ln[q.loan].status = "APPROVED"

RequestsFollow == \A r \in Requests : LoanOf(r, request[r], loan)

\* A loan step that no request has to follow.
LEMMA QuietFollow ==
    ASSUME TypeOK, RequestsFollow, NEW l \in Loans, request' = request, \A m \in Loans \ {l} : loan'[m] = loan[m],
           \/ loan[l].status \in {"NONE", "REQUESTED"}
           \/ /\ loan'[l].request = loan[l].request /\ loan'[l].status \notin {"NONE", "REQUESTED"}
              /\ loan'[l].status = "APPROVED" <=> loan[l].status = "APPROVED"
    PROVE  RequestsFollow'
<1>1. \A r \in Requests : request[r].loan \in Loans \cup {None}
    BY DEF TypeOK, RequestRecord
<1> QED
    BY <1>1 DEF RequestsFollow, LoanOf

\* A loan that leaves APPROVED takes the request that ordered it along.
LEMMA ClosingFollow ==
    ASSUME TypeOK, RequestsFollow, NEW l \in Loans, loan[l].status \in {"REQUESTED", "APPROVED"},
           \A m \in Loans \ {l} : loan'[m] = loan[m], loan'[l].request = loan[l].request,
           loan'[l].status \notin {"NONE", "REQUESTED", "APPROVED"},
           NEW next \in {"DOCUMENT_GENERATED", "CLOSED_LOAN_REJECTED", "CLOSED_LOAN_CANCELLED"},
           \A r \in Requests : request'[r].loan = request[r].loan,
           \A r \in Requests : request'[r].status = IF RequestWaits(l) /\ r = loan[l].request THEN next ELSE request[r].status
    PROVE  RequestsFollow'
<1>1. \A r \in Requests : request[r].loan \in Loans \cup {None}
    BY DEF TypeOK, RequestRecord
<1>2. l # None
    BY NoneAssumption DEF Processes
<1>3. ASSUME NEW r \in Requests, request[r].loan = l PROVE LoanOf(r, request'[r], loan')
    <2>1. loan[l].request = r /\ loan[l].status = "APPROVED" /\ request[r].status = "LOAN_SCHEDULED"
        BY <1>2, <1>3 DEF RequestsFollow, LoanOf
    <2>2. RequestWaits(l)
        BY <1>3, <2>1, NoneAssumption DEF RequestWaits
    <2> QED
        BY <1>3, <2>1, <2>2 DEF LoanOf
<1>4. ASSUME NEW r \in Requests, request[r].loan # l PROVE LoanOf(r, request'[r], loan')
    <2>1. request'[r].status = request[r].status
        BY <1>4 DEF RequestWaits
    <2> QED
        BY <1>1, <1>4, <2>1 DEF RequestsFollow, LoanOf
<1> QED
    BY <1>3, <1>4 DEF RequestsFollow

LEMMA LoansFollow == ASSUME TypeOK, RequestsFollow, LoanNext PROVE RequestsFollow'
<1>0. loan \in [Loans -> LoanRecord] /\ request \in [Requests -> RequestRecord]
    BY DEF TypeOK
<1>1. ASSUME NEW l \in Loans, NEW S \in SUBSET Assets, LoanCreate(l, S) PROVE RequestsFollow'
    <2>1. loan[l].status = "NONE" /\ request' = request /\ \A m \in Loans \ {l} : loan'[m] = loan[m]
        BY <1>0, <1>1 DEF LoanCreate, LoanCreation
    <2> QED
        BY <2>1, QuietFollow
<1>2. ASSUME NEW l \in Loans, LoanApprove(l) PROVE RequestsFollow'
    <2>1. loan[l].status = "REQUESTED" /\ request' = request /\ \A m \in Loans \ {l} : loan'[m] = loan[m]
        BY <1>0, <1>2 DEF LoanApprove, SetLoan
    <2> QED
        BY <2>1, QuietFollow
<1>3. ASSUME NEW l \in Loans, LoanReject(l) \/ LoanCancel(l) PROVE RequestsFollow'
    <2>1. PICK next \in {"CLOSED_LOAN_REJECTED", "CLOSED_LOAN_CANCELLED"}, st \in {"REJECTED", "CANCELLED"} :
            loan[l].status \in {"REQUESTED", "APPROVED"} /\ SetLoan(l, st) /\ CloseByLoan(l, next)
        BY <1>3 DEF LoanReject, LoanCancel
    <2>2. loan'[l].status = st /\ loan'[l].request = loan[l].request /\ \A m \in Loans \ {l} : loan'[m] = loan[m]
        BY <1>0, <2>1 DEF SetLoan, LoanRecord
    <2>3. \A r \in Requests : /\ request'[r].loan = request[r].loan
                              /\ request'[r].status = IF RequestWaits(l) /\ r = loan[l].request THEN next ELSE request[r].status
        <3>1. CASE RequestWaits(l)
            BY <1>0, <2>1, <3>1 DEF CloseByLoan, RequestRecord
        <3>2. CASE ~RequestWaits(l)
            BY <2>1, <3>2 DEF CloseByLoan
        <3> QED
            BY <3>1, <3>2
    <2> QED
        BY <2>1, <2>2, <2>3, ClosingFollow
<1>4. ASSUME NEW l \in Loans, NEW k \in Actas, LoanDeliver(l, k) PROVE RequestsFollow'
    <2>1. /\ loan[l].status = "APPROVED" /\ loan'[l].status = "PENDING_SIGNATURES"
          /\ loan'[l].request = loan[l].request /\ \A m \in Loans \ {l} : loan'[m] = loan[m]
        BY <1>0, <1>4 DEF LoanDeliver, LoanRecord
    <2>2. OnLoanDelivered(l)
        BY <1>4 DEF LoanDeliver
    <2>3. \A r \in Requests :
            /\ request'[r].loan = request[r].loan
            /\ request'[r].status = IF RequestWaits(l) /\ r = loan[l].request THEN "DOCUMENT_GENERATED" ELSE request[r].status
        <3>1. CASE RequestWaits(l)
            BY <1>0, <2>2, <3>1 DEF OnLoanDelivered, RequestRecord
        <3>2. CASE ~RequestWaits(l)
            BY <2>2, <3>2 DEF OnLoanDelivered
        <3> QED
            BY <3>1, <3>2
    <2> QED
        BY <2>1, <2>3, ClosingFollow
<1>5. ASSUME NEW l \in Loans, UNCHANGED request, \A m \in Loans \ {l} : loan'[m] = loan[m], loan'[l].request = loan[l].request,
             loan[l].status \notin {"NONE", "REQUESTED", "APPROVED"} /\ loan'[l].status \notin {"NONE", "REQUESTED", "APPROVED"}
      PROVE  RequestsFollow'
    BY <1>5, QuietFollow
<1>6. ASSUME UNCHANGED <<loan, request>> PROVE RequestsFollow'
    BY <1>6 DEF RequestsFollow
<1>7. ASSUME NEW l \in Loans, UndoDeliveryEffect(l), UNCHANGED request PROVE RequestsFollow'
    <2>1. /\ loan[l].status = "PENDING_SIGNATURES" /\ loan'[l].status = "CANCELLED"
          /\ loan'[l].request = loan[l].request /\ \A m \in Loans \ {l} : loan'[m] = loan[m]
        BY <1>0, <1>7 DEF UndoDeliveryEffect, SetLoan, LoanRecord
    <2> QED
        BY <1>5, <1>7, <2>1
<1>8. ASSUME NEW l \in Loans, UndoDelivery(l) \/ UndoLocksLoan(l) \/ UndoFindsNoActa(l) PROVE RequestsFollow'
    BY <1>6, <1>7, <1>8 DEF UndoDelivery, UndoLocksLoan, UndoFindsNoActa, processVars
<1>9. ASSUME NEW l \in Loans, NEW S \in SUBSET loan[l].items, NEW condition \in [S -> {"GOOD", "LOST"}], StartReturn(l, S, condition)
      PROVE  RequestsFollow'
    <2>1. /\ loan[l].status \notin {"NONE", "REQUESTED", "APPROVED"} /\ loan'[l].status = "PENDING_RECEPTION"
          /\ loan'[l].request = loan[l].request /\ \A m \in Loans \ {l} : loan'[m] = loan[m]
          /\ UNCHANGED request
        BY <1>0, <1>9 DEF StartReturn, LoanRecord
    <2> QED
        BY <1>5, <2>1
<1>10. ASSUME NEW l \in Loans, ReceiveReturn(l) PROVE RequestsFollow'
    <2>1. /\ loan[l].status = "PENDING_RECEPTION" /\ loan'[l].status \notin {"NONE", "REQUESTED", "APPROVED"}
          /\ loan'[l].request = loan[l].request /\ \A m \in Loans \ {l} : loan'[m] = loan[m]
          /\ UNCHANGED request
        BY <1>0, <1>10 DEF ReceiveReturn, StatusAfterReception, LoanRecord
    <2> QED
        BY <1>5, <2>1
<1>11. ASSUME NEW l \in Loans, MarkOverdue(l) PROVE RequestsFollow'
    <2>1. /\ loan[l].status = "ACTIVE" /\ loan'[l].status = "OVERDUE"
          /\ loan'[l].request = loan[l].request /\ \A m \in Loans \ {l} : loan'[m] = loan[m]
          /\ UNCHANGED request
        BY <1>0, <1>11 DEF MarkOverdue, SetLoan, LoanRecord
    <2> QED
        BY <1>5, <2>1
<1>12. ASSUME NEW l \in Loans, RequestExtension(l) \/ ApproveExtension(l) \/ RejectExtension(l) PROVE RequestsFollow'
    <2>1. /\ loan'[l].status = loan[l].status \/ (loan'[l].status = "ACTIVE" /\ loan[l].status \in {"ACTIVE", "OVERDUE"})
          /\ loan'[l].request = loan[l].request /\ \A m \in Loans \ {l} : loan'[m] = loan[m]
        <3>1. CASE ApproveExtension(l)
            BY <1>0, <3>1 DEF ApproveExtension, LoanRecord
        <3>2. CASE RequestExtension(l) \/ RejectExtension(l)
            BY <1>0, <3>2 DEF RequestExtension, RejectExtension, LoanRecord
        <3> QED
            BY <1>12, <3>1, <3>2
    <2>2. UNCHANGED request
        BY <1>12 DEF RequestExtension, ApproveExtension, RejectExtension
    <2> QED
        BY <2>1, <2>2, QuietFollow
<1>13. ASSUME NEW l \in Loans, NEW k \in Actas, RegenerateDeliveryAct(l, k) PROVE RequestsFollow'
    BY <1>6, <1>13 DEF RegenerateDeliveryAct
<1>14. ASSUME NEW k \in Actas, LoanActaGenerated(k) \/ LoanActaSigned(k) PROVE RequestsFollow'
    <2>1. PICK l \in Loans : \/ loan' = [loan EXCEPT ![l].document = k]
                             \/ SetLoan(l, IF loan[l].status = "PENDING_SIGNATURES" THEN "ACTIVE" ELSE loan[l].status)
        BY <1>14 DEF LoanActaGenerated, LoanActaSigned
    <2>2. UNCHANGED request
        BY <1>14 DEF LoanActaGenerated, LoanActaSigned
    <2>3. /\ loan'[l].status = loan[l].status \/ (loan[l].status = "PENDING_SIGNATURES" /\ loan'[l].status = "ACTIVE")
          /\ loan'[l].request = loan[l].request /\ \A m \in Loans \ {l} : loan'[m] = loan[m]
        <3>1. CASE loan' = [loan EXCEPT ![l].document = k]
            BY <1>0, <3>1 DEF LoanRecord
        <3>2. CASE SetLoan(l, IF loan[l].status = "PENDING_SIGNATURES" THEN "ACTIVE" ELSE loan[l].status)
            BY <1>0, <3>2 DEF SetLoan, LoanRecord
        <3> QED
            BY <2>1, <3>1, <3>2
    <2> QED
        BY <2>2, <2>3, QuietFollow
<1>15. ASSUME NEW k \in Actas, LoanActaRejected(k) \/ ReturnActa(k) PROVE RequestsFollow'
    BY <1>6, <1>15 DEF LoanActaRejected, ReturnActa
<1> QED
    BY <1>1, <1>2, <1>3, <1>4, <1>8, <1>9, <1>10, <1>11, <1>12, <1>13, <1>14, <1>15 DEF LoanNext

\* AssetRequestsService: only generate gives a request its loan, and a request
\* that has one is past every other operation.
LEMMA RequestStepsFollow == ASSUME TypeOK, RequestsFollow, RequestNext PROVE RequestsFollow'
<1>0. request \in [Requests -> RequestRecord] /\ loan \in [Loans -> LoanRecord]
    BY DEF TypeOK
<1>1. ASSUME NEW r \in Requests, UNCHANGED loan, \A q \in Requests \ {r} : request'[q] = request[q], request'[r].loan = None
      PROVE  RequestsFollow'
    BY <1>1 DEF RequestsFollow, LoanOf
<1>2. ASSUME NEW r \in Requests, UNCHANGED loan, \A q \in Requests \ {r} : request'[q] = request[q], request'[r].loan = request[r].loan,
             request[r].status \notin {"LOAN_SCHEDULED", "DOCUMENT_GENERATED", "CLOSED_LOAN_REJECTED", "CLOSED_LOAN_CANCELLED"}
      PROVE  RequestsFollow'
    BY <1>1, <1>2 DEF RequestsFollow, LoanOf
<1>3. ASSUME NEW r \in Requests, NEW kind \in {"TEMPORARY", "PERMANENT"}, NEW requesting \in Centers, NEW owner \in Centers,
             RequestCreate(r, kind, requesting, owner)
      PROVE  RequestsFollow'
    <2>1. UNCHANGED loan /\ request'[r].loan = None /\ \A q \in Requests \ {r} : request'[q] = request[q]
        BY <1>0, <1>3 DEF RequestCreate, NoRequest, requestOthers
    <2> QED
        BY <1>1, <2>1
<1>4. ASSUME NEW r \in Requests, NEW kind \in {"TEMPORARY", "PERMANENT"}, NEW requesting \in Centers, NEW owner \in Centers,
             RequestCorrect(r, kind, requesting, owner)
      PROVE  RequestsFollow'
    <2>1. /\ UNCHANGED loan /\ request'[r].loan = request[r].loan /\ request[r].status = "RETURNED"
          /\ \A q \in Requests \ {r} : request'[q] = request[q]
        BY <1>0, <1>4 DEF RequestCorrect, RequestRecord, requestOthers
    <2> QED
        BY <1>2, <2>1
<1>5. ASSUME NEW r \in Requests, NEW S \in SUBSET Assets, RequestAccept(r, S) PROVE RequestsFollow'
    <2>1. /\ UNCHANGED loan /\ request'[r].loan = request[r].loan /\ request[r].status = "REQUESTED"
          /\ \A q \in Requests \ {r} : request'[q] = request[q]
        BY <1>0, <1>5 DEF RequestAccept, RequestRecord, requestOthers
    <2> QED
        BY <1>2, <2>1
<1>6. ASSUME NEW r \in Requests, RequestClose(r) \/ RequestCancel(r) \/ RequestExpire(r) \/ ReturnToRequester(r) PROVE RequestsFollow'
    <2>1. /\ UNCHANGED loan /\ request'[r].loan = request[r].loan /\ request[r].status \in {"REQUESTED", "ACCEPTED", "RETURNED"}
          /\ \A q \in Requests \ {r} : request'[q] = request[q]
        BY <1>0, <1>6 DEF RequestClose, RequestCancel, RequestExpire, ReturnToRequester, CloseRequest, RequestRecord, requestOthers
    <2> QED
        BY <1>2, <2>1
<1>7. ASSUME NEW r \in Requests, NEW t \in Transfers, NEW k \in Actas, RequestGenerateTransfer(r, t, k) PROVE RequestsFollow'
    <2>1. /\ UNCHANGED loan /\ request'[r].loan = request[r].loan /\ request[r].status = "ACCEPTED"
          /\ \A q \in Requests \ {r} : request'[q] = request[q]
        BY <1>0, <1>7 DEF RequestGenerateTransfer, Generable, RequestRecord
    <2> QED
        BY <1>2, <2>1
<1>8. ASSUME NEW r \in Requests, NEW l \in Loans, RequestGenerateLoan(r, l) PROVE RequestsFollow'
    <2>1. /\ loan[l].status = "NONE" /\ loan'[l].status = "APPROVED" /\ loan'[l].request = r
          /\ \A m \in Loans \ {l} : loan'[m] = loan[m]
        BY <1>0, <1>8 DEF RequestGenerateLoan, LoanCreation, NoLoan
    <2>2. /\ request'[r].loan = l /\ request'[r].status = "LOAN_SCHEDULED"
          /\ \A q \in Requests \ {r} : request'[q] = request[q]
        BY <1>0, <1>8 DEF RequestGenerateLoan, RequestRecord
    <2>3. \A q \in Requests : request[q].loan # l /\ request[q].loan \in Loans \cup {None}
        BY <1>0, <2>1, NoneAssumption DEF RequestsFollow, LoanOf, Processes, RequestRecord
    <2>4. \A q \in Requests \ {r} : LoanOf(q, request'[q], loan')
        BY <2>1, <2>2, <2>3 DEF RequestsFollow, LoanOf
    <2>5. LoanOf(r, request'[r], loan')
        BY <2>1, <2>2 DEF LoanOf
    <2> QED
        BY <2>4, <2>5 DEF RequestsFollow
<1> QED
    BY <1>3, <1>4, <1>5, <1>6, <1>7, <1>8 DEF RequestNext

LEMMA InitFollow == ASSUME Init PROVE RequestsFollow
BY DEF Init, NoRequest, RequestsFollow, LoanOf

LEMMA NextFollow == ASSUME TypeOK, RequestsFollow, [Next]_vars PROVE RequestsFollow'
<1>1. ASSUME UNCHANGED <<loan, request>> PROVE RequestsFollow'
    BY <1>1 DEF RequestsFollow
<1>2. CASE TransferNext
    BY <1>1, <1>2 DEF TransferNext, transferOthers, processVars, TransferUpdateItems, TransferCreate, TransferGenerate,
       TransferCancelChecks, TransferCancelVoids, TransferCancelFindsNoActa, TransferCancelLocks, TransferCancelRefused,
       TransferActaGenerated, TransferActaSigned, TransferActaRejected
<1>3. CASE WriteOffNext
    BY <1>1, <1>3 DEF WriteOffNext, writeOffOthers, processVars, WriteOffCreate, WriteOffUpdate, WriteOffGenerate,
       WriteOffCancelChecks, WriteOffCancelCloses, WriteOffActaGenerated, WriteOffActaSigned, WriteOffActaRejected
<1>4. CASE HandoverNext
    BY <1>1, <1>4 DEF HandoverNext, handoverOthers, HandoverCreate, HandoverCancel, HandoverActaGenerated, HandoverActaSigned,
       HandoverActaRejected
<1>5. CASE InventoryNext
    BY <1>1, <1>5 DEF InventoryNext, inventoryOthers, InventoryStart, InventorySaveStart, InventoryCancel, InventoryClose,
       InventorySaveClose, ReportUnexpected, InventorySaveReport, InventoryReport, RequestReconcile, ApproveReconcile, ApplyReconcile
<1>6. CASE EditNext \/ \E k \in Actas : FirstSignature(k)
    BY <1>1, <1>6 DEF EditNext, WriteOffAsset, ChangeStatus, ApplyEdit, EditRefused, FirstSignature, processVars
<1>7. CASE UNCHANGED vars
    BY <1>1, <1>7 DEF vars, processVars
<1> QED
    BY <1>2, <1>3, <1>4, <1>5, <1>6, <1>7, LoansFollow, RequestStepsFollow DEF Next

=============================================================================
