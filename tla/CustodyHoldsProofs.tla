------------------------- MODULE CustodyHoldsProofs -------------------------
(***************************************************************************)
(* What the processes of CustodySystem hold, for any number of assets,     *)
(* cost centers, persons and processes.  Most steps take no hold on an     *)
(* asset: what is held only shrinks.  The few that do have checked the     *)
(* holds of others first, and that is what the theorems at the end are     *)
(* about.                                                                  *)
(***************************************************************************)
EXTENDS CustodyProofs

-----------------------------------------------------------------------------
(* Steps that take nothing.                                                *)

LoansShrink ==
    \A l \in Loans :
        /\ loan'[l].items = loan[l].items /\ loan'[l].source = loan[l].source
        /\ loan[l].received \subseteq loan'[l].received
        /\ loan'[l].status \in OpenLoanStatus => loan[l].status \in OpenLoanStatus

TransfersShrink ==
    \A t \in Transfers :
        /\ transfer'[t].open \subseteq transfer[t].open /\ transfer'[t].source = transfer[t].source
        /\ transfer'[t].status # "NONE" => transfer'[t].target \in Centers

WriteOffsShrink == \A w \in WriteOffs : writeOff'[w].open \subseteq writeOff[w].open
HandoversShrink == \A h \in Handovers : handover'[h].open \subseteq handover[h].open

RequestsShrink ==
    \A r \in Requests :
        /\ request'[r].open \subseteq request[r].open
        /\ request'[r].status # "NONE" => request'[r].requesting \in Centers

HoldsShrink == LoansShrink /\ TransfersShrink /\ WriteOffsShrink /\ HandoversShrink /\ RequestsShrink

\* What a process holds that was checked and taken in the step: S, and
\* nothing else changes in the processes of its kind.
LoanTakes(l, S) ==
    /\ loan[l].status = "NONE"
    /\ LoanItems(S)
    /\ \A a \in S : loan'[l].source = assetCenter[a]
    /\ loan'[l].items = S
    /\ \A m \in Loans \ {l} : loan'[m] = loan[m]

TransferTakes(t, S) ==
    /\ TransferItems(S, transfer'[t].source, t)
    /\ transfer'[t].open = S
    /\ transfer'[t].target \in Centers
    /\ \A u \in Transfers \ {t} : transfer'[u] = transfer[u]

WriteOffTakes(w, S) ==
    /\ WriteOffItems(S, w)
    /\ writeOff'[w].open = S
    /\ \A v \in WriteOffs \ {w} : writeOff'[v] = writeOff[v]

HandoverTakes(h, S) ==
    /\ \A a \in S : ~HeldByWriteOff(a, None)
    /\ handover'[h].open = S
    /\ \A g \in Handovers \ {h} : handover'[g] = handover[g]

RequestTakes(r, S) ==
    /\ \A a \in S : ~HeldByWriteOff(a, None)
    /\ request'[r].open = S
    /\ request'[r].requesting \in Centers
    /\ \A q \in Requests \ {r} : request'[q] = request[q]

\* What a step does not change it does not hold more of.
LEMMA UnchangedShrinks ==
    ASSUME TypeOK, TargetsAreKnown
    PROVE  /\ loan' = loan => LoansShrink
           /\ transfer' = transfer => TransfersShrink
           /\ writeOff' = writeOff => WriteOffsShrink
           /\ handover' = handover => HandoversShrink
           /\ request' = request => RequestsShrink
BY DEF LoansShrink, TransfersShrink, WriteOffsShrink, HandoversShrink, RequestsShrink, TargetsAreKnown

\* Writing a status keeps the holds unless it opens a closed loan, and the
\* extension and the acta of a loan hold nothing.
LEMMA LoanFieldShrinks ==
    ASSUME TypeOK, NEW l \in Loans
    PROVE  /\ \A st : SetLoan(l, st) /\ (st \in OpenLoanStatus => loan[l].status \in OpenLoanStatus) => LoansShrink
           /\ \A ext : loan' = [loan EXCEPT ![l].extension = ext] => LoansShrink
           /\ \A k : loan' = [loan EXCEPT ![l].document = k] => LoansShrink
<1>1. loan \in [Loans -> LoanRecord] /\ \A m \in Loans : loan[m] \in LoanRecord
    BY DEF TypeOK
<1>2. ASSUME NEW st, SetLoan(l, st), st \in OpenLoanStatus => loan[l].status \in OpenLoanStatus PROVE LoansShrink
    BY <1>1, <1>2 DEF SetLoan, LoansShrink, LoanRecord
<1>3. ASSUME NEW ext, loan' = [loan EXCEPT ![l].extension = ext] PROVE LoansShrink
    BY <1>1, <1>3 DEF LoansShrink, LoanRecord
<1>4. ASSUME NEW k, loan' = [loan EXCEPT ![l].document = k] PROVE LoansShrink
    BY <1>1, <1>4 DEF LoansShrink, LoanRecord
<1> QED
    BY <1>2, <1>3, <1>4

\* The observer of the requests keeps who wants the assets, and at most
\* releases them.
LEMMA ObserverShrinks ==
    ASSUME TypeOK, TargetsAreKnown, NEW l \in Loans,
           OnLoanDelivered(l) \/ \E next \in RequestStatus \ {"NONE"} : CloseByLoan(l, next)
    PROVE  RequestsShrink
<1>0. /\ request \in [Requests -> RequestRecord] /\ \A r \in Requests : request[r] \in RequestRecord
      /\ loan[l].request \in Requests \cup {None}
    BY DEF TypeOK, LoanRecord
<1>1. CASE ~ RequestWaits(l)
    <2>1. request' = request
        BY <1>1 DEF OnLoanDelivered, CloseByLoan
    <2> QED
        BY <2>1, UnchangedShrinks
<1>2. CASE RequestWaits(l) /\ OnLoanDelivered(l)
    <2>1. loan[l].request \in Requests /\ request[loan[l].request].status # "NONE"
        BY <1>0, <1>2 DEF RequestWaits
    <2> QED
        BY <1>0, <1>2, <2>1 DEF OnLoanDelivered, RequestsShrink, TargetsAreKnown, RequestRecord
<1>3. ASSUME RequestWaits(l), NEW next \in RequestStatus \ {"NONE"}, CloseByLoan(l, next)
      PROVE  RequestsShrink
    <2>1. loan[l].request \in Requests /\ request[loan[l].request].status # "NONE"
        BY <1>0, <1>3 DEF RequestWaits
    <2> QED
        BY <1>0, <1>3, <2>1 DEF CloseByLoan, RequestsShrink, TargetsAreKnown, RequestRecord
<1> QED
    BY <1>1, <1>2, <1>3

\* LoansService: after its creation a loan only gives assets back.
LEMMA LoanSteps ==
    ASSUME TypeOK, TargetsAreKnown, LoanNext
    PROVE  /\ \/ \E l \in Loans, S \in SUBSET Assets : LoanCreate(l, S)
              \/ LoansShrink
           /\ RequestsShrink
           /\ UNCHANGED <<assetCenter, transfer, writeOff, handover>>
<1>0. /\ loan \in [Loans -> LoanRecord] /\ request \in [Requests -> RequestRecord]
      /\ \A l \in Loans : loan[l] \in LoanRecord
    BY DEF TypeOK
<1>1. ASSUME NEW l \in Loans, NEW S \in SUBSET Assets, LoanCreate(l, S)
      PROVE  RequestsShrink /\ UNCHANGED <<assetCenter, transfer, writeOff, handover>>
    BY <1>1, UnchangedShrinks DEF LoanCreate, assetVars, loanOthers
<1>2. ASSUME NEW l \in Loans, LoanApprove(l) \/ MarkOverdue(l)
      PROVE  LoansShrink /\ RequestsShrink /\ UNCHANGED <<assetCenter, transfer, writeOff, handover>>
    <2>1. LoansShrink
        <3>1. \E st : SetLoan(l, st) /\ loan[l].status \in OpenLoanStatus
            BY <1>2 DEF LoanApprove, MarkOverdue, OpenLoanStatus
        <3> QED
            BY <3>1, LoanFieldShrinks
    <2> QED
        BY <1>2, <2>1, UnchangedShrinks DEF LoanApprove, MarkOverdue, assetVars, loanOthers
<1>3. ASSUME NEW l \in Loans, LoanReject(l) \/ LoanCancel(l)
      PROVE  LoansShrink /\ RequestsShrink /\ UNCHANGED <<assetCenter, transfer, writeOff, handover>>
    <2>1. LoansShrink
        <3>1. \E st : SetLoan(l, st) /\ loan[l].status \in OpenLoanStatus
            BY <1>3 DEF LoanReject, LoanCancel, OpenLoanStatus
        <3> QED
            BY <3>1, LoanFieldShrinks
    <2>2. {"CLOSED_LOAN_REJECTED", "CLOSED_LOAN_CANCELLED"} \subseteq RequestStatus \ {"NONE"}
        BY DEF RequestStatus
    <2>3. \E next \in RequestStatus \ {"NONE"} : CloseByLoan(l, next)
        BY <1>3, <2>2 DEF LoanReject, LoanCancel
    <2> QED
        BY <1>3, <2>1, <2>3, ObserverShrinks DEF LoanReject, LoanCancel, assetVars, loanOthers
<1>4. ASSUME NEW l \in Loans, NEW k \in Actas, LoanDeliver(l, k)
      PROVE  LoansShrink /\ RequestsShrink /\ UNCHANGED <<assetCenter, transfer, writeOff, handover>>
    <2>1. LoansShrink
        BY <1>0, <1>4 DEF LoanDeliver, LoansShrink, LoanRecord, OpenLoanStatus
    <2> QED
        BY <1>4, <2>1, ObserverShrinks DEF LoanDeliver, loanOthers
<1>5. ASSUME NEW l \in Loans, UndoDelivery(l) \/ UndoFindsNoActa(l) \/ UndoLocksLoan(l)
      PROVE  LoansShrink /\ RequestsShrink /\ UNCHANGED <<assetCenter, transfer, writeOff, handover>>
    <2>1. UndoDeliveryEffect(l) => LoansShrink
        <3>1. UndoDeliveryEffect(l) => SetLoan(l, "CANCELLED") /\ loan[l].status \in OpenLoanStatus
            BY DEF UndoDeliveryEffect, OpenLoanStatus
        <3> QED
            BY <3>1, LoanFieldShrinks
    <2>2. loan' = loan => LoansShrink
        BY UnchangedShrinks
    <2>3. LoansShrink
        BY <1>5, <2>1, <2>2 DEF UndoDelivery, UndoFindsNoActa, UndoLocksLoan, processVars
    <2> QED
        BY <1>5, <2>3, UnchangedShrinks DEF UndoDelivery, UndoFindsNoActa, UndoLocksLoan, assetVars, processVars, loanOthers
<1>6. ASSUME NEW l \in Loans, NEW S \in SUBSET loan[l].items, NEW condition \in [S -> {"GOOD", "LOST"}],
             StartReturn(l, S, condition)
      PROVE  LoansShrink /\ RequestsShrink /\ UNCHANGED <<assetCenter, transfer, writeOff, handover>>
    <2>1. LoansShrink
        BY <1>0, <1>6 DEF StartReturn, LoansShrink, LoanRecord, OpenLoanStatus
    <2> QED
        BY <1>6, <2>1, UnchangedShrinks DEF StartReturn, assetVars, loanOthers
<1>7. ASSUME NEW l \in Loans, ReceiveReturn(l)
      PROVE  LoansShrink /\ RequestsShrink /\ UNCHANGED <<assetCenter, transfer, writeOff, handover>>
    <2>1. LoansShrink
        BY <1>0, <1>7 DEF ReceiveReturn, LoansShrink, LoanRecord, OpenLoanStatus
    <2> QED
        BY <1>7, <2>1, UnchangedShrinks DEF ReceiveReturn, loanOthers
<1>8. ASSUME NEW l \in Loans, RequestExtension(l) \/ ApproveExtension(l) \/ RejectExtension(l)
      PROVE  LoansShrink /\ RequestsShrink /\ UNCHANGED <<assetCenter, transfer, writeOff, handover>>
    <2>1. RequestExtension(l) \/ RejectExtension(l) => LoansShrink
        <3>1. RequestExtension(l) \/ RejectExtension(l) => \E ext : loan' = [loan EXCEPT ![l].extension = ext]
            BY DEF RequestExtension, RejectExtension
        <3> QED
            BY <3>1, LoanFieldShrinks
    <2>2. ApproveExtension(l) => LoansShrink
        <3> SUFFICES ASSUME ApproveExtension(l) PROVE LoansShrink
            OBVIOUS
        <3>1. PICK st : loan' = [loan EXCEPT ![l].extension = FALSE, ![l].status = st]
            BY DEF ApproveExtension
        <3>2. loan[l].status \in OpenLoanStatus
            BY DEF ApproveExtension, OpenLoanStatus
        <3> QED
            BY <1>0, <3>1, <3>2 DEF LoansShrink, LoanRecord
    <2> QED
        BY <1>8, <2>1, <2>2, UnchangedShrinks DEF RequestExtension, ApproveExtension, RejectExtension, assetVars, loanOthers
<1>9. ASSUME NEW k \in Actas, LoanActaGenerated(k) \/ LoanActaSigned(k)
      PROVE  LoansShrink /\ RequestsShrink /\ UNCHANGED <<assetCenter, transfer, writeOff, handover>>
    <2>1. LoanActaGenerated(k) => LoansShrink
        <3>1. LoanActaGenerated(k) => \E l \in Loans : loan' = [loan EXCEPT ![l].document = k]
            BY DEF LoanActaGenerated
        <3> QED
            BY <3>1, LoanFieldShrinks
    <2>2. LoanActaSigned(k) => LoansShrink
        <3>1. LoanActaSigned(k) => \E l \in Loans : \E st : SetLoan(l, st) /\ (st \in OpenLoanStatus => loan[l].status \in OpenLoanStatus)
            BY DEF LoanActaSigned, OpenLoanStatus
        <3> QED
            BY <3>1, LoanFieldShrinks
    <2> QED
        BY <1>9, <2>1, <2>2, UnchangedShrinks DEF LoanActaGenerated, LoanActaSigned, assetVars, loanOthers
<1>10. ASSUME NEW l \in Loans, NEW k \in Actas,
              RegenerateDeliveryAct(l, k)
       PROVE  LoansShrink /\ RequestsShrink /\ UNCHANGED <<assetCenter, transfer, writeOff, handover>>
    BY <1>10, UnchangedShrinks DEF RegenerateDeliveryAct, assetVars, loanOthers
<1>11. ASSUME NEW k \in Actas, LoanActaRejected(k) \/ ReturnActa(k)
       PROVE  LoansShrink /\ RequestsShrink /\ UNCHANGED <<assetCenter, transfer, writeOff, handover>>
    BY <1>11, UnchangedShrinks DEF LoanActaRejected, ReturnActa, assetVars, loanOthers
<1> QED
    BY <1>1, <1>2, <1>3, <1>4, <1>5, <1>6, <1>7, <1>8, <1>9, <1>10, <1>11 DEF LoanNext

-----------------------------------------------------------------------------
(* Steps that take something.                                              *)

\* createWithin: what a new loan holds was checked in the same transaction.
LEMMA LoanCreationTakes ==
    ASSUME TypeOK, NEW l \in Loans, NEW S \in SUBSET Assets, NEW r \in Requests \cup {None},
           NEW st \in LoanStatus, LoanCreation(l, S, r, st)
    PROVE  LoanTakes(l, S)
<1>1. loan \in [Loans -> LoanRecord]
    BY DEF TypeOK
<1>2. PICK c \in Centers :
         /\ \A a \in S : assetCenter[a] = c
         /\ loan' = [loan EXCEPT ![l] = [NoLoan EXCEPT !.status = st, !.items = S, !.source = c,
                        !.back = [a \in Assets |-> IF a \in S THEN assetStatus[a] ELSE "IN_USE"], !.request = r]]
    BY DEF LoanCreation
<1>3. loan'[l].source = c /\ loan'[l].items = S /\ \A m \in Loans \ {l} : loan'[m] = loan[m]
    BY <1>1, <1>2 DEF NoLoan
<1>4. loan[l].status = "NONE" /\ LoanItems(S)
    BY DEF LoanCreation
<1> QED
    BY <1>2, <1>3, <1>4 DEF LoanTakes

\* createWithin of a transfer: its items were checked against its source.
LEMMA TransferCreationTakes ==
    ASSUME TypeOK, NEW t \in Transfers, NEW S \in SUBSET Assets, NEW target \in Centers,
           NEW st \in ActStatus, TransferCreation(t, S, target, st)
    PROVE  TransferTakes(t, S)
<1>1. transfer \in [Transfers -> TransferRecord]
    BY DEF TypeOK
<1>2. PICK c \in Centers :
         /\ TransferItems(S, c, t)
         /\ transfer' = [transfer EXCEPT ![t] = [NoTransfer EXCEPT !.status = st, !.items = S, !.open = S,
                                                   !.source = c, !.target = target]]
    BY DEF TransferCreation
<1>3. /\ transfer'[t].open = S /\ transfer'[t].source = c /\ transfer'[t].target = target
      /\ \A u \in Transfers \ {t} : transfer'[u] = transfer[u]
    BY <1>1, <1>2 DEF NoTransfer
<1> QED
    BY <1>2, <1>3 DEF TransferTakes

\* TransfersService: a step checks what it takes, or takes nothing, and only
\* a signed acta moves assets.
LEMMA TransferSteps ==
    ASSUME TypeOK, TargetsAreKnown, TransferNext
    PROVE  /\ TransfersShrink \/ \E t \in Transfers, S \in SUBSET Assets : TransferTakes(t, S) /\ UNCHANGED assetCenter
           /\ UNCHANGED assetCenter \/ \E k \in Actas : TransferActaSigned(k)
           /\ UNCHANGED <<loan, writeOff, handover, request>>
<1>0. transfer \in [Transfers -> TransferRecord] /\ \A t \in Transfers : transfer[t] \in TransferRecord
    BY DEF TypeOK
<1>1. ASSUME NEW t \in Transfers, NEW S \in SUBSET Assets, NEW c \in Centers, TransferCreate(t, S, c)
      PROVE  TransferTakes(t, S) /\ UNCHANGED <<assetCenter, loan, writeOff, handover, request>>
    <2>1. "DRAFT" \in ActStatus /\ TransferCreation(t, S, c, "DRAFT")
        BY <1>1 DEF ActStatus, TransferCreate
    <2> QED
        BY <1>1, <2>1, TransferCreationTakes DEF TransferCreate, assetVars, transferOthers
<1>2. ASSUME NEW t \in Transfers, NEW S \in SUBSET Assets, TransferUpdateItems(t, S)
      PROVE  TransferTakes(t, S) /\ UNCHANGED <<assetCenter, loan, writeOff, handover, request>>
    <2>1. /\ transfer'[t].open = S /\ transfer'[t].source = transfer[t].source
          /\ transfer'[t].target = transfer[t].target
          /\ \A u \in Transfers \ {t} : transfer'[u] = transfer[u]
        BY <1>0, <1>2 DEF TransferUpdateItems, TransferRecord
    <2>2. transfer[t].target \in Centers /\ TransferItems(S, transfer[t].source, t)
        BY <1>2 DEF TransferUpdateItems, TargetsAreKnown
    <2> QED
        BY <1>2, <2>1, <2>2 DEF TransferTakes, TransferUpdateItems, assetVars, transferOthers
<1>3. ASSUME NEW t \in Transfers, NEW st, CloseTransfer(t, st), transfer[t].status # "NONE"
      PROVE  TransfersShrink
    BY <1>0, <1>3 DEF CloseTransfer, TransfersShrink, TransferRecord, TargetsAreKnown
<1>4. ASSUME NEW t \in Transfers, NEW k \in Actas, TransferGenerate(t, k)
      PROVE  TransfersShrink /\ UNCHANGED <<assetCenter, loan, writeOff, handover, request>>
    <2>1. TransfersShrink
        BY <1>0, <1>4 DEF TransferGenerate, TransfersShrink, TransferRecord, TargetsAreKnown
    <2> QED
        BY <1>4, <2>1 DEF TransferGenerate, assetVars, transferOthers
<1>5. ASSUME NEW t \in Transfers, TransferCancelVoids(t) \/ TransferCancelLocks(t)
      PROVE  TransfersShrink /\ UNCHANGED <<assetCenter, loan, writeOff, handover, request>>
    <2>1. CloseTransfer(t, "CANCELLED") /\ transfer[t].status # "NONE"
        BY <1>5 DEF TransferCancelVoids, TransferCancelLocks, TransferCancellable
    <2> QED
        BY <1>3, <1>5, <2>1 DEF TransferCancelVoids, TransferCancelLocks, assetVars, transferOthers
<1>6. ASSUME NEW t \in Transfers,
             TransferCancelChecks(t) \/ TransferCancelFindsNoActa(t) \/ TransferCancelRefused(t)
      PROVE  TransfersShrink /\ UNCHANGED <<assetCenter, loan, writeOff, handover, request>>
    BY <1>6, UnchangedShrinks DEF TransferCancelChecks, TransferCancelFindsNoActa, TransferCancelRefused, assetVars, processVars
<1>7. ASSUME NEW k \in Actas, TransferActaGenerated(k)
      PROVE  TransfersShrink /\ UNCHANGED <<assetCenter, loan, writeOff, handover, request>>
    <2>1. PICK t \in Transfers : transfer[t].status = "PENDING_SIGNATURES" /\ transfer' = [transfer EXCEPT ![t].document = k]
        BY <1>7 DEF TransferActaGenerated
    <2>2. TransfersShrink
        BY <1>0, <2>1 DEF TransfersShrink, TransferRecord, TargetsAreKnown
    <2> QED
        BY <1>7, <2>2 DEF TransferActaGenerated, assetVars, transferOthers
<1>8. ASSUME NEW k \in Actas, TransferActaSigned(k)
      PROVE  TransfersShrink /\ UNCHANGED <<loan, writeOff, handover, request>>
    <2>1. PICK t \in Transfers : transfer[t].status = "PENDING_SIGNATURES" /\ CloseTransfer(t, "COMPLETED")
        BY <1>8 DEF TransferActaSigned
    <2> QED
        BY <1>3, <1>8, <2>1 DEF TransferActaSigned, transferOthers
<1>9. ASSUME NEW k \in Actas, TransferActaRejected(k)
      PROVE  TransfersShrink /\ UNCHANGED <<assetCenter, loan, writeOff, handover, request>>
    <2>1. PICK t \in Transfers : transfer[t].status = "PENDING_SIGNATURES" /\ CloseTransfer(t, "REJECTED")
        BY <1>9 DEF TransferActaRejected
    <2> QED
        BY <1>3, <1>9, <2>1 DEF TransferActaRejected, assetVars, transferOthers
<1> QED
    BY <1>1, <1>2, <1>4, <1>5, <1>6, <1>7, <1>8, <1>9 DEF TransferNext

\* WriteOffsService: what it takes nobody else holds.
LEMMA WriteOffSteps ==
    ASSUME TypeOK, TargetsAreKnown, WriteOffNext
    PROVE  /\ WriteOffsShrink \/ \E w \in WriteOffs, S \in SUBSET Assets : WriteOffTakes(w, S)
           /\ UNCHANGED <<assetCenter, loan, transfer, handover, request>>
<1>0. writeOff \in [WriteOffs -> WriteOffRecord] /\ \A w \in WriteOffs : writeOff[w] \in WriteOffRecord
    BY DEF TypeOK
<1>1. ASSUME NEW w \in WriteOffs, NEW S \in SUBSET Assets, WriteOffCreate(w, S) \/ WriteOffUpdate(w, S)
      PROVE  WriteOffTakes(w, S) /\ UNCHANGED <<assetCenter, loan, transfer, handover, request>>
    <2>1. WriteOffCreate(w, S) => WriteOffTakes(w, S)
        BY <1>0 DEF WriteOffCreate, WriteOffTakes, NoWriteOff
    <2>2. WriteOffUpdate(w, S) => WriteOffTakes(w, S)
        BY <1>0 DEF WriteOffUpdate, WriteOffTakes, WriteOffRecord
    <2> QED
        BY <1>1, <2>1, <2>2 DEF WriteOffCreate, WriteOffUpdate, assetVars, writeOffOthers
<1>2. ASSUME NEW w \in WriteOffs, NEW st, CloseWriteOff(w, st)
      PROVE  WriteOffsShrink
    BY <1>0, <1>2 DEF CloseWriteOff, WriteOffsShrink, WriteOffRecord
<1>3. ASSUME NEW w \in WriteOffs, NEW k \in Actas, WriteOffGenerate(w, k)
      PROVE  WriteOffsShrink /\ UNCHANGED <<assetCenter, loan, transfer, handover, request>>
    <2>1. WriteOffsShrink
        BY <1>0, <1>3 DEF WriteOffGenerate, WriteOffsShrink, WriteOffRecord
    <2> QED
        BY <1>3, <2>1 DEF WriteOffGenerate, assetVars, writeOffOthers
<1>4. ASSUME NEW w \in WriteOffs, WriteOffCancelChecks(w) \/ WriteOffCancelCloses(w)
      PROVE  WriteOffsShrink /\ UNCHANGED <<assetCenter, loan, transfer, handover, request>>
    <2>1. WriteOffsShrink
        BY <1>2, <1>4, UnchangedShrinks DEF WriteOffCancelChecks, WriteOffCancelCloses, processVars
    <2> QED
        BY <1>4, <2>1 DEF WriteOffCancelChecks, WriteOffCancelCloses, assetVars, processVars, writeOffOthers
<1>5. ASSUME NEW k \in Actas, WriteOffActaGenerated(k)
      PROVE  WriteOffsShrink /\ UNCHANGED <<assetCenter, loan, transfer, handover, request>>
    <2>1. \E w \in WriteOffs : writeOff' = [writeOff EXCEPT ![w].document = k]
        BY <1>5 DEF WriteOffActaGenerated
    <2>2. WriteOffsShrink
        BY <1>0, <2>1 DEF WriteOffsShrink, WriteOffRecord
    <2> QED
        BY <1>5, <2>2 DEF WriteOffActaGenerated, assetVars, writeOffOthers
<1>6. ASSUME NEW k \in Actas, WriteOffActaSigned(k) \/ WriteOffActaRejected(k)
      PROVE  WriteOffsShrink /\ UNCHANGED <<assetCenter, loan, transfer, handover, request>>
    BY <1>2, <1>6 DEF WriteOffActaSigned, WriteOffActaRejected, assetVars, writeOffOthers
<1> QED
    BY <1>1, <1>3, <1>4, <1>5, <1>6 DEF WriteOffNext

\* HandoversService: what it takes is in no open write-off.
LEMMA HandoverSteps ==
    ASSUME TypeOK, TargetsAreKnown, HandoverNext
    PROVE  /\ HandoversShrink \/ \E h \in Handovers, S \in SUBSET Assets : HandoverTakes(h, S)
           /\ UNCHANGED <<assetCenter, loan, transfer, writeOff, request>>
<1>0. handover \in [Handovers -> HandoverRecord] /\ \A h \in Handovers : handover[h] \in HandoverRecord
    BY DEF TypeOK
<1>1. ASSUME NEW h \in Handovers, NEW S \in SUBSET Assets, NEW c \in Centers, NEW k \in Actas,
             HandoverCreate(h, S, c, k)
      PROVE  HandoverTakes(h, S) /\ UNCHANGED <<assetCenter, loan, transfer, writeOff, request>>
    <2>1. handover'[h].open = S /\ \A g \in Handovers \ {h} : handover'[g] = handover[g]
        BY <1>0, <1>1 DEF HandoverCreate, NoHandover
    <2> QED
        BY <1>1, <2>1 DEF HandoverCreate, HandoverItems, HandoverTakes, assetVars, handoverOthers
<1>2. ASSUME NEW h \in Handovers, NEW st, CloseHandover(h, st)
      PROVE  HandoversShrink
    BY <1>0, <1>2 DEF CloseHandover, HandoversShrink, HandoverRecord
<1>3. ASSUME NEW k \in Actas, HandoverActaGenerated(k)
      PROVE  HandoversShrink /\ UNCHANGED <<assetCenter, loan, transfer, writeOff, request>>
    <2>1. \E h \in Handovers :
             handover' = [handover EXCEPT ![h].document = k, ![h].status = "PENDING_SIGNATURE"]
        BY <1>3 DEF HandoverActaGenerated
    <2>2. HandoversShrink
        BY <1>0, <2>1 DEF HandoversShrink, HandoverRecord
    <2> QED
        BY <1>3, <2>2 DEF HandoverActaGenerated, assetVars, handoverOthers
<1>4. ASSUME NEW k \in Actas, HandoverActaSigned(k) \/ HandoverActaRejected(k)
      PROVE  HandoversShrink /\ UNCHANGED <<assetCenter, loan, transfer, writeOff, request>>
    BY <1>2, <1>4 DEF HandoverActaSigned, HandoverActaRejected, assetVars, handoverOthers
<1>5. ASSUME NEW h \in Handovers, HandoverCancel(h)
      PROVE  HandoversShrink /\ UNCHANGED <<assetCenter, loan, transfer, writeOff, request>>
    BY <1>2, <1>5 DEF HandoverCancel, assetVars, handoverOthers
<1> QED
    BY <1>1, <1>3, <1>4, <1>5 DEF HandoverNext

\* AssetRequestsService: a loan or a transfer generated from a request takes
\* what the request gives up.
LEMMA RequestSteps ==
    ASSUME TypeOK, TargetsAreKnown, RequestNext
    PROVE  /\ \/ RequestsShrink
              \/ \E r \in Requests, S \in SUBSET Assets : RequestTakes(r, S) /\ UNCHANGED <<loan, transfer>>
           /\ UNCHANGED loan \/ \E l \in Loans, S \in SUBSET Assets : LoanTakes(l, S) /\ UNCHANGED transfer
           /\ UNCHANGED transfer \/ \E t \in Transfers, S \in SUBSET Assets : TransferTakes(t, S) /\ UNCHANGED loan
           /\ UNCHANGED <<assetCenter, writeOff, handover>>
<1>0. request \in [Requests -> RequestRecord] /\ \A r \in Requests : request[r] \in RequestRecord
    BY DEF TypeOK
<1>1. ASSUME NEW r \in Requests, NEW S \in SUBSET Assets, RequestAccept(r, S)
      PROVE  RequestTakes(r, S) /\ UNCHANGED <<assetCenter, loan, transfer, writeOff, handover>>
    <2>1. /\ request'[r].open = S /\ request'[r].requesting = request[r].requesting
          /\ \A q \in Requests \ {r} : request'[q] = request[q]
        BY <1>0, <1>1 DEF RequestAccept, RequestRecord
    <2>2. request[r].requesting \in Centers
        BY <1>1 DEF RequestAccept, TargetsAreKnown
    <2>3. \A a \in S : ~HeldByWriteOff(a, None)
        BY <1>1 DEF RequestAccept, Eligible
    <2> QED
        BY <1>1, <2>1, <2>2, <2>3 DEF RequestAccept, RequestTakes, assetVars, requestOthers
<1>2. ASSUME NEW r \in Requests, NEW st, CloseRequest(r, st), request[r].status # "NONE"
      PROVE  RequestsShrink
    BY <1>0, <1>2 DEF CloseRequest, RequestsShrink, RequestRecord, TargetsAreKnown
<1>3. ASSUME NEW r \in Requests, NEW kind \in {"TEMPORARY", "PERMANENT"}, NEW requesting \in Centers, NEW owner \in Centers,
             RequestCreate(r, kind, requesting, owner) \/ RequestCorrect(r, kind, requesting, owner)
      PROVE  RequestsShrink /\ UNCHANGED <<assetCenter, loan, transfer, writeOff, handover>>
    <2>1. /\ request'[r].open \subseteq request[r].open /\ request'[r].requesting \in Centers
          /\ \A q \in Requests \ {r} : request'[q] = request[q]
        <3>1. CASE RequestCreate(r, kind, requesting, owner)
            BY <1>0, <3>1 DEF RequestCreate, NoRequest
        <3>2. CASE RequestCorrect(r, kind, requesting, owner)
            <4> DEFINE st == IF SameTerms(r, kind, requesting, owner) THEN "ACCEPTED" ELSE "REQUESTED"
                       kept == IF SameTerms(r, kind, requesting, owner) THEN request[r].open ELSE {}
            <4>1. request' = [request EXCEPT ![r] = [request[r] EXCEPT !.kind = kind, !.requesting = requesting,
                                                       !.owner = owner, !.status = st, !.open = kept]]
                BY <3>2 DEF RequestCorrect
            <4>2. kept \subseteq request[r].open
                OBVIOUS
            <4> HIDE DEF st, kept
            <4> QED
                BY <1>0, <4>1, <4>2 DEF RequestRecord
        <3> QED
            BY <1>3, <3>1, <3>2
    <2>2. RequestsShrink
        BY <2>1 DEF RequestsShrink, TargetsAreKnown
    <2> QED
        BY <1>3, <2>2 DEF RequestCreate, RequestCorrect, assetVars, requestOthers
<1>4. ASSUME NEW r \in Requests, RequestClose(r) \/ RequestCancel(r) \/ RequestExpire(r)
      PROVE  RequestsShrink /\ UNCHANGED <<assetCenter, loan, transfer, writeOff, handover>>
    <2>1. request[r].status # "NONE" /\ \E st : CloseRequest(r, st)
        BY <1>4 DEF RequestClose, RequestCancel, RequestExpire
    <2> QED
        BY <1>2, <1>4, <2>1 DEF RequestClose, RequestCancel, RequestExpire, assetVars, requestOthers
<1>5. ASSUME NEW r \in Requests, ReturnToRequester(r)
      PROVE  RequestsShrink /\ UNCHANGED <<assetCenter, loan, transfer, writeOff, handover>>
    <2>1. RequestsShrink
        BY <1>0, <1>5 DEF ReturnToRequester, RequestsShrink, RequestRecord, TargetsAreKnown
    <2> QED
        BY <1>5, <2>1 DEF ReturnToRequester, assetVars, requestOthers
<1>6. ASSUME NEW r \in Requests, NEW l \in Loans, RequestGenerateLoan(r, l)
      PROVE  /\ RequestsShrink /\ \E S \in SUBSET Assets : LoanTakes(l, S)
             /\ UNCHANGED <<assetCenter, transfer, writeOff, handover>>
    <2>1. request[r].open \in SUBSET Assets /\ "APPROVED" \in LoanStatus
        BY <1>0 DEF RequestRecord, LoanStatus
    <2>2. LoanTakes(l, request[r].open)
        BY <1>6, <2>1, LoanCreationTakes DEF RequestGenerateLoan
    <2>3. RequestsShrink
        BY <1>0, <1>6 DEF RequestGenerateLoan, Generable, RequestsShrink, RequestRecord, TargetsAreKnown
    <2> QED
        BY <1>6, <2>1, <2>2, <2>3 DEF RequestGenerateLoan, assetVars
<1>7. ASSUME NEW r \in Requests, NEW t \in Transfers, NEW k \in Actas, RequestGenerateTransfer(r, t, k)
      PROVE  /\ RequestsShrink /\ \E S \in SUBSET Assets : TransferTakes(t, S)
             /\ UNCHANGED <<assetCenter, loan, writeOff, handover>>
    <2>1. request[r].open \in SUBSET Assets /\ "PENDING_SIGNATURES" \in ActStatus
        BY <1>0 DEF RequestRecord, ActStatus
    <2>2. request[r].requesting \in Centers
        BY <1>7 DEF RequestGenerateTransfer, Generable, TargetsAreKnown
    <2>3. TransferTakes(t, request[r].open)
        BY <1>7, <2>1, <2>2, TransferCreationTakes DEF RequestGenerateTransfer
    <2>4. RequestsShrink
        BY <1>0, <1>7 DEF RequestGenerateTransfer, Generable, RequestsShrink, RequestRecord, TargetsAreKnown
    <2> QED
        BY <1>7, <2>1, <2>3, <2>4 DEF RequestGenerateTransfer, assetVars
<1> QED
    BY <1>1, <1>3, <1>4, <1>5, <1>6, <1>7 DEF RequestNext

\* Inventories, direct edits and signatures take nothing.
LEMMA OtherSteps ==
    ASSUME TypeOK, TargetsAreKnown,
           InventoryNext \/ EditNext \/ (\E k \in Actas : FirstSignature(k)) \/ UNCHANGED vars
    PROVE  UNCHANGED <<assetCenter, loan, transfer, writeOff, handover, request>>
<1>1. CASE InventoryNext
    BY <1>1 DEF InventoryNext, InventoryStart, InventorySaveStart, InventoryCancel, InventoryReport, ReportUnexpected,
          InventorySaveReport, InventoryClose, InventorySaveClose, RequestReconcile, ApproveReconcile, ApplyReconcile,
          assetVars, inventoryOthers
<1>2. CASE EditNext
    BY <1>2 DEF EditNext, ChangeStatus, WriteOffAsset, ApplyEdit, EditRefused, assetVars, processVars
<1> QED
    BY <1>1, <1>2 DEF FirstSignature, vars, assetVars, processVars

\* Every step: the holds of each kind of process shrink, or one process takes
\* what it has checked and the holds of the other kinds shrink; and assets
\* move only when the acta of a transfer is signed.
LEMMA Steps ==
    ASSUME TypeOK, TargetsAreKnown, [Next]_vars
    PROVE  /\ \/ HoldsShrink
              \/ \E l \in Loans, S \in SUBSET Assets :
                   LoanTakes(l, S) /\ TransfersShrink /\ WriteOffsShrink /\ HandoversShrink /\ RequestsShrink
              \/ \E t \in Transfers, S \in SUBSET Assets :
                   TransferTakes(t, S) /\ LoansShrink /\ WriteOffsShrink /\ HandoversShrink /\ RequestsShrink
              \/ \E w \in WriteOffs, S \in SUBSET Assets :
                   WriteOffTakes(w, S) /\ LoansShrink /\ TransfersShrink /\ HandoversShrink /\ RequestsShrink
              \/ \E h \in Handovers, S \in SUBSET Assets :
                   HandoverTakes(h, S) /\ LoansShrink /\ TransfersShrink /\ WriteOffsShrink /\ RequestsShrink
              \/ \E r \in Requests, S \in SUBSET Assets :
                   RequestTakes(r, S) /\ LoansShrink /\ TransfersShrink /\ WriteOffsShrink /\ HandoversShrink
           /\ UNCHANGED assetCenter \/ (HoldsShrink /\ \E k \in Actas : TransferActaSigned(k))
<1>1. CASE LoanNext
    <2>1. ASSUME NEW l \in Loans, NEW S \in SUBSET Assets, LoanCreate(l, S) PROVE LoanTakes(l, S)
        <3>1. "REQUESTED" \in LoanStatus /\ LoanCreation(l, S, None, "REQUESTED")
            BY <2>1 DEF LoanStatus, LoanCreate
        <3> QED
            BY <3>1, LoanCreationTakes
    <2> QED
        BY <1>1, <2>1, LoanSteps, UnchangedShrinks DEF HoldsShrink
<1>2. CASE TransferNext
    <2>1. LoansShrink /\ WriteOffsShrink /\ HandoversShrink /\ RequestsShrink
        BY <1>2, TransferSteps, UnchangedShrinks
    <2>2. ASSUME NEW k \in Actas, TransferActaSigned(k) PROVE TransfersShrink
        <3>0. transfer \in [Transfers -> TransferRecord]
            BY DEF TypeOK
        <3>1. PICK t \in Transfers : transfer[t].status = "PENDING_SIGNATURES" /\ CloseTransfer(t, "COMPLETED")
            BY <2>2 DEF TransferActaSigned
        <3> QED
            BY <3>0, <3>1 DEF CloseTransfer, TransfersShrink, TransferRecord, TargetsAreKnown
    <2> QED
        BY <1>2, <2>1, <2>2, TransferSteps DEF HoldsShrink
<1>3. CASE WriteOffNext
    BY <1>3, WriteOffSteps, UnchangedShrinks DEF HoldsShrink
<1>4. CASE HandoverNext
    BY <1>4, HandoverSteps, UnchangedShrinks DEF HoldsShrink
<1>5. CASE RequestNext
    BY <1>5, RequestSteps, UnchangedShrinks DEF HoldsShrink
<1>6. CASE InventoryNext \/ EditNext \/ (\E k \in Actas : FirstSignature(k)) \/ UNCHANGED vars
    BY <1>6, OtherSteps, UnchangedShrinks DEF HoldsShrink
<1> QED
    BY <1>1, <1>2, <1>3, <1>4, <1>5, <1>6 DEF Next

-----------------------------------------------------------------------------
(* The theorems.                                                           *)

\* Whatever the interleaving, the state has its types, a transfer has a
\* target and a request somebody who wants the assets.
LEMMA TypesAndTargets == Spec => [](TypeOK /\ TargetsAreKnown)
<1>1. Init => TypeOK /\ TargetsAreKnown
    BY InitType DEF Init, TargetsAreKnown, NoTransfer, NoRequest
<1>2. ASSUME TypeOK, TargetsAreKnown, [Next]_vars PROVE TypeOK' /\ TargetsAreKnown'
    <2>1. TransfersShrink \/ (\E t \in Transfers, S \in SUBSET Assets : TransferTakes(t, S))
          => \A t \in Transfers : transfer'[t].status # "NONE" => transfer'[t].target \in Centers
        BY <1>2 DEF TransfersShrink, TransferTakes, TargetsAreKnown
    <2>2. RequestsShrink \/ (\E r \in Requests, S \in SUBSET Assets : RequestTakes(r, S))
          => \A r \in Requests : request'[r].status # "NONE" => request'[r].requesting \in Centers
        BY <1>2 DEF RequestsShrink, RequestTakes, TargetsAreKnown
    <2>3. /\ TransfersShrink \/ \E t \in Transfers, S \in SUBSET Assets : TransferTakes(t, S)
          /\ RequestsShrink \/ \E r \in Requests, S \in SUBSET Assets : RequestTakes(r, S)
        BY <1>2, Steps DEF HoldsShrink
    <2>4. TargetsAreKnown'
        BY <2>1, <2>2, <2>3 DEF TargetsAreKnown
    <2> QED
        BY <1>2, <2>4, NextType
<1> QED
    BY <1>1, <1>2, PTL DEF Spec

\* Every variable of the custody of assets keeps its type.
THEOREM CustodyTypeCorrect == Spec => []TypeOK
BY TypesAndTargets, PTL

\* LoansService.createWithin: an asset is in at most one open loan that has
\* not received it back, because only a creation takes assets and it refuses
\* those that an open loan has.
THEOREM CustodyOneOpenLoan == Spec => []OneOpenLoan
<1>1. Init => OneOpenLoan
    BY DEF Init, OneOpenLoan, NoLoan, OpenLoanStatus
<1>2. ASSUME TypeOK, TargetsAreKnown, OneOpenLoan, [Next]_vars PROVE OneOpenLoan'
    <2> SUFFICES ASSUME NEW l \in Loans, NEW m \in Loans, NEW a \in Assets,
                        loan'[l].status \in OpenLoanStatus, loan'[m].status \in OpenLoanStatus,
                        a \in loan'[l].items \ loan'[l].received, a \in loan'[m].items \ loan'[m].received
                 PROVE  l = m
        <3>1. TypeOK'
            BY <1>2, NextType
        <3>2. \A l \in Loans : loan'[l].items \subseteq Assets
            BY <3>1 DEF TypeOK, LoanRecord
        <3> QED
            BY <3>2 DEF OneOpenLoan
    <2>1. CASE LoansShrink
        <3>1. \A x \in {l, m} : loan[x].status \in OpenLoanStatus /\ a \in loan[x].items \ loan[x].received
            BY <2>1 DEF LoansShrink
        <3> QED
            BY <1>2, <3>1 DEF OneOpenLoan
    <2>2. ASSUME NEW n \in Loans, NEW S \in SUBSET Assets, LoanTakes(n, S) PROVE l = m
        <3>1. \A x \in {l, m} \ {n} : loan[x].status \in OpenLoanStatus /\ a \in loan[x].items \ loan[x].received
            BY <2>2 DEF LoanTakes
        <3>2. n \in {l, m} => ~HeldByLoan(a)
            BY <2>2 DEF LoanTakes, LoanItems
        <3> QED
            BY <1>2, <3>1, <3>2 DEF OneOpenLoan, HeldByLoan
    <2> QED
        BY <1>2, <2>1, <2>2, Steps DEF HoldsShrink
<1> QED
    BY <1>1, <1>2, TypesAndTargets, PTL DEF Spec

\* TransfersService and the transfer acta: an asset of an open loan or transfer
\* is still in the cost center that process took it from.  Only a signed
\* transfer moves assets, and it has just checked that no loan and no other
\* transfer has them.
THEOREM CustodyHeldIsAtSource == Spec => []HeldIsAtSource
<1>1. Init => HeldIsAtSource
    BY DEF Init, HeldIsAtSource, NoLoan, NoTransfer, OpenLoanStatus
<1>2. ASSUME TypeOK, TargetsAreKnown, HeldIsAtSource, [Next]_vars PROVE HeldIsAtSource'
    <2> DEFINE LoanHas(l, a) == loan[l].status \in OpenLoanStatus /\ a \in loan[l].items \ loan[l].received
    <2>0. /\ \A l \in Loans : \A a : LoanHas(l, a) => a \in Assets /\ assetCenter[a] = loan[l].source
          /\ \A t \in Transfers : \A a \in transfer[t].open : a \in Assets /\ assetCenter[a] = transfer[t].source
        BY <1>2 DEF HeldIsAtSource, TypeOK, LoanRecord, TransferRecord
    \* Loans and transfers that took nothing keep their assets where they are.
    <2>1. ASSUME UNCHANGED assetCenter, LoansShrink
          PROVE  \A l \in Loans : \A a : LoanHas(l, a)' => assetCenter'[a] = loan'[l].source
        BY <2>0, <2>1 DEF LoansShrink
    <2>2. ASSUME UNCHANGED assetCenter, TransfersShrink
          PROVE  \A t \in Transfers : \A a \in transfer'[t].open : assetCenter'[a] = transfer'[t].source
        BY <2>0, <2>2 DEF TransfersShrink
    \* What is taken was checked to be there.
    <2>3. ASSUME UNCHANGED assetCenter, NEW n \in Loans, NEW S \in SUBSET Assets, LoanTakes(n, S)
          PROVE  \A l \in Loans : \A a : LoanHas(l, a)' => assetCenter'[a] = loan'[l].source
        BY <2>0, <2>3 DEF LoanTakes
    <2>4. ASSUME UNCHANGED assetCenter, NEW u \in Transfers, NEW S \in SUBSET Assets, TransferTakes(u, S)
          PROVE  \A t \in Transfers : \A a \in transfer'[t].open : assetCenter'[a] = transfer'[t].source
        BY <2>0, <2>4 DEF TransferTakes, TransferItems
    <2>5. CASE UNCHANGED assetCenter
        BY <1>2, <2>1, <2>2, <2>3, <2>4, <2>5, Steps DEF HoldsShrink, HeldIsAtSource
    <2>6. ASSUME HoldsShrink, NEW k \in Actas, TransferActaSigned(k) PROVE HeldIsAtSource'
        <3>0. transfer \in [Transfers -> TransferRecord] /\ \A t \in Transfers : transfer[t] \in TransferRecord
            BY <1>2 DEF TypeOK
        <3>1. PICK t \in Transfers :
                 /\ TransferItems(transfer[t].items, transfer[t].source, t)
                 /\ assetCenter' = [a \in Assets |-> IF a \in transfer[t].items THEN transfer[t].target ELSE assetCenter[a]]
                 /\ CloseTransfer(t, "COMPLETED")
            BY <2>6 DEF TransferActaSigned
        <3>2. transfer'[t].open = {}
            BY <3>0, <3>1 DEF CloseTransfer, TransferRecord
        <3>3. ASSUME NEW l \in Loans, NEW a, LoanHas(l, a)' PROVE assetCenter'[a] = loan'[l].source
            <4>1. LoanHas(l, a) /\ loan'[l].source = loan[l].source
                BY <2>6, <3>3 DEF HoldsShrink, LoansShrink
            <4>2. a \notin transfer[t].items
                BY <3>1, <4>1 DEF TransferItems, HeldByLoan
            <4> QED
                BY <2>0, <3>1, <4>1, <4>2
        <3>4. ASSUME NEW u \in Transfers, NEW a \in transfer'[u].open PROVE assetCenter'[a] = transfer'[u].source
            <4>1. u # t /\ a \in transfer[u].open /\ transfer'[u].source = transfer[u].source
                BY <2>6, <3>2, <3>4 DEF HoldsShrink, TransfersShrink
            <4>2. a \notin transfer[t].items
                BY <3>1, <4>1 DEF TransferItems, HeldByTransfer
            <4> QED
                BY <2>0, <3>1, <4>1, <4>2
        <3> QED
            BY <3>3, <3>4 DEF HeldIsAtSource
    <2> QED
        BY <1>2, <2>5, <2>6, Steps
<1> QED
    BY <1>1, <1>2, TypesAndTargets, PTL DEF Spec

\* WriteOffsService.assertAssets: while a write-off has an asset, no loan, no
\* transfer, no handover, no request and no other write-off has it; each of
\* them checks the write-offs before it takes an asset, and the write-off
\* checks them all.
THEOREM CustodyWriteOffIsExclusive == Spec => []WriteOffIsExclusive
<1> DEFINE Free(a) == ~HeldByLoan(a) /\ ~HeldByTransfer(a, None) /\ ~HeldByHandover(a) /\ ~HeldByRequest(a, None)
<1>1. Init => WriteOffIsExclusive
    BY DEF Init, WriteOffIsExclusive, NoWriteOff
<1>2. ASSUME TypeOK, TargetsAreKnown, WriteOffIsExclusive, [Next]_vars PROVE WriteOffIsExclusive'
    <2>0. None \notin Transfers /\ None \notin Requests /\ None \notin WriteOffs
        BY NoneAssumption DEF Processes
    <2> SUFFICES ASSUME NEW w \in WriteOffs, NEW a \in writeOff'[w].open
                 PROVE  /\ ~HeldByLoan(a)' /\ ~HeldByTransfer(a, None)' /\ ~HeldByHandover(a)' /\ ~HeldByRequest(a, None)'
                        /\ ~HeldByWriteOff(a, w)'
        BY DEF WriteOffIsExclusive
    \* An asset nobody has is nobody's after a step that takes nothing.
    <2>1. LoansShrink /\ ~HeldByLoan(a) => ~HeldByLoan(a)'
        BY DEF LoansShrink, HeldByLoan
    <2>2. TransfersShrink /\ ~HeldByTransfer(a, None) => ~HeldByTransfer(a, None)'
        BY DEF TransfersShrink, HeldByTransfer
    <2>3. HandoversShrink /\ ~HeldByHandover(a) => ~HeldByHandover(a)'
        BY DEF HandoversShrink, HeldByHandover
    <2>4. RequestsShrink /\ ~HeldByRequest(a, None) => ~HeldByRequest(a, None)'
        BY DEF RequestsShrink, HeldByRequest
    <2>5. WriteOffsShrink => /\ a \in writeOff[w].open
                             /\ ~HeldByWriteOff(a, w) => ~HeldByWriteOff(a, w)'
        BY DEF WriteOffsShrink, HeldByWriteOff
    <2>6. a \in writeOff[w].open => Free(a) /\ ~HeldByWriteOff(a, w) /\ HeldByWriteOff(a, None)
        BY <1>2, <2>0 DEF WriteOffIsExclusive, HeldByWriteOff
    \* Whoever takes assets has looked at the write-offs.
    <2>7. ASSUME NEW l \in Loans, NEW S \in SUBSET Assets, LoanTakes(l, S), HeldByWriteOff(a, None), ~HeldByLoan(a)
          PROVE  ~HeldByLoan(a)'
        <3>1. a \notin S
            BY <2>7 DEF LoanTakes, LoanItems
        <3> QED
            BY <2>7, <3>1 DEF LoanTakes, HeldByLoan
    <2>8. ASSUME NEW t \in Transfers, NEW S \in SUBSET Assets, TransferTakes(t, S), HeldByWriteOff(a, None),
                 ~HeldByTransfer(a, None)
          PROVE  ~HeldByTransfer(a, None)'
        <3>1. a \notin S
            BY <2>8 DEF TransferTakes, TransferItems
        <3> QED
            BY <2>0, <2>8, <3>1 DEF TransferTakes, HeldByTransfer
    <2>9. ASSUME NEW h \in Handovers, NEW S \in SUBSET Assets, HandoverTakes(h, S), HeldByWriteOff(a, None), ~HeldByHandover(a)
          PROVE  ~HeldByHandover(a)'
        BY <2>9 DEF HandoverTakes, HeldByHandover
    <2>10. ASSUME NEW r \in Requests, NEW S \in SUBSET Assets, RequestTakes(r, S), HeldByWriteOff(a, None),
                  ~HeldByRequest(a, None)
           PROVE  ~HeldByRequest(a, None)'
        BY <2>0, <2>10 DEF RequestTakes, HeldByRequest
    \* And the write-off has looked at everybody.
    <2>11. ASSUME NEW v \in WriteOffs, NEW S \in SUBSET Assets, WriteOffTakes(v, S)
           PROVE  Free(a) /\ ~HeldByWriteOff(a, w)'
        <3>1. CASE v = w
            <4>1. a \in S
                BY <2>11, <3>1 DEF WriteOffTakes
            <4>2. Free(a) /\ ~HeldByWriteOff(a, w)
                BY <2>11, <3>1, <4>1 DEF WriteOffTakes, WriteOffItems
            <4> QED
                BY <2>11, <3>1, <4>2 DEF WriteOffTakes, HeldByWriteOff
        <3>2. CASE v # w
            <4>1. a \in writeOff[w].open
                BY <2>11, <3>2 DEF WriteOffTakes
            <4>2. a \notin S
                BY <2>11, <3>2, <4>1 DEF WriteOffTakes, WriteOffItems, HeldByWriteOff
            <4> QED
                BY <2>6, <2>11, <3>2, <4>1, <4>2 DEF WriteOffTakes, HeldByWriteOff
        <3> QED
            BY <3>1, <3>2
    <2> QED
        BY <1>2, <2>1, <2>2, <2>3, <2>4, <2>5, <2>6, <2>7, <2>8, <2>9, <2>10, <2>11, Steps DEF HoldsShrink
<1> QED
    BY <1>1, <1>2, TypesAndTargets, PTL DEF Spec

-----------------------------------------------------------------------------
(* Actas.                                                                  *)

\* LoanDeliveryActLifecycle and the operations around it (delivery,
\* regeneration, undoing, return): whatever their order, a loan is active by a
\* signed delivery acta, and no process has two actas that could be signed.
THEOREM CustodyActasAreSound == Spec => []ActasAreSound
<1>1. Init => ActasFit
    BY InitFits
<1>2. TypeOK /\ ActasFit /\ [Next]_vars => ActasFit'
    BY NextFits
<1>3. TypeOK /\ ActasFit => ActasAreSound
    BY FitIsSound DEF ActasAreSound
<1> QED
    BY <1>1, <1>2, <1>3, TypesAndTargets, PTL DEF Spec

\* The callbacks of the actas and the listeners of AssetRequestCompletionObserver:
\* a process ends exactly as its acta does, and a request waits for its loan
\* exactly while that loan is approved and not delivered.
THEOREM CustodyFollowersSettle == Spec => []FollowersSettle
<1>1. Init => ActasFit /\ RequestsFollow
    BY InitFits, InitFollow
<1>2. TypeOK /\ ActasFit /\ RequestsFollow /\ [Next]_vars => ActasFit' /\ RequestsFollow'
    BY NextFits, NextFollow
<1>3. TypeOK /\ ActasFit /\ RequestsFollow => FollowersSettle
    BY FitIsSound DEF FollowersSettle, RequestsFollow, LoanOf, ScheduledWhileApproved
<1> QED
    BY <1>1, <1>2, <1>3, TypesAndTargets, PTL DEF Spec

-----------------------------------------------------------------------------
(* Assets on loan.                                                         *)

\* The statuses of a loan while nothing of it can have come back.
Unreturned == {"REQUESTED", "APPROVED", "PENDING_SIGNATURES"}

\* Nothing is received before the delivery acta is signed, and a loan remembers statuses in
\* which an asset may be lent.
LoanShape ==
    \A l \in Loans :
        /\ loan[l].status \in Unreturned => loan[l].received = {}
        /\ loan[l].back \in [Assets -> Loanable]

\* A direct edit never lends an asset.
EditShape == \A e \in Editors : edit[e].to # "ON_LOAN"

\* In a step, an asset becomes ON_LOAN only in a loan that then has it out,
\* and an asset that stays ON_LOAN stays out where it was.
OutKept ==
    \A a \in Assets : assetStatus'[a] = "ON_LOAN" =>
        /\ assetStatus[a] # "ON_LOAN" => OutIn(a)' # {}
        /\ OutIn(a) \subseteq OutIn(a)'

\* In a step, an asset that is out afterwards is ON_LOAN, unless it was out
\* without being ON_LOAN before.
OutHeld ==
    \A a \in Assets : OutIn(a)' # {} => assetStatus'[a] = "ON_LOAN" \/ (OutIn(a) # {} /\ assetStatus[a] # "ON_LOAN")

\* In a step, the loan that takes an asset remembers its status, no loan that
\* has it forgets, and the asset goes back to it or is lost.
Remembered ==
    \A a \in Assets :
        /\ assetStatus[a] # "ON_LOAN" /\ assetStatus'[a] = "ON_LOAN" => \E l \in OutIn(a)' : loan'[l].back[a] = assetStatus[a]
        /\ \A l \in OutIn(a) \cap OutIn(a)' : loan'[l].back[a] = loan[l].back[a]
        /\ assetStatus[a] = "ON_LOAN" /\ assetStatus'[a] # "ON_LOAN" =>
             assetStatus'[a] = "LOST" \/ \E l \in OutIn(a) : assetStatus'[a] = loan[l].back[a]

OutStays == OutKept /\ OutHeld /\ Remembered

\* A loan that goes from one status to another while the assets keep theirs.
LEMMA LoanFieldKeeps ==
    ASSUME TypeOK, LoanShape, NEW l \in Loans, UNCHANGED assetStatus,
           \/ \E st : /\ SetLoan(l, st)
                      /\ loan[l].status \in LoanOutStatus <=> st \in LoanOutStatus
                      /\ st \in Unreturned => loan[l].status \in Unreturned
           \/ \E ext : loan' = [loan EXCEPT ![l].extension = ext]
           \/ \E k : loan' = [loan EXCEPT ![l].document = k]
    PROVE  LoanShape' /\ OutStays
<1>0. loan \in [Loans -> LoanRecord] /\ \A m \in Loans : loan[m] \in LoanRecord
    BY DEF TypeOK
<1>1. ASSUME NEW st, SetLoan(l, st), loan[l].status \in LoanOutStatus <=> st \in LoanOutStatus,
             st \in Unreturned => loan[l].status \in Unreturned
      PROVE  LoanShape' /\ OutStays
    BY <1>0, <1>1 DEF SetLoan, LoanShape, Unreturned, OutStays, OutKept, OutHeld, Remembered, OutIn, LoanRecord
<1>2. ASSUME NEW ext, loan' = [loan EXCEPT ![l].extension = ext] PROVE LoanShape' /\ OutStays
    BY <1>0, <1>2 DEF LoanShape, OutStays, OutKept, OutHeld, Remembered, OutIn, LoanRecord
<1>3. ASSUME NEW k, loan' = [loan EXCEPT ![l].document = k] PROVE LoanShape' /\ OutStays
    BY <1>0, <1>3 DEF LoanShape, OutStays, OutKept, OutHeld, Remembered, OutIn, LoanRecord
<1> QED
    BY <1>1, <1>2, <1>3

\* Nothing leaves a loan in a step that changes no loan, lends no asset and
\* takes none back; it may lose one.
LEMMA UnchangedKeeps ==
    ASSUME LoanShape, UNCHANGED loan, \A a \in Assets : assetStatus'[a] = "ON_LOAN" => assetStatus[a] = "ON_LOAN",
           \A a \in Assets : assetStatus[a] = "ON_LOAN" => assetStatus'[a] \in {"ON_LOAN", "LOST"}
    PROVE  /\ LoanShape' /\ OutKept /\ Remembered
           /\ (\A a \in Assets : assetStatus[a] = "ON_LOAN" => assetStatus'[a] = "ON_LOAN") => OutStays
<1>1. LoanShape' /\ OutKept /\ Remembered
    BY DEF LoanShape, OutKept, Remembered, OutIn
<1>2. (\A a \in Assets : assetStatus[a] = "ON_LOAN" => assetStatus'[a] = "ON_LOAN") => OutHeld
    BY DEF OutHeld, OutIn
<1> QED
    BY <1>1, <1>2 DEF OutStays

\* A new loan has nothing out.
LEMMA LoanCreationKeeps ==
    ASSUME TypeOK, LoanShape, NEW l \in Loans, NEW S \in SUBSET Assets, NEW r, NEW st \in {"REQUESTED", "APPROVED"},
           LoanCreation(l, S, r, st), UNCHANGED assetStatus
    PROVE  LoanShape' /\ OutStays
<1>0. loan \in [Loans -> LoanRecord]
    BY DEF TypeOK
<1> DEFINE back == [a \in Assets |-> IF a \in S THEN assetStatus[a] ELSE "IN_USE"]
<1>1. PICK c : loan' = [loan EXCEPT ![l] = [NoLoan EXCEPT !.status = st, !.items = S, !.source = c, !.back = back, !.request = r]]
    BY DEF LoanCreation
<1>2. back \in [Assets -> Loanable]
    BY DEF LoanCreation, LoanItems, Loanable
<1> HIDE DEF back
<1>3. /\ loan'[l].status = st /\ loan'[l].received = {} /\ loan'[l].back = back
      /\ \A m \in Loans \ {l} : loan'[m] = loan[m]
    BY <1>0, <1>1 DEF NoLoan
<1>4. loan[l].status = "NONE"
    BY DEF LoanCreation
<1>5. LoanShape'
    BY <1>2, <1>3 DEF LoanShape
<1> QED
    BY <1>3, <1>4, <1>5 DEF OutStays, OutKept, OutHeld, Remembered, OutIn, LoanOutStatus

\* deliverWithin: every item becomes ON_LOAN, and its loan has it out.
LEMMA DeliverKeeps ==
    ASSUME TypeOK, LoanShape, NEW l \in Loans, NEW k \in Actas, LoanDeliver(l, k)
    PROVE  LoanShape' /\ OutStays
<1>0. /\ loan \in [Loans -> LoanRecord] /\ \A m \in Loans : loan[m] \in LoanRecord
      /\ assetStatus \in [Assets -> OperationalStatus]
    BY DEF TypeOK
<1> DEFINE back == [a \in Assets |-> IF a \in loan[l].items THEN assetStatus[a] ELSE "IN_USE"]
<1>1. loan' = [loan EXCEPT ![l].status = "PENDING_SIGNATURES", ![l].delivered = TRUE, ![l].back = back]
    BY DEF LoanDeliver
<1>2. back \in [Assets -> Loanable]
    BY DEF LoanDeliver, Deliverable, Loanable
<1> HIDE DEF back
<1>3. /\ loan'[l].status = "PENDING_SIGNATURES" /\ loan'[l].back = back /\ loan'[l].items = loan[l].items
      /\ loan'[l].received = loan[l].received /\ \A m \in Loans \ {l} : loan'[m] = loan[m]
    BY <1>0, <1>1 DEF LoanRecord
<1>4. loan[l].status = "APPROVED" /\ loan[l].received = {}
    BY DEF LoanDeliver, LoanShape, Unreturned
<1>5. LoanShape'
    BY <1>2, <1>3, <1>4 DEF LoanShape
<1>6. \A a \in Assets : /\ a \in loan[l].items => assetStatus'[a] = "ON_LOAN" /\ assetStatus[a] # "ON_LOAN" /\ back[a] = assetStatus[a]
                        /\ a \notin loan[l].items => assetStatus'[a] = assetStatus[a]
    BY DEF LoanDeliver, Deliverable, Loanable, back
<1>7. \A a \in Assets : OutIn(a)' = IF a \in loan[l].items THEN OutIn(a) \cup {l} ELSE OutIn(a)
    BY <1>3, <1>4 DEF OutIn, LoanOutStatus
<1>8. \A a \in Assets : l \notin OutIn(a)
    BY <1>4 DEF OutIn, LoanOutStatus
<1>9. \A a \in Assets : \A m \in OutIn(a) : loan'[m] = loan[m]
    BY <1>3, <1>8 DEF OutIn
<1>10. OutKept /\ OutHeld
    BY <1>6, <1>7 DEF OutKept, OutHeld
<1>11. Remembered
    BY <1>3, <1>6, <1>7, <1>9 DEF Remembered
<1> QED
    BY <1>5, <1>10, <1>11 DEF OutStays

\* undoDelivery: the items are no longer ON_LOAN.
LEMMA UndoKeeps ==
    ASSUME TypeOK, LoanShape, OneOpenLoan, NEW l \in Loans, UndoDeliveryEffect(l)
    PROVE  LoanShape' /\ OutStays
<1>0. loan \in [Loans -> LoanRecord] /\ \A m \in Loans : loan[m] \in LoanRecord
    BY DEF TypeOK
<1>1. /\ loan'[l].status = "CANCELLED" /\ loan'[l].back = loan[l].back
      /\ \A m \in Loans \ {l} : loan'[m] = loan[m]
    BY <1>0 DEF UndoDeliveryEffect, SetLoan, LoanRecord
<1>2. LoanShape'
    BY <1>1 DEF LoanShape, Unreturned
<1>3. loan[l].status = "PENDING_SIGNATURES" /\ loan[l].received = {}
    BY DEF UndoDeliveryEffect, LoanShape, Unreturned
<1>4. \A a \in Assets : /\ a \in loan[l].items => assetStatus[a] = "ON_LOAN" /\ assetStatus'[a] # "ON_LOAN" /\ assetStatus'[a] = loan[l].back[a]
                        /\ a \notin loan[l].items => assetStatus'[a] = assetStatus[a]
    BY DEF UndoDeliveryEffect, LoanShape, Loanable
<1>5. \A a \in Assets : OutIn(a)' = OutIn(a) \ {l}
    BY <1>1 DEF OutIn, LoanOutStatus
<1>6. \A a \in Assets : a \in loan[l].items <=> l \in OutIn(a)
    BY <1>3 DEF OutIn, LoanOutStatus
<1>7. \A a \in Assets : \A m \in OutIn(a) : l \in OutIn(a) => m = l
    BY DEF OneOpenLoan, OutIn, LoanOutStatus, OpenLoanStatus
<1>8. \A a \in Assets : \A m \in OutIn(a) \ {l} : loan'[m] = loan[m]
    BY <1>1 DEF OutIn
<1>9. OutKept
    BY <1>4, <1>5, <1>6 DEF OutKept
<1>10. OutHeld
    BY <1>4, <1>5, <1>6, <1>7 DEF OutHeld
<1>11. Remembered
    BY <1>4, <1>5, <1>6, <1>8 DEF Remembered
<1> QED
    BY <1>2, <1>9, <1>10, <1>11 DEF OutStays

\* receiveReturn: what comes back is no longer ON_LOAN, and the loan stays out
\* while something has not come back.
LEMMA ReceiveKeeps ==
    ASSUME TypeOK, LoanShape, OneOpenLoan, NEW l \in Loans, ReceiveReturn(l)
    PROVE  LoanShape' /\ OutStays
<1>0. /\ loan \in [Loans -> LoanRecord] /\ \A m \in Loans : loan[m] \in LoanRecord
      /\ loan[l].items \subseteq Assets /\ loan[l].received \subseteq Assets
    BY DEF TypeOK, LoanRecord
<1> DEFINE back == {a \in loan[l].items \ loan[l].received : loan[l].condition[a] # "NONE"}
           st == StatusAfterReception(loan[l].items, loan[l].received \cup back, loan[l].condition)
<1>1. /\ loan' = [loan EXCEPT ![l].received = @ \cup back, ![l].status = st]
      /\ assetStatus' = [a \in Assets |-> IF a \in back THEN StatusOnReturn(l, a) ELSE assetStatus[a]]
    BY DEF ReceiveReturn
<1>2. /\ st \notin Unreturned
      /\ loan[l].items # loan[l].received \cup back => st \in LoanOutStatus
    BY DEF StatusAfterReception, LoanOutStatus, Unreturned
<1>3. \A a \in Assets : /\ a \in back => /\ assetStatus[a] = "ON_LOAN" /\ assetStatus'[a] # "ON_LOAN"
                                       /\ assetStatus'[a] \in {"LOST", loan[l].back[a]}
                        /\ a \notin back => assetStatus'[a] = assetStatus[a]
    BY <1>0, <1>1 DEF StatusOnReturn, LoanShape, Loanable, ReceiveReturn
<1>20. loan[l].status = "PENDING_RECEPTION" /\ back \subseteq loan[l].items \ loan[l].received
    BY DEF ReceiveReturn
<1> HIDE DEF back, st
<1>4. /\ loan'[l].status = st /\ loan'[l].back = loan[l].back /\ loan'[l].items = loan[l].items
      /\ loan'[l].received = loan[l].received \cup back /\ \A m \in Loans \ {l} : loan'[m] = loan[m]
    BY <1>0, <1>1 DEF LoanRecord
<1>5. LoanShape'
    BY <1>2, <1>4 DEF LoanShape
<1>6. \A a \in Assets : OutIn(a)' = IF a \in back THEN OutIn(a) \ {l} ELSE OutIn(a)
    <2>1. \A m \in Loans \ {l} : \A a \in Assets : m \in OutIn(a)' <=> m \in OutIn(a)
        BY <1>4 DEF OutIn
    <2>2. \A a \in Assets : l \in OutIn(a) <=> a \in loan[l].items \ loan[l].received
        BY <1>20 DEF OutIn, LoanOutStatus
    <2>3. \A a \in Assets : l \in OutIn(a)' <=> a \in loan[l].items \ (loan[l].received \cup back)
        BY <1>0, <1>2, <1>4 DEF OutIn
    <2> QED
        BY <2>1, <2>2, <2>3 DEF OutIn
<1>7. \A a \in back : l \in OutIn(a)
    BY <1>20 DEF OutIn, LoanOutStatus
<1>8. \A a \in Assets : \A m \in OutIn(a) : l \in OutIn(a) => m = l
    BY DEF OneOpenLoan, OutIn, LoanOutStatus, OpenLoanStatus
<1>9. \A m \in Loans : loan'[m].back = loan[m].back
    BY <1>4
<1>10. OutKept
    BY <1>3, <1>6 DEF OutKept
<1>11. OutHeld
    BY <1>3, <1>6, <1>7, <1>8 DEF OutHeld
<1>12. Remembered
    <2>1. \A a \in Assets : \A m \in OutIn(a) : m \in Loans
        BY DEF OutIn
    <2> QED
        BY <1>3, <1>7, <1>9, <2>1 DEF Remembered
<1> QED
    BY <1>5, <1>10, <1>11, <1>12 DEF OutStays

\* LoansService.
LEMMA LoanKeeps ==
    ASSUME TypeOK, LoanShape, OneOpenLoan, LoanNext
    PROVE  LoanShape' /\ OutStays /\ UNCHANGED edit
<1>0. loan \in [Loans -> LoanRecord] /\ \A m \in Loans : loan[m] \in LoanRecord
    BY DEF TypeOK
<1>1. ASSUME NEW l \in Loans, NEW S \in SUBSET Assets, LoanCreate(l, S)
      PROVE  LoanShape' /\ OutStays /\ UNCHANGED edit
    <2>1. LoanCreation(l, S, None, "REQUESTED") /\ UNCHANGED <<assetStatus, edit>>
        BY <1>1 DEF LoanCreate, assetVars, loanOthers
    <2> QED
        BY <2>1, LoanCreationKeeps
<1>2. ASSUME NEW l \in Loans, LoanApprove(l) \/ LoanReject(l) \/ LoanCancel(l) \/ MarkOverdue(l)
      PROVE  LoanShape' /\ OutStays /\ UNCHANGED edit
    <2>1. PICK st : /\ SetLoan(l, st)
                    /\ loan[l].status \in LoanOutStatus <=> st \in LoanOutStatus
                    /\ st \in Unreturned => loan[l].status \in Unreturned
        BY <1>2 DEF LoanApprove, LoanReject, LoanCancel, MarkOverdue, LoanOutStatus, Unreturned
    <2>2. UNCHANGED <<assetStatus, edit>>
        BY <1>2 DEF LoanApprove, LoanReject, LoanCancel, MarkOverdue, assetVars, loanOthers
    <2> QED
        BY <2>1, <2>2, LoanFieldKeeps
<1>3. ASSUME NEW l \in Loans, NEW k \in Actas, LoanDeliver(l, k)
      PROVE  LoanShape' /\ OutStays /\ UNCHANGED edit
    BY <1>3, DeliverKeeps DEF LoanDeliver, loanOthers
<1>4. ASSUME NEW l \in Loans, UndoDelivery(l) \/ UndoFindsNoActa(l) \/ UndoLocksLoan(l)
      PROVE  LoanShape' /\ OutStays /\ UNCHANGED edit
    <2>1. UndoDeliveryEffect(l) \/ UNCHANGED <<assetStatus, loan>>
        BY <1>4 DEF UndoDelivery, UndoFindsNoActa, UndoLocksLoan, assetVars, processVars
    <2>2. UNCHANGED edit
        BY <1>4 DEF UndoDelivery, UndoFindsNoActa, UndoLocksLoan, loanOthers
    <2>3. UndoDeliveryEffect(l) => LoanShape' /\ OutStays
        BY UndoKeeps
    <2>4. UNCHANGED <<assetStatus, loan>> => LoanShape' /\ OutStays
        BY UnchangedKeeps
    <2> QED
        BY <2>1, <2>2, <2>3, <2>4
<1>5. ASSUME NEW l \in Loans, NEW S \in SUBSET loan[l].items, NEW condition \in [S -> {"GOOD", "LOST"}],
             StartReturn(l, S, condition)
      PROVE  LoanShape' /\ OutStays /\ UNCHANGED edit
    <2>1. loan[l].status \in LoanOutStatus /\ UNCHANGED <<assetStatus, edit>>
        BY <1>5 DEF StartReturn, LoanOutStatus, assetVars, loanOthers
    <2>2. /\ loan'[l].status = "PENDING_RECEPTION" /\ loan'[l].back = loan[l].back /\ loan'[l].items = loan[l].items
          /\ loan'[l].received = loan[l].received /\ \A m \in Loans \ {l} : loan'[m] = loan[m]
        BY <1>0, <1>5 DEF StartReturn, LoanRecord
    <2>3. LoanShape'
        BY <2>2 DEF LoanShape, Unreturned
    <2> QED
        BY <2>1, <2>2, <2>3 DEF OutStays, OutKept, OutHeld, Remembered, OutIn, LoanOutStatus
<1>6. ASSUME NEW l \in Loans, ReceiveReturn(l)
      PROVE  LoanShape' /\ OutStays /\ UNCHANGED edit
    BY <1>6, ReceiveKeeps DEF ReceiveReturn, loanOthers
<1>7. ASSUME NEW l \in Loans, RequestExtension(l) \/ RejectExtension(l)
      PROVE  LoanShape' /\ OutStays /\ UNCHANGED edit
    <2>1. (\E ext : loan' = [loan EXCEPT ![l].extension = ext]) /\ UNCHANGED <<assetStatus, edit>>
        BY <1>7 DEF RequestExtension, RejectExtension, assetVars, loanOthers
    <2> QED
        BY <2>1, LoanFieldKeeps
<1>8. ASSUME NEW l \in Loans, ApproveExtension(l)
      PROVE  LoanShape' /\ OutStays /\ UNCHANGED edit
    <2>1. PICK st \in {loan[l].status, "ACTIVE"} : loan' = [loan EXCEPT ![l].extension = FALSE, ![l].status = st]
        BY <1>8 DEF ApproveExtension
    <2>2. loan[l].status \in {"ACTIVE", "OVERDUE"} /\ UNCHANGED <<assetStatus, edit>>
        BY <1>8 DEF ApproveExtension, assetVars, loanOthers
    <2>3. /\ loan'[l].status = st /\ loan'[l].back = loan[l].back /\ loan'[l].items = loan[l].items
          /\ loan'[l].received = loan[l].received /\ \A m \in Loans \ {l} : loan'[m] = loan[m]
        BY <1>0, <2>1 DEF LoanRecord
    <2>4. st \in LoanOutStatus /\ st \notin Unreturned
        BY <2>2 DEF LoanOutStatus, Unreturned
    <2>5. LoanShape'
        BY <2>3, <2>4 DEF LoanShape
    <2> QED
        BY <2>2, <2>3, <2>4, <2>5 DEF OutStays, OutKept, OutHeld, Remembered, OutIn, LoanOutStatus
<1>9. ASSUME NEW k \in Actas, LoanActaGenerated(k)
      PROVE  LoanShape' /\ OutStays /\ UNCHANGED edit
    <2>1. (\E l \in Loans : loan' = [loan EXCEPT ![l].document = k]) /\ UNCHANGED <<assetStatus, edit>>
        BY <1>9 DEF LoanActaGenerated, assetVars, loanOthers
    <2> QED
        BY <2>1, LoanFieldKeeps
<1>10. ASSUME NEW k \in Actas, LoanActaSigned(k)
      PROVE  LoanShape' /\ OutStays /\ UNCHANGED edit
    <2>1. \E l \in Loans : \E st :
             /\ SetLoan(l, st)
             /\ loan[l].status \in LoanOutStatus <=> st \in LoanOutStatus
             /\ st \in Unreturned => loan[l].status \in Unreturned
        BY <1>10 DEF LoanActaSigned, LoanOutStatus, Unreturned
    <2>2. UNCHANGED <<assetStatus, edit>>
        BY <1>10 DEF LoanActaSigned, assetVars, loanOthers
    <2> QED
        BY <2>1, <2>2, LoanFieldKeeps
<1>11. ASSUME NEW k \in Actas, LoanActaRejected(k) \/ ReturnActa(k) \/ \E l \in Loans : RegenerateDeliveryAct(l, k)
      PROVE  LoanShape' /\ OutStays /\ UNCHANGED edit
    BY <1>11, UnchangedKeeps DEF LoanActaRejected, ReturnActa, RegenerateDeliveryAct, assetVars, loanOthers
<1> QED
    BY <1>1, <1>2, <1>3, <1>4, <1>5, <1>6, <1>7, <1>8, <1>9, <1>10, <1>11 DEF LoanNext

\* Direct edits write what was allowed when they were checked, never ON_LOAN.
LEMMA EditKeeps ==
    ASSUME TypeOK, LoanShape, EditShape, EditNext
    PROVE  LoanShape' /\ OutStays /\ EditShape'
<1>0. edit \in [Editors -> EditRecord]
    BY DEF TypeOK
<1>1. PICK e \in Editors :
         \/ \E a \in Assets : WriteOffAsset(e, a) \/ \E to \in OperationalStatus : ChangeStatus(e, a, to)
         \/ ApplyEdit(e) \/ EditRefused(e)
    BY DEF EditNext
<1>2. UNCHANGED loan /\ \A a \in Assets : assetStatus'[a] = "ON_LOAN" <=> assetStatus[a] = "ON_LOAN"
    BY <1>1 DEF WriteOffAsset, ChangeStatus, ApplyEdit, EditRefused, EditGuard, Immovable, EditShape, TypeOK, assetVars, processVars
<1>3. ASSUME NEW a \in Assets, NEW to \in OperationalStatus, ChangeStatus(e, a, to) PROVE edit'[e].to # "ON_LOAN"
    <2>1. to \in StatusTransitions[assetStatus[a]] /\ edit'[e].to = to /\ assetStatus[a] \in OperationalStatus
        BY <1>0, <1>3 DEF ChangeStatus, TypeOK
    <2>2. \A s \in OperationalStatus : "ON_LOAN" \notin StatusTransitions[s]
        BY DEF StatusTransitions, Loanable, OperationalStatus
    <2> QED
        BY <2>1, <2>2
<1>4. edit'[e].to # "ON_LOAN" /\ \A d \in Editors \ {e} : edit'[d] = edit[d]
    <2>1. ASSUME NEW a \in Assets, WriteOffAsset(e, a) PROVE edit'[e].to # "ON_LOAN"
        BY <1>0, <2>1 DEF WriteOffAsset
    <2>2. ApplyEdit(e) \/ EditRefused(e) => edit'[e].to # "ON_LOAN"
        BY <1>0 DEF ApplyEdit, EditRefused, NoEdit
    <2>3. \A d \in Editors \ {e} : edit'[d] = edit[d]
        BY <1>0, <1>1 DEF WriteOffAsset, ChangeStatus, ApplyEdit, EditRefused
    <2> QED
        BY <1>1, <1>3, <2>1, <2>2, <2>3
<1> QED
    BY <1>2, <1>4, UnchangedKeeps DEF EditShape

\* The parts of the state that AssetRequestsService leaves alone.
LEMMA RequestFrame ==
    ASSUME RequestNext
    PROVE  /\ UNCHANGED <<assetStatus, responsible, edit, inventory>>
           /\ UNCHANGED loan \/ \E r \in Requests, l \in Loans : RequestGenerateLoan(r, l)
<1>1. PICK r \in Requests :
         \/ \E kind \in {"TEMPORARY", "PERMANENT"}, requesting, owner \in Centers :
              RequestCreate(r, kind, requesting, owner) \/ RequestCorrect(r, kind, requesting, owner)
         \/ \E S \in SUBSET Assets : RequestAccept(r, S)
         \/ RequestClose(r) \/ RequestCancel(r) \/ ReturnToRequester(r) \/ RequestExpire(r)
         \/ \E l \in Loans : RequestGenerateLoan(r, l)
         \/ \E t \in Transfers, k \in Actas : RequestGenerateTransfer(r, t, k)
    BY DEF RequestNext
<1>2. ASSUME NEW l \in Loans, RequestGenerateLoan(r, l) PROVE UNCHANGED <<assetStatus, responsible, edit, inventory>>
    BY <1>2 DEF RequestGenerateLoan, assetVars
<1>3. ASSUME NEW t \in Transfers, NEW k \in Actas, RequestGenerateTransfer(r, t, k)
      PROVE  UNCHANGED <<assetStatus, responsible, edit, inventory, loan>>
    BY <1>3 DEF RequestGenerateTransfer, assetVars
<1>4. ASSUME NEW kind, NEW requesting, NEW owner,
             RequestCreate(r, kind, requesting, owner) \/ RequestCorrect(r, kind, requesting, owner)
      PROVE  UNCHANGED <<assetStatus, responsible, edit, inventory, loan>>
    BY <1>4 DEF RequestCreate, RequestCorrect, assetVars, requestOthers
<1>5. ASSUME NEW S, RequestAccept(r, S) PROVE UNCHANGED <<assetStatus, responsible, edit, inventory, loan>>
    BY <1>5 DEF RequestAccept, assetVars, requestOthers
<1>6. ASSUME RequestClose(r) \/ RequestCancel(r) \/ ReturnToRequester(r) \/ RequestExpire(r)
      PROVE  UNCHANGED <<assetStatus, responsible, edit, inventory, loan>>
    BY <1>6 DEF RequestClose, RequestCancel, ReturnToRequester, RequestExpire, assetVars, requestOthers
<1> QED
    BY <1>1, <1>2, <1>3, <1>4, <1>5, <1>6

\* The other processes lend nothing and take nothing out of a loan; only the
\* reconciliation of an inventory loses what is out.
LEMMA OthersKeep ==
    ASSUME TypeOK, LoanShape, EditShape,
           TransferNext \/ WriteOffNext \/ HandoverNext \/ RequestNext \/ InventoryNext
           \/ (\E k \in Actas : FirstSignature(k)) \/ UNCHANGED vars
    PROVE  /\ LoanShape' /\ OutKept /\ Remembered /\ EditShape'
           /\ (\E i \in Inventories : ApplyReconcile(i)) \/ OutHeld
<1> USE DEF OutStays
<1>1. CASE TransferNext
    <2>1. UNCHANGED <<assetStatus, loan, edit>>
        BY <1>1 DEF TransferNext, TransferCreate, TransferUpdateItems, TransferGenerate, TransferActaGenerated,
              TransferActaSigned, TransferActaRejected, TransferCancelChecks, TransferCancelVoids,
              TransferCancelFindsNoActa, TransferCancelLocks, TransferCancelRefused, assetVars, processVars, transferOthers
    <2> QED
        BY <2>1, UnchangedKeeps DEF EditShape
<1>2. CASE WriteOffNext
    <2>1. UNCHANGED <<loan, edit>>
        BY <1>2 DEF WriteOffNext, WriteOffCreate, WriteOffUpdate, WriteOffGenerate, WriteOffActaGenerated,
              WriteOffActaSigned, WriteOffActaRejected, WriteOffCancelChecks, WriteOffCancelCloses, processVars, writeOffOthers
    <2>2. \A a \in Assets : assetStatus'[a] = "ON_LOAN" <=> assetStatus[a] = "ON_LOAN"
        BY <1>2 DEF Immovable, WriteOffNext, WriteOffCreate, WriteOffUpdate, WriteOffGenerate, WriteOffActaGenerated,
              WriteOffActaSigned, WriteOffActaRejected, WriteOffCancelChecks, WriteOffCancelCloses, assetVars
    <2> QED
        BY <2>1, <2>2, UnchangedKeeps DEF EditShape
<1>3. CASE HandoverNext
    <2>1. UNCHANGED <<assetStatus, loan, edit>>
        BY <1>3 DEF HandoverNext, HandoverCreate, HandoverActaGenerated, HandoverActaSigned, HandoverActaRejected,
              HandoverCancel, assetVars, handoverOthers
    <2> QED
        BY <2>1, UnchangedKeeps DEF EditShape
<1>4. CASE RequestNext
    <2>1. ASSUME NEW r \in Requests, NEW l \in Loans, RequestGenerateLoan(r, l)
          PROVE  LoanShape' /\ OutStays /\ EditShape'
        <3>1. request[r].open \in SUBSET Assets
            BY DEF TypeOK, RequestRecord
        <3>2. LoanCreation(l, request[r].open, r, "APPROVED") /\ UNCHANGED <<assetStatus, edit>>
            BY <2>1 DEF RequestGenerateLoan, assetVars
        <3> QED
            BY <3>1, <3>2, LoanCreationKeeps DEF EditShape
    <2>2. \/ UNCHANGED <<assetStatus, loan, edit>>
          \/ \E r \in Requests, l \in Loans : RequestGenerateLoan(r, l)
        BY <1>4, RequestFrame
    <2>3. UNCHANGED <<assetStatus, loan, edit>> => LoanShape' /\ OutStays /\ EditShape'
        BY UnchangedKeeps DEF EditShape
    <2> QED
        BY <2>1, <2>2, <2>3
<1>5. CASE InventoryNext
    <2>1. UNCHANGED <<loan, edit>>
        BY <1>5 DEF InventoryNext, InventoryStart, InventorySaveStart, InventoryCancel, InventoryReport, ReportUnexpected,
              InventorySaveReport, InventoryClose, InventorySaveClose, RequestReconcile, ApproveReconcile, ApplyReconcile,
              inventoryOthers
    <2>2. UNCHANGED assetStatus \/ \E i \in Inventories : ApplyReconcile(i)
        BY <1>5 DEF InventoryNext, InventoryStart, InventorySaveStart, InventoryCancel, InventoryReport, ReportUnexpected,
              InventorySaveReport, InventoryClose, InventorySaveClose, RequestReconcile, ApproveReconcile, assetVars
    <2>3. ASSUME NEW i \in Inventories, ApplyReconcile(i), NEW a \in Assets
          PROVE  /\ assetStatus'[a] = "ON_LOAN" => assetStatus[a] = "ON_LOAN"
                 /\ assetStatus[a] = "ON_LOAN" => assetStatus'[a] \in {"ON_LOAN", "LOST"}
        BY <2>3 DEF ApplyReconcile
    <2>4. UNCHANGED assetStatus => LoanShape' /\ OutStays
        BY <2>1, UnchangedKeeps
    <2>5. (\E i \in Inventories : ApplyReconcile(i)) => LoanShape' /\ OutKept /\ Remembered
        BY <2>1, <2>3, UnchangedKeeps
    <2> QED
        BY <2>1, <2>2, <2>4, <2>5 DEF EditShape
<1>6. CASE (\E k \in Actas : FirstSignature(k)) \/ UNCHANGED vars
    <2>1. UNCHANGED <<assetStatus, loan, edit>>
        BY <1>6 DEF FirstSignature, vars, assetVars, processVars
    <2> QED
        BY <2>1, UnchangedKeeps DEF EditShape
<1> QED
    BY <1>1, <1>2, <1>3, <1>4, <1>5, <1>6

\* assertItems and assertAssets: the holds of every process on an asset agree with
\* where it is and with each other.
THEOREM CustodyHolds == Spec => []HoldsAreSound
BY CustodyHeldIsAtSource, CustodyWriteOffIsExclusive, PTL DEF HoldsAreSound

\* AssetStateService guards of deliver, undoDelivery and receiveReturn: an
\* asset that says ON_LOAN is out in exactly one loan, and it is in the cost
\* center that lent it.  That it is out in some loan is the invariant of this
\* proof; that there is one and where the asset is are the theorems above.
THEOREM CustodyOnLoanIsOut == Spec => []OnLoanIsOut
<1> DEFINE Out == \A a \in Assets : assetStatus[a] = "ON_LOAN" => OutIn(a) # {}
<1>1. Init => LoanShape /\ EditShape /\ Out
    BY DEF Init, LoanShape, EditShape, NoLoan, NoEdit, Loanable
<1>2. ASSUME TypeOK, LoanShape, EditShape, OneOpenLoan, Out, [Next]_vars PROVE LoanShape' /\ EditShape' /\ Out'
    <2>1. LoanShape' /\ EditShape' /\ OutKept
        BY <1>2, LoanKeeps, EditKeeps, OthersKeep DEF Next, EditShape, OutStays
    <2> QED
        BY <1>2, <2>1 DEF OutKept
<1>3. OneOpenLoan /\ HeldIsAtSource /\ Out => OnLoanIsOut
    <2> SUFFICES ASSUME OneOpenLoan, HeldIsAtSource, NEW a \in Assets, OutIn(a) # {}
                 PROVE  \E l \in Loans : OutIn(a) = {l} /\ loan[l].source = assetCenter[a]
        BY DEF OnLoanIsOut
    <2>1. LoanOutStatus \subseteq OpenLoanStatus
        BY DEF LoanOutStatus, OpenLoanStatus
    <2>2. PICK l \in Loans : l \in OutIn(a)
        BY DEF OutIn
    <2>3. OutIn(a) = {l}
        BY <2>1, <2>2 DEF OutIn, OneOpenLoan
    <2>4. loan[l].source = assetCenter[a]
        BY <2>1, <2>2 DEF OutIn, HeldIsAtSource
    <2> QED
        BY <2>3, <2>4
<1> QED
    BY <1>1, <1>2, <1>3, TypesAndTargets, CustodyOneOpenLoan, CustodyHeldIsAtSource, PTL DEF Spec

\* deliver, undoDelivery and receiveReturn, whose statuses nothing else gives
\* or takes: a loan remembers the status an asset had when it was delivered, and
\* the asset goes back to it or to LOST.
THEOREM CustodyReturnsAsItCame == Spec => ReturnsAsItCame
<1>1. Init => LoanShape /\ EditShape
    BY DEF Init, LoanShape, EditShape, NoLoan, NoEdit, Loanable
<1>2. ASSUME TypeOK, LoanShape, EditShape, OneOpenLoan, [Next]_vars PROVE LoanShape' /\ EditShape' /\ Remembered
    BY <1>2, LoanKeeps, EditKeeps, OthersKeep DEF Next, EditShape, OutStays
<1>3. TypeOK /\ LoanShape /\ EditShape /\ OneOpenLoan /\ [Next]_vars => [Remembered]_vars
    BY <1>2
<1> QED
    BY <1>1, <1>2, <1>3, TypesAndTargets, CustodyOneOpenLoan, PTL DEF Spec, ReturnsAsItCame, Remembered

\* InventoryProcess: only a planned inventory is being started, only one in
\* progress closed and only a closed one reconciled, so a reconciled one stays.
InventoryShape ==
    \A i \in Inventories :
        /\ inventory[i].starting => inventory[i].status \in {"PLANNED", "CANCELLED"}
        /\ inventory[i].closing => inventory[i].status = "IN_PROGRESS"
        /\ inventory[i].approving => inventory[i].status = "CLOSED"

NoneReconciled == \A i \in Inventories : inventory[i].status # "RECONCILED"

LEMMA ReconciledStays ==
    ASSUME TypeOK, InventoryShape, [Next]_vars
    PROVE  InventoryShape' /\ (NoneReconciled' => NoneReconciled /\ ~\E i \in Inventories : ApplyReconcile(i))
<1> DEFINE Kept(i) == /\ inventory[i].status = "RECONCILED" => inventory'[i].status = "RECONCILED"
                      /\ inventory'[i].starting => inventory'[i].status \in {"PLANNED", "CANCELLED"}
                      /\ inventory'[i].closing => inventory'[i].status = "IN_PROGRESS"
                      /\ inventory'[i].approving => inventory'[i].status = "CLOSED"
<1>0. inventory \in [Inventories -> InventoryRecord] /\ \A i \in Inventories : inventory[i] \in InventoryRecord
    BY DEF TypeOK
<1>1. ASSUME NEW i \in Inventories,
             \/ \E scope \in SUBSET Centers : InventoryStart(i, scope)
             \/ InventorySaveStart(i) \/ InventoryCancel(i) \/ InventoryClose(i) \/ InventorySaveClose(i)
             \/ \E a \in Assets : \/ ReportUnexpected(i, a) \/ InventorySaveReport(i, a)
                                  \/ \E result \in {"FOUND", "MISSING"} : InventoryReport(i, a, result)
             \/ RequestReconcile(i) \/ ApproveReconcile(i) \/ ApplyReconcile(i)
      PROVE  Kept(i) /\ \A j \in Inventories \ {i} : inventory'[j] = inventory[j]
    <2>1. \A j \in Inventories \ {i} : inventory'[j] = inventory[j]
        BY <1>0, <1>1 DEF InventoryStart, InventorySaveStart, InventoryCancel, InventoryReport, ReportUnexpected,
              InventorySaveReport, InventoryClose, InventorySaveClose, RequestReconcile, ApproveReconcile, ApplyReconcile
    <2>2. ASSUME NEW scope \in SUBSET Centers, InventoryStart(i, scope) PROVE Kept(i)
        BY <1>0, <2>2 DEF InventoryStart, InventoryRecord, InventoryShape
    <2>3. CASE InventorySaveStart(i)
        BY <1>0, <2>3 DEF InventorySaveStart, InventoryRecord, InventoryShape
    <2>4. CASE InventoryCancel(i) \/ InventoryClose(i)
        <3>1. CASE InventoryCancel(i)
            BY <1>0, <3>1 DEF InventoryCancel, InventoryRecord, InventoryShape
        <3>2. CASE InventoryClose(i)
            BY <1>0, <3>2 DEF InventoryClose, InventoryRecord, InventoryShape
        <3> QED
            BY <2>4, <3>1, <3>2
    <2>5. CASE InventorySaveClose(i)
        BY <1>0, <2>5 DEF InventorySaveClose, InventoryRecord, InventoryShape
    <2>6. ASSUME NEW a \in Assets, ReportUnexpected(i, a) \/ \E result \in {"FOUND", "MISSING"} : InventoryReport(i, a, result)
          PROVE  Kept(i)
        BY <1>0, <2>6 DEF ReportUnexpected, InventoryReport, InventoryRecord, InventoryShape
    <2>7. ASSUME NEW a \in Assets, InventorySaveReport(i, a) PROVE Kept(i)
        BY <1>0, <2>7 DEF InventorySaveReport, InventoryRecord, InventoryShape
    <2>8. CASE RequestReconcile(i) \/ ApproveReconcile(i) \/ ApplyReconcile(i)
        <3>1. CASE RequestReconcile(i)
            BY <1>0, <3>1 DEF RequestReconcile, InventoryRecord, InventoryShape
        <3>2. CASE ApproveReconcile(i)
            <4>1. PICK S : inventory[i].status = "CLOSED" /\ inventory' = [inventory EXCEPT ![i].approving = TRUE, ![i].losing = S]
                BY <3>2 DEF ApproveReconcile
            <4> QED
                BY <1>0, <4>1 DEF InventoryRecord, InventoryShape
        <3>3. CASE ApplyReconcile(i)
            <4>1. inventory[i].approving /\ inventory' = [inventory EXCEPT ![i].status = "RECONCILED", ![i].approving = FALSE, ![i].losing = {}]
                BY <3>3 DEF ApplyReconcile
            <4> QED
                BY <1>0, <4>1, <3>3 DEF InventoryRecord, InventoryShape
        <3> QED
            BY <2>8, <3>1, <3>2, <3>3
    <2> QED
        BY <1>1, <2>1, <2>2, <2>3, <2>4, <2>5, <2>6, <2>7, <2>8
<1>2. CASE InventoryNext
    <2>1. \A i \in Inventories : Kept(i)
        <3>1. PICK i \in Inventories : Kept(i) /\ \A j \in Inventories \ {i} : inventory'[j] = inventory[j]
            BY <1>1, <1>2 DEF InventoryNext
        <3> QED
            BY <3>1 DEF InventoryShape
    <2>2. ASSUME NEW i \in Inventories, ApplyReconcile(i) PROVE inventory'[i].status = "RECONCILED"
        BY <1>0, <2>2 DEF ApplyReconcile, InventoryRecord
    <2> QED
        BY <2>1, <2>2 DEF InventoryShape, NoneReconciled
<1>3. CASE UNCHANGED inventory
    <2>1. ASSUME NEW i \in Inventories, ApplyReconcile(i) PROVE inventory'[i].status = "RECONCILED"
        BY <1>0, <2>1 DEF ApplyReconcile, InventoryRecord
    <2> QED
        BY <1>3, <2>1 DEF InventoryShape, NoneReconciled
<1>4. LoanNext => UNCHANGED inventory
    BY DEF LoanNext, LoanCreate, LoanApprove, LoanReject, LoanCancel, LoanDeliver, RegenerateDeliveryAct, UndoDelivery,
          UndoFindsNoActa, UndoLocksLoan, StartReturn, ReceiveReturn, MarkOverdue, RequestExtension, ApproveExtension,
          RejectExtension, LoanActaGenerated, LoanActaSigned, LoanActaRejected, ReturnActa, loanOthers, processVars
<1>5. TransferNext => UNCHANGED inventory
    BY DEF TransferNext, TransferCreate, TransferUpdateItems, TransferGenerate, TransferActaGenerated,
          TransferActaSigned, TransferActaRejected, TransferCancelChecks, TransferCancelVoids,
          TransferCancelFindsNoActa, TransferCancelLocks, TransferCancelRefused, processVars, transferOthers
<1>6. WriteOffNext => UNCHANGED inventory
    BY DEF WriteOffNext, WriteOffCreate, WriteOffUpdate, WriteOffGenerate, WriteOffActaGenerated,
          WriteOffActaSigned, WriteOffActaRejected, WriteOffCancelChecks, WriteOffCancelCloses, processVars, writeOffOthers
<1>7. HandoverNext => UNCHANGED inventory
    BY DEF HandoverNext, HandoverCreate, HandoverActaGenerated, HandoverActaSigned, HandoverActaRejected,
          HandoverCancel, handoverOthers
<1>8. RequestNext => UNCHANGED inventory
    BY RequestFrame
<1>9. EditNext \/ (\E k \in Actas : FirstSignature(k)) \/ UNCHANGED vars => UNCHANGED inventory
    BY DEF EditNext, ChangeStatus, WriteOffAsset, ApplyEdit, EditRefused, FirstSignature, vars, processVars
<1> QED
    BY <1>2, <1>3, <1>4, <1>5, <1>6, <1>7, <1>8, <1>9 DEF Next

\* The guards of direct edits, handovers, transfers and write-offs, which look
\* at the status: as long as no inventory is reconciled (applyLost has no guard)
\* an asset that is out stays ON_LOAN.
THEOREM CustodyOutIsOnLoan == Spec => []OutIsOnLoan
<1> DEFINE AllOut == \A a \in Assets : OutIn(a) # {} => assetStatus[a] = "ON_LOAN"
           Inv == LoanShape /\ EditShape /\ InventoryShape /\ (NoneReconciled => AllOut)
<1>1. Init => Inv
    BY DEF Init, LoanShape, EditShape, InventoryShape, NoLoan, NoEdit, Planned, Loanable, OutIn, LoanOutStatus
<1>2. ASSUME TypeOK, OneOpenLoan, Inv, [Next]_vars PROVE Inv'
    <2>1. LoanShape' /\ EditShape' /\ ((\E i \in Inventories : ApplyReconcile(i)) \/ OutHeld)
        BY <1>2, LoanKeeps, EditKeeps, OthersKeep DEF Next, EditShape, OutStays
    <2>2. InventoryShape' /\ (NoneReconciled' => NoneReconciled /\ ~\E i \in Inventories : ApplyReconcile(i))
        BY <1>2, ReconciledStays
    <2>3. NoneReconciled' => AllOut'
        BY <1>2, <2>1, <2>2 DEF OutHeld
    <2> QED
        BY <2>1, <2>2, <2>3
<1>3. Inv => OutIsOnLoan
    BY DEF OutIsOnLoan, NoneReconciled
<1> QED
    BY <1>1, <1>2, <1>3, TypesAndTargets, CustodyOneOpenLoan, PTL DEF Spec

\* decisiones.md 5a: an asset that is and stays ON_LOAN keeps its cost center
\* and its responsible person.  Only signed transfers and handovers write
\* them, and both look at the status of the asset when they are signed.
THEOREM CustodyOnLoanKept == Spec => OnLoanKeepsCustody
<1> DEFINE Kept == \A a \in Assets : assetStatus[a] = "ON_LOAN" /\ assetStatus'[a] = "ON_LOAN" =>
                       assetCenter'[a] = assetCenter[a] /\ responsible'[a] = responsible[a]
<1>1. ASSUME TypeOK, TargetsAreKnown, [Next]_vars PROVE Kept
    <2>1. ASSUME NEW k \in Actas, TransferActaSigned(k), NEW a \in Assets, assetStatus[a] = "ON_LOAN"
          PROVE  assetCenter'[a] = assetCenter[a]
        BY <2>1 DEF TransferActaSigned, TransferItems, Immovable
    <2>2. ASSUME NEW k \in Actas, HandoverActaSigned(k), NEW a \in Assets, assetStatus[a] = "ON_LOAN"
          PROVE  responsible'[a] = responsible[a]
        BY <1>1, <2>2 DEF HandoverActaSigned, StillDeliverable, Immovable, TypeOK
    <2>3. UNCHANGED assetCenter \/ \E k \in Actas : TransferActaSigned(k)
        BY <1>1, Steps
    <2>4. UNCHANGED responsible \/ \E k \in Actas : HandoverActaSigned(k)
        <3>1. LoanNext => UNCHANGED responsible
            BY DEF LoanNext, LoanCreate, LoanApprove, LoanReject, LoanCancel, LoanDeliver, LoanActaGenerated, LoanActaSigned,
                  LoanActaRejected, ReturnActa, RegenerateDeliveryAct, UndoDelivery, UndoFindsNoActa, UndoLocksLoan,
                  StartReturn, ReceiveReturn, MarkOverdue, RequestExtension, ApproveExtension, RejectExtension, assetVars
        <3>2. TransferNext => UNCHANGED responsible
            BY DEF TransferNext, TransferCreate, TransferUpdateItems, TransferGenerate, TransferActaGenerated,
                  TransferActaSigned, TransferActaRejected, TransferCancelChecks, TransferCancelVoids,
                  TransferCancelFindsNoActa, TransferCancelLocks, TransferCancelRefused, assetVars
        <3>3. WriteOffNext => UNCHANGED responsible
            BY DEF WriteOffNext, WriteOffCreate, WriteOffUpdate, WriteOffGenerate, WriteOffActaGenerated,
                  WriteOffActaSigned, WriteOffActaRejected, WriteOffCancelChecks, WriteOffCancelCloses, assetVars
        <3>4. HandoverNext => UNCHANGED responsible \/ \E k \in Actas : HandoverActaSigned(k)
            BY DEF HandoverNext, HandoverCreate, HandoverActaGenerated, HandoverActaRejected, HandoverCancel, assetVars
        <3>5. RequestNext => UNCHANGED responsible
            BY RequestFrame
        <3>6. InventoryNext => UNCHANGED responsible
            BY DEF InventoryNext, InventoryStart, InventorySaveStart, InventoryCancel, InventoryReport, ReportUnexpected,
                  InventorySaveReport, InventoryClose, InventorySaveClose, RequestReconcile, ApproveReconcile,
                  ApplyReconcile, assetVars
        <3>7. EditNext \/ (\E k \in Actas : FirstSignature(k)) \/ UNCHANGED vars => UNCHANGED responsible
            BY DEF EditNext, ChangeStatus, WriteOffAsset, ApplyEdit, EditRefused, FirstSignature, vars, assetVars
        <3> QED
            BY <1>1, <3>1, <3>2, <3>3, <3>4, <3>5, <3>6, <3>7 DEF Next
    <2> QED
        BY <2>1, <2>2, <2>3, <2>4
<1>2. ASSUME TypeOK, TargetsAreKnown, [Next]_vars PROVE [Kept]_vars
    BY <1>1, <1>2
<1> QED
    BY <1>2, TypesAndTargets, PTL DEF Spec, OnLoanKeepsCustody

\* assertItems, when the acta of a transfer is signed: an asset that an open
\* inventory lists does not change its cost center.
THEOREM CustodyCountedStaysPut == Spec => CountedStaysPut
<1> DEFINE Stays == \A a \in Assets : HeldByInventory(a) => assetCenter'[a] = assetCenter[a]
<1>1. ASSUME TypeOK, TargetsAreKnown, [Next]_vars PROVE [Stays]_vars
    <2>1. ASSUME NEW k \in Actas, TransferActaSigned(k), NEW a \in Assets, HeldByInventory(a)
          PROVE  assetCenter'[a] = assetCenter[a]
        BY <2>1 DEF TransferActaSigned, TransferItems
    <2>2. UNCHANGED assetCenter \/ \E k \in Actas : TransferActaSigned(k)
        BY <1>1, Steps
    <2> QED
        BY <2>1, <2>2
<1> QED
    BY <1>1, TypesAndTargets, PTL DEF Spec, CountedStaysPut

=============================================================================
