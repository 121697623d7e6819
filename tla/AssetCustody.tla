---------------------------- MODULE AssetCustody ----------------------------
(***************************************************************************)
(* The state the asset processes share: the assets (where they are, who    *)
(* answers for them, their operational status), the loans, transfers,      *)
(* write-offs, handovers, requests and physical inventories that hold      *)
(* them, and the actas those processes send to be signed.  The process     *)
(* modules extend this one; CustodySystem composes them.                   *)
(*                                                                         *)
(* A transaction that locks the rows it checks is one action.  Values a    *)
(* handler reads without a lock and uses later are kept in "cancelling",   *)
(* "edit" or the fields of the inventory itself.                           *)
(*                                                                         *)
(* Who acts (permissions, scopes, separation of duties) and dates are not  *)
(* modelled: an operation that depends on them may or may not happen.      *)
(***************************************************************************)
EXTENDS Naturals, FiniteSets

CONSTANTS
    Assets, Centers, Persons,
    Loans, Transfers, WriteOffs, Handovers, Requests, Inventories,
    Actas,      \* identifiers of actas: bounds how many are requested
    Editors,    \* requests that edit an asset directly
    None

Processes == Loans \cup Transfers \cup WriteOffs \cup Handovers

ASSUME NoneAssumption == None \notin Persons \cup Centers \cup Actas \cup Requests \cup Processes
ASSUME DistinctProcesses ==
    /\ Loans \cap (Transfers \cup WriteOffs \cup Handovers) = {}
    /\ Transfers \cap (WriteOffs \cup Handovers) = {}
    /\ WriteOffs \cap Handovers = {}

VARIABLES
    assetStatus,   \* asset.operational_status
    assetCenter,   \* asset.current_cost_center_id
    responsible,   \* asset.current_responsible_id
    loan, transfer, writeOff, handover, request, inventory,
    acta,          \* document_request and the document it generates
    cancelling,    \* how far the cancellation of a process has gone
    edit           \* what a direct edit has read and has still to write

assetVars == <<assetStatus, assetCenter, responsible>>
processVars == <<loan, transfer, writeOff, handover, request, inventory>>
vars == <<assetVars, processVars, acta, cancelling, edit>>

-----------------------------------------------------------------------------
(* Types.                                                                  *)

OperationalStatus == {"IN_USE", "IN_STORAGE", "IN_MAINTENANCE", "ON_LOAN", "LOST", "WRITTEN_OFF"}

\* IN_TRANSIT is in the enum and no operation produces it.
LoanStatus == {"NONE", "REQUESTED", "APPROVED", "REJECTED", "PENDING_SIGNATURES", "ACTIVE", "OVERDUE",
               "PENDING_RECEPTION", "RETURNED", "PARTIALLY_RETURNED", "CLOSED_WITH_LOSSES", "CANCELLED"}
OpenLoanStatus == {"REQUESTED", "APPROVED", "PENDING_SIGNATURES", "ACTIVE", "OVERDUE",
                   "PENDING_RECEPTION", "PARTIALLY_RETURNED"}
LoanOutStatus == {"PENDING_SIGNATURES", "ACTIVE", "OVERDUE", "PENDING_RECEPTION", "PARTIALLY_RETURNED"}

\* Transfers and write-offs share their statuses.
ActStatus == {"NONE", "DRAFT", "PENDING_SIGNATURES", "COMPLETED", "REJECTED", "CANCELLED"}
HandoverStatus == {"NONE", "AWAITING_DOCUMENT", "PENDING_SIGNATURE", "SIGNED", "REJECTED", "CANCELLED"}
RequestStatus == {"NONE", "REQUESTED", "ACCEPTED", "CLOSED_BY_OWNER", "RETURNED", "LOAN_SCHEDULED",
                  "DOCUMENT_GENERATED", "CLOSED_LOAN_REJECTED", "CLOSED_LOAN_CANCELLED", "CANCELLED", "EXPIRED"}
InventoryStatus == {"PLANNED", "IN_PROGRESS", "CLOSED", "RECONCILED", "CANCELLED"}
ItemResult == {"OUT", "PENDING", "FOUND", "MISSING", "SURPLUS", "NOT_VERIFIED"}

\* QUEUED: the request is PENDING or FAILED and has no document yet.
ActaStatus == {"NONE", "QUEUED", "PENDING_SIGNATURE", "SIGNED", "REJECTED", "VOIDED", "CANCELLED"}

\* "items" are the rows of the process, "open" those that still hold their
\* asset.  "back" is status_on_loan, "condition" return_condition (GOOD also
\* stands for DAMAGED), "received" the items with received_at.
LoanRecord == [status : LoanStatus, items : SUBSET Assets, source : Centers \cup {None},
               back : [Assets -> OperationalStatus], condition : [Assets -> {"NONE", "GOOD", "LOST"}],
               received : SUBSET Assets, delivered : BOOLEAN, document : Actas \cup {None},
               extension : BOOLEAN, request : Requests \cup {None}]
TransferRecord == [status : ActStatus, items : SUBSET Assets, open : SUBSET Assets,
                   source : Centers \cup {None}, target : Centers \cup {None}, document : Actas \cup {None}]
WriteOffRecord == [status : ActStatus, items : SUBSET Assets, open : SUBSET Assets, document : Actas \cup {None}]
HandoverRecord == [status : HandoverStatus, items : SUBSET Assets, open : SUBSET Assets,
                   center : Centers \cup {None}, document : Actas \cup {None}]
RequestRecord == [status : RequestStatus, kind : {"TEMPORARY", "PERMANENT"}, owner : Centers \cup {None},
                  requesting : Centers \cup {None}, open : SUBSET Assets,
                  loan : Loans \cup {None}, transfer : Transfers \cup {None}]
\* "starting", "reporting", "closing" and "approving" are requests that have
\* made their checks and have still to write.
InventoryRecord == [status : InventoryStatus, result : [Assets -> ItemResult], requested : BOOLEAN,
                    starting : BOOLEAN, snapshot : SUBSET Assets, reporting : [Assets -> ItemResult],
                    closing : BOOLEAN, approving : BOOLEAN, losing : SUBSET Assets]
\* MAIN is the acta the process lives by, RETURN the acta of a loan's return.
ActaRecord == [status : ActaStatus, owner : Processes \cup {None}, kind : {"MAIN", "RETURN"}, signed : BOOLEAN]
EditRecord == [op : {"none", "changeStatus", "writeOff"}, asset : Assets \cup {None},
               from : OperationalStatus, to : OperationalStatus]

NoLoan == [status |-> "NONE", items |-> {}, source |-> None, back |-> [a \in Assets |-> "IN_USE"],
           condition |-> [a \in Assets |-> "NONE"], received |-> {}, delivered |-> FALSE,
           document |-> None, extension |-> FALSE, request |-> None]
NoTransfer == [status |-> "NONE", items |-> {}, open |-> {}, source |-> None, target |-> None, document |-> None]
NoWriteOff == [status |-> "NONE", items |-> {}, open |-> {}, document |-> None]
NoHandover == [status |-> "NONE", items |-> {}, open |-> {}, center |-> None, document |-> None]
NoRequest == [status |-> "NONE", kind |-> "TEMPORARY", owner |-> None, requesting |-> None, open |-> {},
              loan |-> None, transfer |-> None]
Planned == [status |-> "PLANNED", result |-> [a \in Assets |-> "OUT"], requested |-> FALSE,
            starting |-> FALSE, snapshot |-> {}, reporting |-> [a \in Assets |-> "OUT"],
            closing |-> FALSE, approving |-> FALSE, losing |-> {}]
NoActa == [status |-> "NONE", owner |-> None, kind |-> "MAIN", signed |-> FALSE]
NoEdit == [op |-> "none", asset |-> None, from |-> "IN_USE", to |-> "IN_USE"]

TypeOK ==
    /\ assetStatus \in [Assets -> OperationalStatus]
    /\ assetCenter \in [Assets -> Centers]
    /\ responsible \in [Assets -> Persons \cup {None}]
    /\ loan \in [Loans -> LoanRecord]
    /\ transfer \in [Transfers -> TransferRecord]
    /\ writeOff \in [WriteOffs -> WriteOffRecord]
    /\ handover \in [Handovers -> HandoverRecord]
    /\ request \in [Requests -> RequestRecord]
    /\ inventory \in [Inventories -> InventoryRecord]
    /\ acta \in [Actas -> ActaRecord]
    /\ cancelling \in [Loans \cup Transfers \cup WriteOffs -> {"no", "checked", "voided"}]
    /\ edit \in [Editors -> EditRecord]

\* New assets are IN_USE, in some cost center, assigned to somebody or to nobody.
Init ==
    /\ assetStatus = [a \in Assets |-> "IN_USE"]
    /\ assetCenter \in [Assets -> Centers]
    /\ responsible \in [Assets -> Persons \cup {None}]
    /\ loan = [l \in Loans |-> NoLoan]
    /\ transfer = [t \in Transfers |-> NoTransfer]
    /\ writeOff = [w \in WriteOffs |-> NoWriteOff]
    /\ handover = [h \in Handovers |-> NoHandover]
    /\ request = [r \in Requests |-> NoRequest]
    /\ inventory = [i \in Inventories |-> Planned]
    /\ acta = [k \in Actas |-> NoActa]
    /\ cancelling = [p \in Loans \cup Transfers \cup WriteOffs |-> "no"]
    /\ edit = [e \in Editors |-> NoEdit]

-----------------------------------------------------------------------------
(* What holds an asset (asset-holds.ts).  "except" is the process itself.  *)

\* Mutant: reserves nothing until the delivery.
HeldByDeliveredLoan(a) ==
    \E l \in Loans : loan[l].status \in LoanOutStatus /\ a \in loan[l].items \ loan[l].received

HeldByLoan(a) ==
    \E l \in Loans : loan[l].status \in OpenLoanStatus /\ a \in loan[l].items \ loan[l].received
HeldByTransfer(a, except) == \E t \in Transfers \ {except} : a \in transfer[t].open
HeldByWriteOff(a, except) == \E w \in WriteOffs \ {except} : a \in writeOff[w].open
HeldByHandover(a) == \E h \in Handovers : a \in handover[h].open
HeldByRequest(a, except) == \E r \in Requests \ {except} : a \in request[r].open
HeldByInventory(a) ==
    \E i \in Inventories : inventory[i].status \in {"PLANNED", "IN_PROGRESS"} /\ inventory[i].result[a] # "OUT"

Loanable == {"IN_USE", "IN_STORAGE"}
Immovable == {"WRITTEN_OFF", "ON_LOAN"}

-----------------------------------------------------------------------------
(* The document engine, as the processes use it: DocumentSigning models    *)
(* the inside.  An owner's callback runs in the transaction that generates *)
(* or closes its acta; if it throws, the acta stays as it was.             *)

ActasOf(p) == {k \in Actas : acta[k].owner = p}
LiveActas(p) == {k \in ActasOf(p) : acta[k].status \in {"QUEUED", "PENDING_SIGNATURE"}}
SignedActas(p) == {k \in ActasOf(p) : acta[k].status = "SIGNED"}

Enqueue(k, p, kind) ==
    /\ acta[k].status = "NONE"
    /\ acta' = [acta EXCEPT ![k] = [status |-> "QUEUED", owner |-> p, kind |-> kind, signed |-> FALSE]]

\* voidForEntity: it throws when an acta of the process is SIGNED.
VoidForEntity(p) ==
    /\ SignedActas(p) = {}
    /\ acta' = [k \in Actas |->
                  IF acta[k].owner # p THEN acta[k]
                  ELSE CASE acta[k].status = "QUEUED" -> [acta[k] EXCEPT !.status = "CANCELLED"]
                         [] acta[k].status = "PENDING_SIGNATURE" -> [acta[k] EXCEPT !.status = "VOIDED"]
                         [] OTHER -> acta[k]]

Generates(k) ==
    /\ acta[k].status = "QUEUED"
    /\ acta' = [acta EXCEPT ![k].status = "PENDING_SIGNATURE"]

ClosesSigned(k) ==
    /\ acta[k].status = "PENDING_SIGNATURE"
    /\ acta[k].signed
    /\ acta' = [acta EXCEPT ![k].status = "SIGNED"]

ClosesRejected(k) ==
    /\ acta[k].status = "PENDING_SIGNATURE"
    /\ acta' = [acta EXCEPT ![k].status = "REJECTED"]

\* A signature of the acta is recorded; the acta may need more.
FirstSignature(k) ==
    /\ acta[k].status = "PENDING_SIGNATURE"
    /\ ~acta[k].signed
    /\ acta' = [acta EXCEPT ![k].signed = TRUE]
    /\ UNCHANGED <<assetVars, processVars, cancelling, edit>>

-----------------------------------------------------------------------------
(* Direct edits of an asset: the checks are read without a lock, the write *)
(* locks the asset and runs its guard on the row as it is then.            *)

StatusTransitions == [s \in OperationalStatus |->
    CASE s \in Loanable -> {"IN_USE", "IN_STORAGE", "IN_MAINTENANCE", "LOST"} \ {s}
      [] s = "IN_MAINTENANCE" -> {"IN_USE", "IN_STORAGE"}
      [] s = "LOST" -> {"IN_USE", "IN_STORAGE", "IN_MAINTENANCE"}
      [] OTHER -> {}]

ChangeStatus(e, a, to) ==
    /\ edit[e].op = "none"
    /\ assetStatus[a] \notin Immovable
    /\ ~HeldByInventory(a)
    /\ ~HeldByWriteOff(a, None)
    /\ to \in StatusTransitions[assetStatus[a]]
    /\ edit' = [edit EXCEPT ![e] = [op |-> "changeStatus", asset |-> a, from |-> assetStatus[a], to |-> to]]
    /\ UNCHANGED <<assetVars, processVars, acta, cancelling>>

WriteOffAsset(e, a) ==
    /\ edit[e].op = "none"
    /\ assetStatus[a] \notin Immovable
    /\ ~HeldByInventory(a)
    /\ ~HeldByLoan(a)
    /\ ~HeldByWriteOff(a, None)
    /\ edit' = [edit EXCEPT ![e] = [op |-> "writeOff", asset |-> a, from |-> assetStatus[a], to |-> "WRITTEN_OFF"]]
    /\ UNCHANGED <<assetVars, processVars, acta, cancelling>>

\* Mutant: only WRITTEN_OFF is refused when the edit is written.
EditGuardOfWriteOff(e) == assetStatus[edit[e].asset] # "WRITTEN_OFF"

EditGuard(e) ==
    /\ assetStatus[edit[e].asset] \notin Immovable
    /\ edit[e].op = "changeStatus" => assetStatus[edit[e].asset] = edit[e].from

ApplyEdit(e) ==
    /\ edit[e].op # "none"
    /\ EditGuard(e)
    /\ assetStatus' = [assetStatus EXCEPT ![edit[e].asset] = edit[e].to]
    /\ edit' = [edit EXCEPT ![e] = NoEdit]
    /\ UNCHANGED <<assetCenter, responsible, processVars, acta, cancelling>>

EditRefused(e) ==
    /\ edit[e].op # "none"
    /\ ~EditGuard(e)
    /\ edit' = [edit EXCEPT ![e] = NoEdit]
    /\ UNCHANGED <<assetVars, processVars, acta, cancelling>>

=============================================================================
