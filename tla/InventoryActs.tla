----------------------------- MODULE InventoryActs -----------------------------
(***************************************************************************)
(* The same inventory from its start to its acts, for a scope that is not  *)
(* one cost center: the things found that nobody expected (surplus), which *)
(* may be registered as assets, and one act for each cost center with      *)
(* items.  InventoriesService and InventoryCorrectionsService read and     *)
(* check first and save whole rows later; InventorySurplusService,         *)
(* InventorySignerHeadService.assign and InventoryActService.retryEnqueue  *)
(* lock.  What verifyAsset, reportNotFound and correct write (results of   *)
(* expected assets, whose cost center is fixed at the start) is left to    *)
(* InventoryProcess.                                                       *)
(***************************************************************************)
EXTENDS InventorySchedule

CONSTANTS
    Surpluses, Centers, NoCenter, Users,
    SingleHead           \* the cost centers with one head, who signs; for the others somebody is assigned

ASSUME ActsAssumption == NoCenter \notin Centers /\ SingleHead \subseteq Centers

VARIABLES
    expected,      \* the cost centers of the assets in scope, none for a scope without assets
    surplus,       \* physical_inventory_item, those of result SURPLUS without an asset
    assetAt,       \* the cost center of the asset that a surplus was registered as
    act,           \* physical_inventory_act
    saving,        \* what an operation under way has read
    requests,      \* document_request of each act that nobody has generated
    registered,    \* how many assets were created for each surplus
    documents,     \* how many documents each act got
    overwritten,   \* rows that somebody saved over a newer version
    approved,      \* an approval has committed
    disturbed      \* surplus that changed during an approval or after it

actsOnly == <<expected, surplus, assetAt, act, saving, requests, registered, documents, overwritten, approved, disturbed>>

campaignVars == <<scheduleVars, actsOnly>>

SurplusRecord == [status : {"NONE", "LIVE", "VOIDED"}, center : Centers \cup {NoCenter},
                  created : BOOLEAN]

ActRecord == [there : BOOLEAN, signer : BOOLEAN, generation : {"NONE", "NOT_ENQUEUED", "ENQUEUED"},
              lists : SUBSET Surpluses, document : BOOLEAN]

NoSurplus == [status |-> "NONE", center |-> NoCenter, created |-> FALSE]

NoAct == [there |-> FALSE, signer |-> FALSE, generation |-> "NONE", lists |-> {}, document |-> FALSE]

Idle == [op |-> "idle", read |-> {}, item |-> {}, copy |-> NoSurplus, was |-> {}, staged |-> {}]

ActsTypeOK ==
    /\ expected \subseteq Centers /\ approved \in BOOLEAN
    /\ surplus \in [Surpluses -> SurplusRecord]
    /\ assetAt \in [Surpluses -> Centers \cup {NoCenter}]
    /\ act \in [Centers -> ActRecord]
    /\ saving \in [Users -> [op : {"idle", "report", "void", "category", "close", "request", "approve", "asking"},
                             read : SUBSET Campaign, item : SUBSET Surpluses, copy : SurplusRecord,
                             was : SUBSET [Centers -> ActRecord], staged : SUBSET [Centers -> ActRecord]]]
    /\ requests \in [Centers -> Nat] /\ documents \in [Centers -> Nat] /\ registered \in [Surpluses -> Nat]
    /\ overwritten \subseteq Surpluses \cup Centers
    /\ disturbed \subseteq Surpluses
    /\ \A c \in Centers : act[c].document => act[c].generation = "ENQUEUED" /\ documents[c] > 0

ActsInit ==
    /\ expected \in SUBSET Centers
    /\ surplus = [s \in Surpluses |-> NoSurplus]
    /\ assetAt = [s \in Surpluses |-> NoCenter]
    /\ act = [c \in Centers |-> NoAct]
    /\ saving = [u \in Users |-> Idle]
    /\ requests = [c \in Centers |-> 0]
    /\ registered = [s \in Surpluses |-> 0]
    /\ documents = [c \in Centers |-> 0]
    /\ overwritten = {}
    /\ approved = FALSE
    /\ disturbed = {}

-----------------------------------------------------------------------------
(* What the rows say.                                                      *)

\* ITEM_ACT_CENTER_SQL
ActCenter(rows, at, s) == IF rows[s].created THEN at[s] ELSE rows[s].center

Live(rows) == {s \in Surpluses : rows[s].status = "LIVE"}

\* centersOf
CentersOf(rows, at) == expected \cup ({ActCenter(rows, at, s) : s \in Live(rows)} \ {NoCenter})

\* assertNoUnassignedSurplus
NoneUnassigned == \A s \in Live(surplus) : ActCenter(surplus, assetAt, s) # NoCenter

ListedAt(c) == {s \in Live(surplus) : ActCenter(surplus, assetAt, s) = c}

NewAct(c) == [NoAct EXCEPT !.there = TRUE, !.signer = c \in SingleHead]

\* Mutation: the acts stay as they are.
SyncedNever(centers) == act

\* sync deletes the acts not asked for whose center has no items any more and
\* adds the missing ones.
Synced(centers) ==
    [c \in Centers |->
        IF act[c].there /\ act[c].generation # "ENQUEUED" /\ c \notin centers THEN NoAct
        ELSE IF ~act[c].there /\ c \in centers THEN NewAct(c) ELSE act[c]]

\* tryEnqueue
Asked(row, c, ready) ==
    IF ready /\ row.signer THEN [row EXCEPT !.generation = "ENQUEUED", !.lists = ListedAt(c)]
    ELSE [row EXCEPT !.generation = "NOT_ENQUEUED"]

\* An approval has looked at the items, whether it found acts to ask for or none.
ApprovalBegun == approved \/ \E u \in Users : saving[u].op = "asking"

Disturbs(s) == disturbed' = IF ApprovalBegun THEN disturbed \cup {s} ELSE disturbed

-----------------------------------------------------------------------------
(* reportUnexpected, voidSurplus and setFindingCategory.                   *)

ItemReads(u, op, s) ==
    /\ campaign.status = "IN_PROGRESS"
    /\ saving[u].op = "idle"
    /\ IF op = "report"
       THEN surplus[s].status = "NONE" /\ \A other \in Users : s \notin saving[other].item
       ELSE surplus[s].status = "LIVE"
    /\ saving' = [saving EXCEPT ![u] = [Idle EXCEPT !.op = op, !.item = {s}, !.copy = surplus[s]]]
    /\ UNCHANGED <<scheduleVars, expected, approved, surplus, assetAt, act, requests, registered, documents, overwritten, disturbed>>

SavedItem(u) == IF saving[u].op = "category" THEN saving[u].copy
                ELSE [saving[u].copy EXCEPT !.status = IF saving[u].op = "void" THEN "VOIDED" ELSE "LIVE"]

ItemSaves(u) ==
    /\ saving[u].op \in {"report", "void", "category"}
    /\ \E s \in saving[u].item :
         /\ surplus' = [surplus EXCEPT ![s] = SavedItem(u)]
         /\ assetAt' = IF SavedItem(u).created THEN assetAt ELSE [assetAt EXCEPT ![s] = NoCenter]
         /\ overwritten' = IF surplus[s] = saving[u].copy THEN overwritten ELSE overwritten \cup {s}
         /\ Disturbs(s)
    /\ saving' = [saving EXCEPT ![u] = Idle]
    /\ UNCHANGED <<scheduleVars, expected, approved, act, requests, registered, documents>>

-----------------------------------------------------------------------------
(* close, requestReconcile and approveReconcile.                           *)

SaveCampaign(u, status, requested) ==
    /\ \E read \in saving[u].read : campaign' = [read EXCEPT !.status = status, !.requested = requested]
    /\ UNCHANGED <<reminder, reminderWorker, starting, clock, reminderDeaths>>

OperationReads(u, op) ==
    /\ saving[u].op = "idle"
    /\ \/ op = "close" /\ campaign.status = "IN_PROGRESS"
       \/ op = "request" /\ campaign.status = "CLOSED" /\ ~campaign.requested /\ NoneUnassigned
       \/ op = "approve" /\ campaign.status = "CLOSED" /\ campaign.requested
    /\ saving' = [saving EXCEPT ![u] = [Idle EXCEPT !.op = op, !.read = {campaign}]]
    /\ UNCHANGED <<scheduleVars, expected, approved, surplus, assetAt, act, requests, registered, documents, overwritten, disturbed>>

\* applyOnClose; an act that is there already breaks the unique key.
CloseSaves(u) ==
    /\ saving[u].op = "close"
    /\ \A c \in CentersOf(surplus, assetAt) : ~act[c].there
    /\ act' = Synced(CentersOf(surplus, assetAt))
    /\ SaveCampaign(u, "CLOSED", FALSE)
    /\ saving' = [saving EXCEPT ![u] = Idle]
    /\ UNCHANGED <<expected, approved, surplus, assetAt, requests, registered, documents, overwritten, disturbed>>

\* The row is saved as it was read, status included.
RequestSaves(u) ==
    /\ saving[u].op = "request"
    /\ SaveCampaign(u, "CLOSED", TRUE)
    /\ saving' = [saving EXCEPT ![u] = Idle]
    /\ UNCHANGED <<expected, approved, surplus, assetAt, act, requests, registered, documents, overwritten, disturbed>>

\* enqueueOnApproval: in its transaction an approval brings the acts up to date
\* and asks for those that nobody has asked for yet (its reads, one statement
\* each, are one step here), ...
ApproveAsks(u, ready) ==
    /\ saving[u].op = "approve"
    /\ NoneUnassigned
    /\ saving' = [saving EXCEPT ![u].op = "asking", ![u].was = {act},
          ![u].staged = {[c \in Centers |->
              LET row == Synced(CentersOf(surplus, assetAt))[c]
              IN  IF row.there /\ row.generation # "ENQUEUED" THEN Asked(row, c, c \in ready) ELSE row]}]
    /\ UNCHANGED <<scheduleVars, expected, approved, surplus, assetAt, act, requests, registered, documents, overwritten, disturbed>>

\* ... saves each of them as it read it, and commits.
ApproveCommits(u) ==
    /\ saving[u].op = "asking"
    /\ \E was \in saving[u].was, staged \in saving[u].staged :
         LET written == {c \in Centers : staged[c].there /\ was[c].generation # "ENQUEUED"}
             deleted == {c \in Centers : was[c].there /\ ~staged[c].there}
         IN  /\ \A c \in written : was[c].there \/ ~act[c].there
             /\ act' = [c \in Centers |-> IF c \in written \cup deleted THEN staged[c] ELSE act[c]]
             /\ requests' = [c \in Centers |->
                   IF c \in deleted THEN 0
                   ELSE IF c \in written /\ staged[c].generation = "ENQUEUED" THEN requests[c] + 1 ELSE requests[c]]
             /\ overwritten' = overwritten \cup {c \in written \cup deleted : act[c] # was[c]}
    /\ SaveCampaign(u, "RECONCILED", TRUE)
    /\ approved' = TRUE
    /\ saving' = [saving EXCEPT ![u] = Idle]
    /\ UNCHANGED <<expected, surplus, assetAt, registered, documents, disturbed>>

\* A unique key, a deadlock, or a surplus without a center: nothing is written.
OperationFails(u) ==
    /\ saving[u].op \in {"close", "approve", "asking"}
    /\ saving' = [saving EXCEPT ![u] = Idle]
    /\ UNCHANGED <<scheduleVars, expected, approved, surplus, assetAt, act, requests, registered, documents, overwritten, disturbed>>

-----------------------------------------------------------------------------
(* What is done under locks.                                               *)

\* Mutation: a surplus that is registered may be registered again.
ResolvableAgain(s) == surplus[s].status = "LIVE"

\* assertResolvable
Resolvable(s) == surplus[s].status = "LIVE" /\ ~surplus[s].created

\* setCenter and resolve: the item is locked, then the inventory FOR SHARE; the
\* other reads of the transaction, up to those of sync, are one step with its writes.
SetSurplus(s, row) ==
    /\ campaign.status = "CLOSED"
    /\ Resolvable(s)
    /\ surplus' = [surplus EXCEPT ![s] = row]
    /\ act' = Synced(CentersOf(surplus', assetAt'))
    /\ Disturbs(s)
    /\ UNCHANGED <<scheduleVars, expected, approved, saving, requests, documents, overwritten>>

\* A surplus that is left unresolved gets a center as well.
SetCenter(s, c) ==
    /\ assetAt' = assetAt
    /\ SetSurplus(s, [surplus[s] EXCEPT !.center = c])
    /\ UNCHANGED registered

CreateAsset(s, c) ==
    /\ assetAt' = [assetAt EXCEPT ![s] = c]
    /\ SetSurplus(s, [surplus[s] EXCEPT !.created = TRUE])
    /\ registered' = [registered EXCEPT ![s] = @ + 1]

\* assign
AssignSigner(c) ==
    /\ campaign.status \in {"CLOSED", "RECONCILED"}
    /\ act[c].there /\ act[c].generation # "ENQUEUED" /\ ~act[c].signer
    /\ act' = [act EXCEPT ![c].signer = TRUE]
    /\ UNCHANGED <<scheduleVars, expected, approved, surplus, assetAt, saving, requests, registered, documents, overwritten, disturbed>>

RetryEnqueue(c) ==
    /\ campaign.status = "RECONCILED"
    /\ act[c].there /\ act[c].generation # "ENQUEUED"
    /\ \E ready \in BOOLEAN : act' = [act EXCEPT ![c] = Asked(act[c], c, ready)]
    /\ requests' = IF act'[c].generation = "ENQUEUED" THEN [requests EXCEPT ![c] = @ + 1] ELSE requests
    /\ UNCHANGED <<scheduleVars, expected, approved, surplus, assetAt, saving, registered, documents, overwritten, disturbed>>

\* onGenerated
TakesDocument(c) == act[c].there /\ act[c].generation = "ENQUEUED" /\ ~act[c].document

\* The document engine generates what was asked for; a request that the act
\* refuses stays and fails.
ActGenerated(c) ==
    /\ requests[c] > 0
    /\ campaign.status = "RECONCILED"
    /\ TakesDocument(c)
    /\ act' = [act EXCEPT ![c].document = TRUE]
    /\ requests' = [requests EXCEPT ![c] = @ - 1]
    /\ documents' = [documents EXCEPT ![c] = @ + 1]
    /\ UNCHANGED <<scheduleVars, expected, approved, surplus, assetAt, saving, registered, overwritten, disturbed>>

\* A transfer takes the new asset to another cost center.
AssetTransferred(s, c) ==
    /\ surplus[s].created /\ assetAt[s] # c
    /\ assetAt' = [assetAt EXCEPT ![s] = c]
    /\ Disturbs(s)
    /\ UNCHANGED <<scheduleVars, expected, approved, surplus, act, saving, requests, registered, documents, overwritten>>

ActsNext ==
    \/ \E u \in Users :
         \/ \E s \in Surpluses, op \in {"report", "void", "category"} : ItemReads(u, op, s)
         \/ \E op \in {"close", "request", "approve"} : OperationReads(u, op)
         \/ ItemSaves(u) \/ CloseSaves(u) \/ RequestSaves(u) \/ ApproveCommits(u) \/ OperationFails(u)
         \/ \E ready \in SUBSET Centers : ApproveAsks(u, ready)
    \/ \E s \in Surpluses, c \in Centers : SetCenter(s, c) \/ CreateAsset(s, c) \/ AssetTransferred(s, c)
    \/ \E c \in Centers : AssignSigner(c) \/ RetryEnqueue(c) \/ ActGenerated(c)

CampaignInit == ScheduleInit /\ ActsInit

CampaignNext == (ScheduleNext /\ UNCHANGED actsOnly) \/ ActsNext

InventorySpec == CampaignInit /\ [][CampaignNext]_campaignVars

-----------------------------------------------------------------------------
(* Properties.                                                             *)

\* resolve: a surplus becomes an asset at most once, unless a save of the item
\* that had read it before took the resolution back.
RegisteredTwiceOnlyIfOverwritten == \A s \in Surpluses : registered[s] > 1 => s \in overwritten

\* onGenerated, retryEnqueue and enqueueOnApproval: an act gets at most one
\* document, unless an approval that had read the act before saved it again.
GeneratedTwiceOnlyIfOverwritten == \A c \in Centers : documents[c] > 1 => c \in overwritten

\* What saves of rows read earlier may do to an inventory, and no more: without
\* one, every surplus is one asset and every act one document.
ActsInv == ActsTypeOK /\ RegisteredTwiceOnlyIfOverwritten /\ GeneratedTwiceOnlyIfOverwritten

\* sync and assertNoUnassignedSurplus: in a reconciled inventory a surplus that
\* did not change during or after the approval is on the act of its center,
\* asked for or reported as not enqueued, and on no other.
SurplusIsListedOnce ==
    campaign.status = "RECONCILED" =>
        \A s \in Live(surplus) \ disturbed :
            \E c \in Centers :
                /\ c = ActCenter(surplus, assetAt, s) /\ act[c].there
                /\ act[c].generation \in {"NOT_ENQUEUED", "ENQUEUED"}
                /\ act[c].generation = "ENQUEUED" => s \in act[c].lists
                /\ \A d \in Centers \ {c} : s \notin act[d].lists
=============================================================================
