------------------------- MODULE MCInventoryCampaign -------------------------
(***************************************************************************)
(* An inventory for TLC.  One that has reminders is followed until it      *)
(* starts; one without (reminderOffsetsDays is []) is not rescheduled, its *)
(* day does not pass, and it is followed to the end.  Its scope has assets *)
(* of cost centers with one head, or none.                                 *)
(***************************************************************************)
EXTENDS InventoryActs

\* Users are interchangeable: the first idle one begins.
FirstIdleBegins ==
    \A u, v \in Users : saving[v].op = "idle" /\ saving'[v].op # "idle" /\ u < v => saving[u].op # "idle"

\* bound: an asset is transferred until it is late for an approval, not after.
TransfersEnd == \A s \in disturbed : surplus'[s] = surplus[s] => assetAt'[s] = assetAt[s]

\* bound: rows that a late save overwrites, and surplus late for an approval,
\* in one behaviour.
MaxRaces == 1

RacesBounded == Cardinality(overwritten') + Cardinality(disturbed') <= MaxRaces

MCCampaignNext ==
    /\ CampaignNext
    /\ IF campaign'.offsets = {}
       THEN clock' = 0 /\ campaign'.rev = 0 /\ campaign'.start = 0 /\ FirstIdleBegins /\ TransfersEnd /\ RacesBounded
       ELSE campaign'.status \in {"NONE", "PLANNED", "IN_PROGRESS", "CANCELLED"} /\ UNCHANGED actsOnly

\* bound: the scopes.
MCCampaignInit == CampaignInit /\ expected \subseteq SingleHead

CampaignSpec == MCCampaignInit /\ [][MCCampaignNext]_campaignVars /\ ScheduleFairness
=============================================================================
