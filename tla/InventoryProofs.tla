--------------------------- MODULE InventoryProofs ---------------------------
(***************************************************************************)
(* What an inventory keeps from its plan to its acts, for any number of    *)
(* days, changes of date, reminders and their workers, users, surplus and  *)
(* cost centers, and any number of late saves.                             *)
(***************************************************************************)
EXTENDS InventoryActs, FiniteSetTheorems, TLAPS

-----------------------------------------------------------------------------
(* The plan and its reminders.                                             *)

\* Nothing is planned before the inventory is, nor for dates it has not had.
PlansFit ==
    /\ campaign.status = "NONE" => campaign.rev = 0 /\ \A rev \in Revisions, o \in Offsets : reminder[rev].status[o] = "NONE"
    /\ campaign.status = "PLANNED" =>
         \A rev \in Revisions, o \in Offsets : rev > campaign.rev => reminder[rev].status[o] = "NONE"

\* What a processOne under way knows: its reminder is pending and nobody else
\* has it; the dates it sends for are in force, since whoever changes them waits.
WorkerFits(w) ==
    reminderWorker[w].pc # "idle" =>
        /\ reminderWorker[w].offset \in Offsets
        /\ reminder[reminderWorker[w].rev].status[reminderWorker[w].offset] = "PENDING"
        /\ \A v \in ReminderWorkers \ {w} :
             reminderWorker[v].pc # "idle" =>
               reminderWorker[v].rev # reminderWorker[w].rev \/ reminderWorker[v].offset # reminderWorker[w].offset
        /\ reminderWorker[w].pc = "SEND" =>
             campaign.status # "CANCELLED" /\ (campaign.status = "PLANNED" => reminderWorker[w].rev = campaign.rev)

\* The inductive invariant of the schedule.
ScheduleIInv == ScheduleTypeOK /\ PendingIsCurrent /\ PlansFit /\ \A w \in ReminderWorkers : WorkerFits(w)

\* What SentIsCurrent says of a step.
SendsFit ==
    \A rev \in Revisions, o \in Offsets :
        /\ reminder[rev].status[o] = "SENT" => reminder'[rev].status[o] = "SENT"
        /\ reminder[rev].status[o] # "SENT" /\ reminder'[rev].status[o] = "SENT" =>
             /\ campaign.status # "CANCELLED"
             /\ campaign.status = "PLANNED" => rev = campaign.rev

LEMMA Numbers == MaxDay \in Nat /\ MaxReschedules \in Nat /\ MaxReminderDeaths \in Nat /\ Offsets \subseteq Nat
BY ScheduleAssumption

Plan == [start : 0..MaxDay, status : [Offsets -> ReminderStatus]]

WorkerRow == [pc : {"idle", "claimed", "SKIPPED", "SUPERSEDED", "SEND"},
              rev : Revisions, offset : Offsets \cup {0}, now : 0..(2 * MaxDay + 1)]

\* planReminders
LEMMA PlanIsNew ==
    ASSUME NEW start \in 0..MaxDay, NEW offsets \in SUBSET Offsets
    PROVE  /\ PlanReminders(start, offsets) \in Plan /\ PlanReminders(start, offsets).start = start
           /\ \A o \in Offsets : PlanReminders(start, offsets).status[o] \in {"NONE", "SKIPPED", "PENDING"}
<1>1. PICK status : status = [o \in Offsets |-> IF o \notin offsets THEN "NONE"
                                                ELSE IF IsDue(start, o, clock) THEN "SKIPPED" ELSE "PENDING"]
    OBVIOUS
<1>2. status \in [Offsets -> {"NONE", "SKIPPED", "PENDING"}]
    BY <1>1
<1>3. PlanReminders(start, offsets) = [start |-> start, status |-> status]
    BY <1>1 DEF PlanReminders
<1> QED
    BY <1>2, <1>3 DEF Plan, ReminderStatus

\* supersede and cancelPending
LEMMA PlanEnds ==
    ASSUME ScheduleTypeOK, NEW rev \in Revisions, NEW status \in {"SUPERSEDED", "CANCELLED"}
    PROVE  /\ EndPending(rev, status) \in Plan
           /\ \A o \in Offsets : /\ EndPending(rev, status).status[o] # "PENDING"
                                 /\ EndPending(rev, status).status[o] = "SENT" <=> reminder[rev].status[o] = "SENT"
<1>1. reminder[rev] \in Plan /\ reminder[rev].status \in [Offsets -> ReminderStatus]
    BY DEF ScheduleTypeOK, Plan
<1>2. PICK ended : ended = [o \in Offsets |-> IF reminder[rev].status[o] = "PENDING" THEN status ELSE reminder[rev].status[o]]
    OBVIOUS
<1>3. /\ ended \in [Offsets -> ReminderStatus]
      /\ \A o \in Offsets : ended[o] # "PENDING" /\ (ended[o] = "SENT" <=> reminder[rev].status[o] = "SENT")
    BY <1>1, <1>2 DEF ReminderStatus
<1>4. EndPending(rev, status) = [reminder[rev] EXCEPT !.status = ended]
    BY <1>2 DEF EndPending
<1> QED
    BY <1>1, <1>3, <1>4 DEF Plan

\* Whoever saves a row that an operation read earlier sets its status.
LEMMA SavedCampaign ==
    ASSUME NEW read \in Campaign, NEW status \in CampaignStatus, NEW requested \in BOOLEAN
    PROVE  /\ [read EXCEPT !.status = status] \in Campaign /\ [read EXCEPT !.status = status].status = status
           /\ [read EXCEPT !.status = status, !.requested = requested] \in Campaign
           /\ [read EXCEPT !.status = status, !.requested = requested].status = status
BY DEF Campaign

LEMMA SaveKeepsSchedule ==
    ASSUME ScheduleIInv, UNCHANGED <<reminder, reminderWorker, clock, reminderDeaths>>,
           campaign' \in Campaign, campaign'.status \in {"IN_PROGRESS", "CLOSED", "RECONCILED"},
           starting' \in [Starters -> SUBSET Campaign], \A x \in Starters : Cardinality(starting'[x]) <= 1
    PROVE  ScheduleIInv' /\ SendsFit
<1>1. ScheduleTypeOK'
    BY DEF ScheduleIInv, ScheduleTypeOK
<1>2. PendingIsCurrent' /\ PlansFit'
    BY DEF ScheduleIInv, PendingIsCurrent, PlansFit
<1>3. ASSUME NEW w \in ReminderWorkers PROVE WorkerFits(w)'
    BY <1>3 DEF ScheduleIInv, WorkerFits
<1>4. SendsFit
    BY DEF SendsFit
<1> QED
    BY <1>1, <1>2, <1>3, <1>4 DEF ScheduleIInv

\* Nothing of the schedule changes.
LEMMA ScheduleStays == ASSUME ScheduleIInv, UNCHANGED scheduleVars PROVE ScheduleIInv' /\ SendsFit
<1>1. /\ campaign' = campaign /\ reminder' = reminder /\ reminderWorker' = reminderWorker
      /\ starting' = starting /\ clock' = clock /\ reminderDeaths' = reminderDeaths
    BY DEF scheduleVars
<1>2. ScheduleTypeOK' /\ PendingIsCurrent' /\ PlansFit'
    BY <1>1 DEF ScheduleIInv, ScheduleTypeOK, PendingIsCurrent, PlansFit
<1>3. ASSUME NEW w \in ReminderWorkers PROVE WorkerFits(w)'
    BY <1>1, <1>3 DEF ScheduleIInv, WorkerFits
<1> QED
    BY <1>1, <1>2, <1>3 DEF ScheduleIInv, SendsFit

\* schedule
LEMMA SchedulePlans ==
    ASSUME ScheduleIInv, NEW start \in 0..MaxDay, NEW offsets \in SUBSET Offsets, Schedule(start, offsets)
    PROVE  ScheduleIInv' /\ SendsFit
<1>0. /\ ScheduleTypeOK /\ campaign \in Campaign /\ campaign.status = "NONE" /\ campaign.rev = 0
      /\ \A rev \in Revisions, o \in Offsets : reminder[rev].status[o] = "NONE"
      /\ 0 \in Revisions /\ Revisions \subseteq Nat
      /\ UNCHANGED <<reminderWorker, starting, clock, reminderDeaths>>
    BY Numbers DEF ScheduleIInv, ScheduleTypeOK, PlansFit, Schedule, Revisions
<1>1. /\ campaign' \in Campaign /\ campaign'.status = "PLANNED" /\ campaign'.rev = 0 /\ campaign'.start = start
    BY <1>0 DEF Schedule, Campaign, CampaignStatus
<1>2. PICK plan \in Plan : /\ reminder' = [reminder EXCEPT ![0] = plan] /\ plan.start = start
                           /\ \A o \in Offsets : plan.status[o] \in {"NONE", "SKIPPED", "PENDING"}
    BY PlanIsNew DEF Schedule
<1>3. /\ reminder' \in [Revisions -> Plan] /\ reminder'[0] = plan
      /\ \A rev \in Revisions \ {0} : reminder'[rev] = reminder[rev]
    BY <1>0, <1>2 DEF ScheduleTypeOK, Plan
<1>4. ScheduleTypeOK'
    BY <1>0, <1>1, <1>3 DEF ScheduleTypeOK, Plan
<1>5. PendingIsCurrent'
    BY <1>0, <1>1, <1>2, <1>3 DEF PendingIsCurrent
<1>6. PlansFit'
    BY <1>0, <1>1, <1>3 DEF PlansFit
<1>7. ASSUME NEW w \in ReminderWorkers PROVE WorkerFits(w)'
    <2>1. reminderWorker[w].rev \in Revisions
        BY <1>0 DEF ScheduleTypeOK
    <2>2. reminderWorker[w].pc = "idle"
        BY <1>0, <2>1 DEF ScheduleIInv, WorkerFits
    <2> QED
        BY <1>0, <2>2 DEF WorkerFits
<1>8. SendsFit
    BY <1>0, <1>2, <1>3 DEF SendsFit
<1> QED
    BY <1>4, <1>5, <1>6, <1>7, <1>8 DEF ScheduleIInv

\* reschedule
LEMMA ReschedulePlans ==
    ASSUME ScheduleIInv, NEW start \in 0..MaxDay, NEW offsets \in SUBSET Offsets, Reschedule(start, offsets)
    PROVE  ScheduleIInv' /\ SendsFit
<1>0. /\ ScheduleTypeOK /\ campaign \in Campaign /\ campaign.status = "PLANNED"
      /\ campaign.rev \in Revisions /\ campaign.rev + 1 \in Revisions /\ Revisions \subseteq Nat
      /\ \A w \in ReminderWorkers : reminderWorker[w].pc = "idle"
      /\ UNCHANGED <<reminderWorker, starting, clock, reminderDeaths>>
    BY Numbers DEF ScheduleIInv, ScheduleTypeOK, Campaign, Reschedule, Revisions, PendingIsFree
<1>1. PICK now \in Revisions, next \in Revisions : now = campaign.rev /\ next = campaign.rev + 1
    BY <1>0
<1>2. /\ campaign' \in Campaign /\ campaign'.status = "PLANNED" /\ campaign'.rev = next /\ campaign'.start = start
    BY <1>0, <1>1 DEF Reschedule, Campaign
<1>3. PICK plan \in Plan, ended \in Plan :
        /\ reminder' = [reminder EXCEPT ![now] = ended, ![next] = plan]
        /\ plan.start = start /\ \A o \in Offsets : plan.status[o] \in {"NONE", "SKIPPED", "PENDING"}
        /\ \A o \in Offsets : ended.status[o] # "PENDING" /\ (ended.status[o] = "SENT" <=> reminder[now].status[o] = "SENT")
    <2>1. PICK ended : ended = EndPending(now, "SUPERSEDED")
        OBVIOUS
    <2>2. /\ ended \in Plan
          /\ \A o \in Offsets : ended.status[o] # "PENDING" /\ (ended.status[o] = "SENT" <=> reminder[now].status[o] = "SENT")
        BY <1>0, <2>1, PlanEnds
    <2>3. PICK plan : plan = PlanReminders(start, offsets)
        OBVIOUS
    <2>4. plan \in Plan /\ plan.start = start /\ \A o \in Offsets : plan.status[o] \in {"NONE", "SKIPPED", "PENDING"}
        BY <2>3, PlanIsNew
    <2>5. reminder' = [reminder EXCEPT ![now] = ended, ![next] = plan]
        BY <1>1, <2>1, <2>3 DEF Reschedule
    <2> QED
        BY <2>2, <2>4, <2>5
<1>4. /\ reminder' \in [Revisions -> Plan] /\ now # next /\ reminder'[next] = plan /\ reminder'[now] = ended
      /\ \A rev \in Revisions \ {now, next} : reminder'[rev] = reminder[rev]
    <2>1. now # next
        BY <1>0, <1>1
    <2>2. reminder \in [Revisions -> Plan]
        BY <1>0 DEF ScheduleTypeOK, Plan
    <2>3. PICK first : first = [reminder EXCEPT ![now] = ended]
        OBVIOUS
    <2>4. /\ first \in [Revisions -> Plan] /\ first[now] = ended
          /\ \A rev \in Revisions \ {now} : first[rev] = reminder[rev]
        BY <2>2, <2>3
    <2>5. reminder' = [first EXCEPT ![next] = plan]
        BY <1>3, <2>3
    <2> QED
        BY <2>1, <2>4, <2>5
<1>5. ScheduleTypeOK'
    BY <1>0, <1>2, <1>4 DEF ScheduleTypeOK, Plan
<1>6. PendingIsCurrent'
    <2> SUFFICES ASSUME NEW rev \in Revisions, NEW o \in Offsets, reminder'[rev].status[o] = "PENDING"
                 PROVE  rev = next
        BY <1>2, <1>3, <1>4 DEF PendingIsCurrent
    <2>1. rev # now
        BY <1>3, <1>4
    <2>2. CASE rev \in Revisions \ {now, next}
        BY <1>0, <1>1, <1>4, <2>2 DEF ScheduleIInv, PendingIsCurrent
    <2> QED
        BY <2>1, <2>2
<1>7. PlansFit'
    <2> SUFFICES ASSUME NEW rev \in Revisions, NEW o \in Offsets, rev > next PROVE reminder'[rev].status[o] = "NONE"
        BY <1>2 DEF PlansFit
    <2>1. rev > campaign.rev /\ rev # now /\ rev # next
        BY <1>0, <1>1
    <2> QED
        BY <1>0, <1>4, <2>1 DEF ScheduleIInv, PlansFit
<1>8. \A w \in ReminderWorkers : WorkerFits(w)'
    BY <1>0 DEF WorkerFits
<1>9. SendsFit
    <2>1. \A o \in Offsets : reminder[next].status[o] = "NONE"
        BY <1>0, <1>1 DEF ScheduleIInv, PlansFit
    <2> QED
        BY <1>3, <1>4, <2>1 DEF SendsFit
<1> QED
    BY <1>5, <1>6, <1>7, <1>8, <1>9 DEF ScheduleIInv

\* cancel
LEMMA CancelEnds == ASSUME ScheduleIInv, CancelSchedule PROVE ScheduleIInv' /\ SendsFit
<1>0. /\ ScheduleTypeOK /\ campaign \in Campaign /\ campaign.status = "PLANNED" /\ campaign.rev \in Revisions
      /\ \A w \in ReminderWorkers : reminderWorker[w].pc = "idle"
      /\ UNCHANGED <<reminderWorker, starting, clock, reminderDeaths>>
    BY DEF ScheduleIInv, ScheduleTypeOK, Campaign, CancelSchedule, PendingIsFree
<1>1. PICK now \in Revisions : now = campaign.rev
    BY <1>0
<1>2. campaign' \in Campaign /\ campaign'.status = "CANCELLED"
    BY <1>0 DEF CancelSchedule, Campaign, CampaignStatus
<1>3. PICK ended \in Plan :
        /\ reminder' = [reminder EXCEPT ![now] = ended]
        /\ \A o \in Offsets : ended.status[o] # "PENDING" /\ (ended.status[o] = "SENT" <=> reminder[now].status[o] = "SENT")
    <2>1. reminder' = [reminder EXCEPT ![now] = EndPending(now, "CANCELLED")]
        BY <1>1 DEF CancelSchedule
    <2> QED
        BY <1>0, <2>1, PlanEnds
<1>4. /\ reminder' \in [Revisions -> Plan] /\ reminder'[now] = ended
      /\ \A rev \in Revisions \ {now} : reminder'[rev] = reminder[rev]
    BY <1>0, <1>3 DEF ScheduleTypeOK, Plan
<1>5. ScheduleTypeOK'
    BY <1>0, <1>2, <1>4 DEF ScheduleTypeOK, Plan
<1>6. PendingIsCurrent'
    <2> SUFFICES ASSUME NEW rev \in Revisions, NEW o \in Offsets, reminder'[rev].status[o] = "PENDING" PROVE FALSE
        BY DEF PendingIsCurrent
    <2> QED
        BY <1>0, <1>1, <1>3, <1>4 DEF ScheduleIInv, PendingIsCurrent
<1>7. PlansFit'
    BY <1>2 DEF PlansFit
<1>8. \A w \in ReminderWorkers : WorkerFits(w)'
    BY <1>0 DEF WorkerFits
<1>9. SendsFit
    BY <1>3, <1>4 DEF SendsFit
<1> QED
    BY <1>5, <1>6, <1>7, <1>8, <1>9 DEF ScheduleIInv

\* start reads the inventory, ...
LEMMA StartReadsIt == ASSUME ScheduleIInv, NEW x \in Starters, StartReads(x) PROVE ScheduleIInv' /\ SendsFit
<1>0. /\ ScheduleTypeOK /\ campaign \in Campaign /\ starting \in [Starters -> SUBSET Campaign]
      /\ UNCHANGED <<campaign, reminder, reminderWorker, clock, reminderDeaths>>
    BY DEF ScheduleIInv, ScheduleTypeOK, StartReads
<1>1. PICK read : read = {campaign}
    OBVIOUS
<1>2. read \in SUBSET Campaign /\ Cardinality(read) = 1
    BY <1>0, <1>1, FS_Singleton
<1>3. starting' = [starting EXCEPT ![x] = read]
    BY <1>1 DEF StartReads
<1>4. starting' \in [Starters -> SUBSET Campaign] /\ \A y \in Starters : starting'[y] = read \/ starting'[y] = starting[y]
    BY <1>0, <1>2, <1>3
<1>5. \A y \in Starters : Cardinality(starting'[y]) <= 1
    BY <1>0, <1>2, <1>4 DEF ScheduleTypeOK
<1>6. ScheduleTypeOK' /\ PendingIsCurrent' /\ PlansFit'
    BY <1>0, <1>4, <1>5 DEF ScheduleIInv, ScheduleTypeOK, PendingIsCurrent, PlansFit
<1>7. \A w \in ReminderWorkers : WorkerFits(w)'
    BY <1>0 DEF ScheduleIInv, WorkerFits
<1> QED
    BY <1>0, <1>6, <1>7 DEF ScheduleIInv, SendsFit

\* ... and saves it.
LEMMA StartSavesIt == ASSUME ScheduleIInv, NEW x \in Starters, StartSaves(x) PROVE ScheduleIInv' /\ SendsFit
<1>0. /\ ScheduleTypeOK /\ starting \in [Starters -> SUBSET Campaign]
      /\ starting' = [starting EXCEPT ![x] = {}] /\ UNCHANGED <<reminder, reminderWorker, clock, reminderDeaths>>
    BY DEF ScheduleIInv, ScheduleTypeOK, StartSaves
<1>1. PICK read \in Campaign : campaign' = [read EXCEPT !.status = "IN_PROGRESS"]
    BY <1>0 DEF StartSaves
<1>2. campaign' \in Campaign /\ campaign'.status = "IN_PROGRESS"
    BY <1>1, SavedCampaign DEF CampaignStatus
<1>3. starting' \in [Starters -> SUBSET Campaign] /\ \A y \in Starters : starting'[y] = {} \/ starting'[y] = starting[y]
    BY <1>0
<1>4. Cardinality({}) = 0
    BY FS_EmptySet
<1>5. \A y \in Starters : Cardinality(starting'[y]) <= 1
    BY <1>0, <1>3, <1>4 DEF ScheduleTypeOK
<1> QED
    BY <1>0, <1>2, <1>3, <1>5, SaveKeepsSchedule

\* What a worker's own step leaves of the rest.
LEMMA WorkerMoves ==
    ASSUME ScheduleIInv, NEW w \in ReminderWorkers, NEW row \in WorkerRow,
           reminderWorker' = [reminderWorker EXCEPT ![w] = row],
           UNCHANGED <<campaign, reminder, starting, clock>>, reminderDeaths' \in 0..MaxReminderDeaths,
           row.pc # "idle" =>
             /\ row.offset \in Offsets /\ reminder[row.rev].status[row.offset] = "PENDING"
             /\ \A v \in ReminderWorkers \ {w} :
                  reminderWorker[v].pc # "idle" => reminderWorker[v].rev # row.rev \/ reminderWorker[v].offset # row.offset
             /\ row.pc = "SEND" =>
                  campaign.status # "CANCELLED" /\ (campaign.status = "PLANNED" => row.rev = campaign.rev)
    PROVE  ScheduleIInv' /\ SendsFit
<1>0. reminderWorker \in [ReminderWorkers -> WorkerRow]
    BY DEF ScheduleIInv, ScheduleTypeOK, WorkerRow
<1>1. /\ reminderWorker' \in [ReminderWorkers -> WorkerRow] /\ reminderWorker'[w] = row
      /\ \A v \in ReminderWorkers \ {w} : reminderWorker'[v] = reminderWorker[v]
    BY <1>0
<1>2. ScheduleTypeOK'
    BY <1>1 DEF ScheduleIInv, ScheduleTypeOK, WorkerRow
<1>3. PendingIsCurrent' /\ PlansFit' /\ SendsFit
    BY DEF ScheduleIInv, PendingIsCurrent, PlansFit, SendsFit
<1>4. WorkerFits(w)'
    BY <1>1 DEF WorkerFits
<1>5. ASSUME NEW v \in ReminderWorkers \ {w} PROVE WorkerFits(v)'
    <2>1. WorkerFits(v) /\ reminderWorker'[v] = reminderWorker[v]
        BY <1>1 DEF ScheduleIInv
    <2>2. reminderWorker[v].pc # "idle" /\ row.pc # "idle" =>
            row.rev # reminderWorker[v].rev \/ row.offset # reminderWorker[v].offset
        OBVIOUS
    <2> QED
        BY <1>1, <2>1, <2>2 DEF WorkerFits
<1> QED
    BY <1>2, <1>3, <1>4, <1>5 DEF ScheduleIInv

\* processOne locks a reminder that nobody has, ...
LEMMA ReminderClaimed ==
    ASSUME ScheduleIInv, NEW w \in ReminderWorkers, NEW rev \in Revisions, NEW o \in Offsets, ClaimReminder(w, rev, o)
    PROVE  ScheduleIInv' /\ SendsFit
<1>0. /\ clock \in 0..(2 * MaxDay + 1) /\ reminderDeaths \in 0..MaxReminderDeaths
      /\ reminder[rev].status[o] = "PENDING" /\ ~Held(rev, o)
      /\ UNCHANGED <<campaign, reminder, starting, clock, reminderDeaths>>
    BY DEF ScheduleIInv, ScheduleTypeOK, ClaimReminder, DueAndFree
<1>1. PICK row : row = [pc |-> "claimed", rev |-> rev, offset |-> o, now |-> clock]
    OBVIOUS
<1>2. row \in WorkerRow /\ row.pc = "claimed" /\ row.rev = rev /\ row.offset = o
    BY <1>0, <1>1 DEF WorkerRow
<1>3. reminderWorker' = [reminderWorker EXCEPT ![w] = row]
    BY <1>1 DEF ClaimReminder
<1>4. \A v \in ReminderWorkers \ {w} :
        reminderWorker[v].pc # "idle" => reminderWorker[v].rev # row.rev \/ reminderWorker[v].offset # row.offset
    BY <1>0, <1>2 DEF Held
<1> QED
    BY <1>0, <1>2, <1>3, <1>4, WorkerMoves

\* ... decides ...
LEMMA ReminderDecided == ASSUME ScheduleIInv, NEW w \in ReminderWorkers, Decide(w) PROVE ScheduleIInv' /\ SendsFit
<1>0. /\ reminderWorker[w] \in WorkerRow /\ reminderWorker[w].pc = "claimed" /\ WorkerFits(w)
      /\ reminderDeaths \in 0..MaxReminderDeaths /\ UNCHANGED <<campaign, reminder, starting, clock, reminderDeaths>>
    BY DEF ScheduleIInv, ScheduleTypeOK, Decide, WorkerRow
<1>1. PICK pc : pc = Decision(w)
    OBVIOUS
<1>2. pc \in {"SKIPPED", "SUPERSEDED", "SEND"} /\ (pc = "SEND" => campaign.status = "PLANNED" /\ campaign.rev = reminderWorker[w].rev)
    BY <1>1 DEF Decision
<1>3. PICK row : row = [reminderWorker[w] EXCEPT !.pc = pc]
    OBVIOUS
<1>4. row \in WorkerRow /\ row.pc = pc /\ row.rev = reminderWorker[w].rev /\ row.offset = reminderWorker[w].offset
    BY <1>0, <1>2, <1>3 DEF WorkerRow
<1>5. reminderWorker' = [reminderWorker EXCEPT ![w] = row]
    BY <1>1, <1>3 DEF Decide
<1>6. /\ row.offset \in Offsets /\ reminder[row.rev].status[row.offset] = "PENDING"
      /\ \A v \in ReminderWorkers \ {w} :
           reminderWorker[v].pc # "idle" => reminderWorker[v].rev # row.rev \/ reminderWorker[v].offset # row.offset
    BY <1>0, <1>4 DEF WorkerFits
<1> QED
    BY <1>0, <1>2, <1>4, <1>5, <1>6, WorkerMoves

LEMMA AsleepIsRow == Asleep \in WorkerRow /\ Asleep.pc = "idle"
BY Numbers DEF Asleep, WorkerRow, Revisions

\* ... and says what became of the reminder.
LEMMA ReminderFinished == ASSUME ScheduleIInv, NEW w \in ReminderWorkers, FinishReminder(w) PROVE ScheduleIInv' /\ SendsFit
<1>0. /\ ScheduleTypeOK /\ PendingIsCurrent /\ PlansFit /\ campaign \in Campaign
      /\ reminder \in [Revisions -> Plan] /\ reminderWorker \in [ReminderWorkers -> WorkerRow]
      /\ UNCHANGED <<campaign, starting, clock, reminderDeaths>>
    BY DEF ScheduleIInv, ScheduleTypeOK, Plan, WorkerRow, FinishReminder
<1>1. PICK outcome \in {"SKIPPED", "SUPERSEDED", "SENT", "NO_RECIPIENT"} :
        /\ reminder' = [reminder EXCEPT ![reminderWorker[w].rev].status[reminderWorker[w].offset] = outcome]
        /\ outcome = "SENT" => reminderWorker[w].pc = "SEND"
    BY DEF FinishReminder, Outcomes
<1>2. PICK rev \in Revisions, o \in Offsets : rev = reminderWorker[w].rev /\ o = reminderWorker[w].offset
    BY <1>0 DEF ScheduleIInv, WorkerFits, FinishReminder, WorkerRow
<1>3. /\ reminder[rev].status[o] = "PENDING" /\ reminderWorker[w].pc # "idle"
      /\ \A v \in ReminderWorkers \ {w} :
           reminderWorker[v].pc # "idle" => reminderWorker[v].rev # rev \/ reminderWorker[v].offset # o
      /\ outcome = "SENT" => campaign.status # "CANCELLED" /\ (campaign.status = "PLANNED" => rev = campaign.rev)
    BY <1>1, <1>2 DEF ScheduleIInv, WorkerFits, FinishReminder
<1>4. PICK plan : plan = [reminder[rev] EXCEPT !.status[o] = outcome]
    OBVIOUS
<1>5. /\ plan \in Plan /\ plan.start = reminder[rev].start /\ plan.status[o] = outcome
      /\ \A p \in Offsets \ {o} : plan.status[p] = reminder[rev].status[p]
    BY <1>0, <1>4 DEF Plan, ReminderStatus
<1>6. reminder' = [reminder EXCEPT ![rev] = plan]
    BY <1>1, <1>2, <1>4
<1>7. /\ reminder' \in [Revisions -> Plan] /\ reminder'[rev] = plan
      /\ \A r \in Revisions \ {rev} : reminder'[r] = reminder[r]
    BY <1>0, <1>5, <1>6
<1>8. \A r \in Revisions, p \in Offsets :
        /\ reminder'[r].start = reminder[r].start
        /\ IF r = rev /\ p = o THEN reminder'[r].status[p] = outcome ELSE reminder'[r].status[p] = reminder[r].status[p]
    BY <1>5, <1>7
<1>9. /\ reminderWorker' \in [ReminderWorkers -> WorkerRow] /\ reminderWorker'[w].pc = "idle"
      /\ \A v \in ReminderWorkers \ {w} : reminderWorker'[v] = reminderWorker[v]
    BY <1>0, AsleepIsRow DEF FinishReminder
<1>10. ScheduleTypeOK'
    BY <1>0, <1>7, <1>9 DEF ScheduleTypeOK, Plan, WorkerRow
<1>11. PendingIsCurrent'
    BY <1>0, <1>8 DEF PendingIsCurrent
<1>12. PlansFit'
    <2>1. campaign.status # "NONE" /\ (campaign.status = "PLANNED" => ~(rev > campaign.rev))
        BY <1>0, <1>3 DEF PlansFit
    <2> QED
        BY <1>0, <1>8, <2>1 DEF PlansFit
<1>13. ASSUME NEW v \in ReminderWorkers PROVE WorkerFits(v)'
    <2>1. CASE v = w
        BY <1>9, <2>1 DEF WorkerFits
    <2>2. CASE v # w /\ reminderWorker[v].pc # "idle"
        <3>1. /\ WorkerFits(v) /\ reminderWorker'[v] = reminderWorker[v]
              /\ reminderWorker[v].rev \in Revisions /\ reminderWorker[v].offset \in Offsets
              /\ reminderWorker[v].rev # rev \/ reminderWorker[v].offset # o
            BY <1>0, <1>3, <1>9, <2>2 DEF ScheduleIInv, WorkerFits, WorkerRow
        <3>2. reminder'[reminderWorker[v].rev].status[reminderWorker[v].offset] = "PENDING"
            BY <1>8, <2>2, <3>1 DEF WorkerFits
        <3>3. \A u \in ReminderWorkers : reminderWorker'[u].pc # "idle" => reminderWorker'[u] = reminderWorker[u]
            BY <1>9
        <3> QED
            BY <1>0, <2>2, <3>1, <3>2, <3>3 DEF WorkerFits
    <2>3. CASE v # w /\ reminderWorker[v].pc = "idle"
        BY <1>9, <2>3 DEF WorkerFits
    <2> QED
        BY <2>1, <2>2, <2>3
<1>14. SendsFit
    BY <1>3, <1>8 DEF SendsFit
<1> QED
    BY <1>10, <1>11, <1>12, <1>13, <1>14 DEF ScheduleIInv

\* A worker dies: its transaction is undone and its lock released.
LEMMA ReminderDropped == ASSUME ScheduleIInv, NEW w \in ReminderWorkers, ReminderWorkerDies(w) PROVE ScheduleIInv' /\ SendsFit
<1>1. reminderDeaths' \in 0..MaxReminderDeaths
    BY Numbers DEF ScheduleIInv, ScheduleTypeOK, ReminderWorkerDies
<1>2. PICK row \in WorkerRow : row = Asleep /\ row.pc = "idle"
    BY AsleepIsRow
<1>3. reminderWorker' = [reminderWorker EXCEPT ![w] = row] /\ UNCHANGED <<campaign, reminder, starting, clock>>
    BY <1>2 DEF ReminderWorkerDies
<1> QED
    BY <1>1, <1>2, <1>3, WorkerMoves

LEMMA TimePasses == ASSUME ScheduleIInv, HalfDayPasses PROVE ScheduleIInv' /\ SendsFit
<1>0. clock' \in 0..(2 * MaxDay + 1) /\ UNCHANGED <<campaign, reminder, reminderWorker, starting, reminderDeaths>>
    BY Numbers DEF ScheduleIInv, ScheduleTypeOK, HalfDayPasses
<1>1. ScheduleTypeOK' /\ PendingIsCurrent' /\ PlansFit'
    BY <1>0 DEF ScheduleIInv, ScheduleTypeOK, PendingIsCurrent, PlansFit
<1>2. \A w \in ReminderWorkers : WorkerFits(w)'
    BY <1>0 DEF ScheduleIInv, WorkerFits
<1> QED
    BY <1>0, <1>1, <1>2 DEF ScheduleIInv, SendsFit

LEMMA ScheduleStep == ASSUME ScheduleIInv, ScheduleNext PROVE ScheduleIInv' /\ SendsFit
<1>1. ASSUME NEW start \in 0..MaxDay, NEW offsets \in SUBSET Offsets, Schedule(start, offsets) \/ Reschedule(start, offsets)
      PROVE  ScheduleIInv' /\ SendsFit
    BY <1>1, SchedulePlans, ReschedulePlans
<1>2. ASSUME NEW x \in Starters, StartReads(x) \/ StartSaves(x) PROVE ScheduleIInv' /\ SendsFit
    BY <1>2, StartReadsIt, StartSavesIt
<1>3. ASSUME NEW w \in ReminderWorkers, Decide(w) \/ FinishReminder(w) \/ ReminderWorkerDies(w) PROVE ScheduleIInv' /\ SendsFit
    BY <1>3, ReminderDecided, ReminderFinished, ReminderDropped
<1>4. ASSUME NEW w \in ReminderWorkers, NEW rev \in Revisions, NEW o \in Offsets, ClaimReminder(w, rev, o)
      PROVE  ScheduleIInv' /\ SendsFit
    BY <1>4, ReminderClaimed
<1> QED
    BY <1>1, <1>2, <1>3, <1>4, CancelEnds, TimePasses DEF ScheduleNext, RemindersStep

LEMMA ScheduleStarts == ScheduleInit => ScheduleIInv
<1> SUFFICES ASSUME ScheduleInit PROVE ScheduleIInv
    OBVIOUS
<1>1. PICK plan : plan = [start |-> 0, status |-> [o \in Offsets |-> "NONE"]]
    OBVIOUS
<1>2. plan \in Plan /\ \A o \in Offsets : plan.status[o] = "NONE"
    BY <1>1, Numbers DEF Plan, ReminderStatus
<1>3. reminder \in [Revisions -> Plan] /\ \A rev \in Revisions : reminder[rev] = plan
    BY <1>1, <1>2 DEF ScheduleInit
<1>4. campaign \in Campaign /\ campaign.status = "NONE" /\ campaign.rev = 0
    BY Numbers DEF ScheduleInit, Campaign, CampaignStatus, Revisions
<1>5. reminderWorker \in [ReminderWorkers -> WorkerRow] /\ \A w \in ReminderWorkers : reminderWorker[w].pc = "idle"
    BY AsleepIsRow DEF ScheduleInit
<1>6. starting \in [Starters -> SUBSET Campaign] /\ \A x \in Starters : Cardinality(starting[x]) <= 1
    BY FS_EmptySet DEF ScheduleInit
<1>7. clock \in 0..(2 * MaxDay + 1) /\ reminderDeaths \in 0..MaxReminderDeaths
    BY Numbers DEF ScheduleInit
<1>8. ScheduleTypeOK
    BY <1>3, <1>4, <1>5, <1>6, <1>7 DEF ScheduleTypeOK, Plan, WorkerRow
<1>9. PendingIsCurrent /\ PlansFit
    BY <1>2, <1>3, <1>4 DEF PendingIsCurrent, PlansFit
<1> QED
    BY <1>5, <1>8, <1>9 DEF ScheduleIInv, WorkerFits

-----------------------------------------------------------------------------
(* The acts.                                                               *)

RowFits(row) ==
    /\ row.document => row.generation = "ENQUEUED"
    /\ row.generation # "NONE" => row.there
    /\ row.generation # "ENQUEUED" => row.lists = {}

Lists(rows, s, c) ==
    rows[c].there /\ rows[c].generation # "NONE" /\ (rows[c].generation = "ENQUEUED" => s \in rows[c].lists)

CenterOf(s) == ActCenter(surplus, assetAt, s)

\* The surplus that an approval accounts for.
Settled == Live(surplus) \ disturbed

Written(was, staged) == {c \in Centers : staged[c].there /\ was[c].generation # "ENQUEUED"}

Deleted(was, staged) == {c \in Centers : was[c].there /\ ~staged[c].there}

\* What an approval is about to save.
StagedFits(was, staged) ==
    /\ \A c \in Centers : RowFits(was[c]) /\ RowFits(staged[c])
    /\ \A c \in Written(was, staged) : staged[c].generation # "NONE" /\ ~staged[c].document
    /\ \A c \in Deleted(was, staged) : staged[c] = NoAct /\ was[c].generation # "ENQUEUED"
    /\ (\E c \in Centers : was[c].generation = "ENQUEUED") => approved
    /\ \A s \in Settled :
         /\ CenterOf(s) \in Centers /\ staged[CenterOf(s)].there
         /\ CenterOf(s) \in Written(was, staged) => Lists(staged, s, CenterOf(s))
         /\ \A d \in Written(was, staged) \ {CenterOf(s)} : s \notin staged[d].lists

\* What an approval leaves, and nothing afterwards takes back.
ApprovedFits ==
    approved =>
        \A s \in Settled :
            /\ CenterOf(s) \in Centers /\ Lists(act, s, CenterOf(s))
            /\ \A d \in Centers \ {CenterOf(s)} : s \notin act[d].lists

\* Only an approval asks for an act first.
GenerationFits == \A c \in Centers : act[c].generation # "NONE" => approved

AskingFits ==
    \A u \in Users : saving[u].op = "asking" =>
        \A was \in saving[u].was, staged \in saving[u].staged : StagedFits(was, staged)

RegistrationsFit == \A s \in Surpluses \ overwritten : registered[s] <= 1 /\ (registered[s] = 1 => surplus[s].created)

DocumentsFit == \A c \in Centers \ overwritten : documents[c] <= 1 /\ (documents[c] = 1 => act[c].document)

RowsFit == \A c \in Centers : RowFits(act[c])

\* The inductive invariant of the acts.
ActsIInv ==
    /\ ActsTypeOK /\ RowsFit
    /\ campaign.status = "RECONCILED" => approved
    /\ ApprovedFits /\ GenerationFits /\ AskingFits /\ RegistrationsFit /\ DocumentsFit

CampaignIInv == ScheduleIInv /\ ActsIInv

-----------------------------------------------------------------------------

SavingRow == [op : {"idle", "report", "void", "category", "close", "request", "approve", "asking"},
              read : SUBSET Campaign, item : SUBSET Surpluses, copy : SurplusRecord,
              was : SUBSET [Centers -> ActRecord], staged : SUBSET [Centers -> ActRecord]]

LEMMA EmptyRows ==
    /\ NoSurplus \in SurplusRecord /\ ~NoSurplus.created
    /\ NoAct \in ActRecord /\ RowFits(NoAct) /\ NoAct.lists = {} /\ NoAct.generation = "NONE" /\ ~NoAct.there /\ ~NoAct.document
    /\ Idle \in SavingRow /\ Idle.op = "idle"
<1>1. NoSurplus \in SurplusRecord /\ ~NoSurplus.created
    BY DEF NoSurplus, SurplusRecord
<1>2. /\ NoAct \in ActRecord /\ RowFits(NoAct) /\ NoAct.lists = {} /\ NoAct.generation = "NONE"
      /\ ~NoAct.there /\ ~NoAct.document
    BY DEF NoAct, ActRecord, RowFits
<1>3. Idle \in SavingRow /\ Idle.op = "idle"
    BY <1>1 DEF Idle, SavingRow
<1> QED
    BY <1>1, <1>2, <1>3

LEMMA NewActRow ==
    ASSUME NEW c \in Centers
    PROVE  /\ NewAct(c) \in ActRecord /\ RowFits(NewAct(c)) /\ NewAct(c).there /\ NewAct(c).generation = "NONE"
           /\ NewAct(c).lists = {} /\ ~NewAct(c).document
<1>1. PICK assigned \in BOOLEAN : assigned = (c \in SingleHead)
    <2>1. (c \in SingleHead) \in BOOLEAN
        OBVIOUS
    <2> QED
        BY <2>1, Zenon
<1>2. NewAct(c) = [NoAct EXCEPT !.there = TRUE, !.signer = assigned]
    BY <1>1, Zenon DEF NewAct
<1> QED
    BY <1>2 DEF NoAct, ActRecord, RowFits

LEMMA SavingMoves ==
    ASSUME ActsTypeOK, NEW u \in Users, NEW row \in SavingRow, saving' = [saving EXCEPT ![u] = row]
    PROVE  /\ saving' \in [Users -> SavingRow] /\ saving'[u] = row
           /\ \A v \in Users \ {u} : saving'[v] = saving[v]
<1>1. saving \in [Users -> SavingRow]
    BY DEF ActsTypeOK, SavingRow
<1> QED
    BY <1>1

\* Nobody takes a surplus out of what an approval accounted for without the
\* surplus counting as disturbed.
Steady ==
    \A s \in Surpluses : surplus'[s].status = "LIVE" /\ s \notin disturbed' =>
        /\ surplus[s].status = "LIVE" /\ s \notin disturbed
        /\ ActCenter(surplus', assetAt', s) = ActCenter(surplus, assetAt, s)

LEMMA SettledStays ==
    ASSUME Steady PROVE \A s \in Settled' : s \in Settled /\ CenterOf(s)' = CenterOf(s)
BY DEF Steady, Settled, Live, CenterOf

LEMMA StagedStays ==
    ASSUME NEW was, NEW staged, StagedFits(was, staged), approved => approved', Steady
    PROVE  StagedFits(was, staged)'
<1>1. \A s \in Settled' : s \in Settled /\ CenterOf(s)' = CenterOf(s)
    BY SettledStays
<1>2. \A s \in Settled' :
         /\ CenterOf(s)' \in Centers /\ staged[CenterOf(s)'].there
         /\ CenterOf(s)' \in Written(was, staged) => Lists(staged, s, CenterOf(s)')
         /\ \A d \in Written(was, staged) \ {CenterOf(s)'} : s \notin staged[d].lists
    BY <1>1 DEF StagedFits
<1> QED
    BY <1>2 DEF StagedFits, RowFits, Lists, Written, Deleted

LEMMA AskingStays ==
    ASSUME AskingFits, approved => approved', Steady,
           \A u \in Users : saving'[u].op = "asking" => saving'[u] = saving[u]
    PROVE  AskingFits'
<1> SUFFICES ASSUME NEW u \in Users, saving'[u].op = "asking", NEW was \in saving'[u].was, NEW staged \in saving'[u].staged
             PROVE  StagedFits(was, staged)'
    BY DEF AskingFits
<1>1. StagedFits(was, staged)
    BY DEF AskingFits
<1> QED
    BY <1>1, StagedStays

\* The acts, and what they list, as they are.
LEMMA ApprovedStays ==
    ASSUME ApprovedFits, GenerationFits, act' = act, approved' = approved, Steady PROVE ApprovedFits' /\ GenerationFits'
<1>1. \A s \in Settled' : s \in Settled /\ CenterOf(s)' = CenterOf(s)
    BY SettledStays
<1>2. GenerationFits'
    BY DEF GenerationFits
<1>3. ASSUME approved, NEW s \in Settled'
      PROVE  /\ CenterOf(s)' \in Centers /\ Lists(act, s, CenterOf(s)')
             /\ \A d \in Centers \ {CenterOf(s)'} : s \notin act[d].lists
    BY <1>1, <1>3 DEF ApprovedFits
<1> QED
    BY <1>2, <1>3 DEF ApprovedFits, Lists

\* A user's own step leaves the rows as they are.
LEMMA SavingOnly ==
    ASSUME CampaignIInv, NEW u \in Users, NEW row \in SavingRow, saving' = [saving EXCEPT ![u] = row],
           row.op = "asking" => \A was \in row.was, staged \in row.staged : StagedFits(was, staged),
           UNCHANGED <<scheduleVars, expected, approved, surplus, assetAt, act, requests, registered, documents, overwritten, disturbed>>
    PROVE  CampaignIInv' /\ SendsFit
<1>1. ScheduleIInv' /\ SendsFit /\ campaign' = campaign
    BY ScheduleStays DEF CampaignIInv, scheduleVars
<1>2. saving' \in [Users -> SavingRow] /\ saving'[u] = row /\ \A v \in Users \ {u} : saving'[v] = saving[v]
    BY SavingMoves DEF CampaignIInv, ActsIInv
<1>3. ActsTypeOK'
    BY <1>2 DEF CampaignIInv, ActsIInv, ActsTypeOK, SavingRow
<1>4. Steady
    BY DEF Steady, ActCenter
<1>5. ApprovedFits' /\ GenerationFits'
    BY <1>4, ApprovedStays DEF CampaignIInv, ActsIInv
<1>6. AskingFits'
    <2> SUFFICES ASSUME NEW v \in Users, saving'[v].op = "asking", NEW was \in saving'[v].was, NEW staged \in saving'[v].staged
                 PROVE  StagedFits(was, staged)'
        BY DEF AskingFits
    <2>1. StagedFits(was, staged)
        BY <1>2 DEF CampaignIInv, ActsIInv, AskingFits
    <2> QED
        BY <1>4, <1>5, <2>1, StagedStays
<1>7. RowsFit' /\ RegistrationsFit' /\ DocumentsFit'
    BY DEF CampaignIInv, ActsIInv, RowsFit, RowFits, RegistrationsFit, DocumentsFit
<1> QED
    BY <1>1, <1>3, <1>5, <1>6, <1>7 DEF CampaignIInv, ActsIInv

\* The operations read what they will save, and may fail.
LEMMA UserReads ==
    ASSUME CampaignIInv, NEW u \in Users,
           \/ \E s \in Surpluses, op \in {"report", "void", "category"} : ItemReads(u, op, s)
           \/ \E op \in {"close", "request", "approve"} : OperationReads(u, op)
           \/ OperationFails(u)
    PROVE  CampaignIInv' /\ SendsFit
<1>0. campaign \in Campaign /\ surplus \in [Surpluses -> SurplusRecord]
    BY DEF CampaignIInv, ScheduleIInv, ScheduleTypeOK, ActsIInv, ActsTypeOK
<1>1. ASSUME NEW s \in Surpluses, NEW op \in {"report", "void", "category"}, ItemReads(u, op, s)
      PROVE  CampaignIInv' /\ SendsFit
    <2>1. PICK row : row = [Idle EXCEPT !.op = op, !.item = {s}, !.copy = surplus[s]]
        OBVIOUS
    <2>2. row \in SavingRow /\ row.op = op
        BY <1>0, <2>1, EmptyRows DEF SavingRow
    <2>3. /\ saving' = [saving EXCEPT ![u] = row]
          /\ UNCHANGED <<scheduleVars, expected, approved, surplus, assetAt, act, requests, registered, documents, overwritten, disturbed>>
        BY <1>1, <2>1 DEF ItemReads
    <2> QED
        BY <2>2, <2>3, SavingOnly
<1>2. ASSUME NEW op \in {"close", "request", "approve"}, OperationReads(u, op) PROVE CampaignIInv' /\ SendsFit
    <2>1. PICK row : row = [Idle EXCEPT !.op = op, !.read = {campaign}]
        OBVIOUS
    <2>2. row \in SavingRow /\ row.op = op
        BY <1>0, <2>1, EmptyRows DEF SavingRow
    <2>3. /\ saving' = [saving EXCEPT ![u] = row]
          /\ UNCHANGED <<scheduleVars, expected, approved, surplus, assetAt, act, requests, registered, documents, overwritten, disturbed>>
        BY <1>2, <2>1 DEF OperationReads
    <2> QED
        BY <2>2, <2>3, SavingOnly
<1>3. ASSUME OperationFails(u) PROVE CampaignIInv' /\ SendsFit
    <2>1. PICK row \in SavingRow : row = Idle /\ row.op = "idle"
        BY EmptyRows
    <2>2. /\ saving' = [saving EXCEPT ![u] = row]
          /\ UNCHANGED <<scheduleVars, expected, approved, surplus, assetAt, act, requests, registered, documents, overwritten, disturbed>>
        BY <1>3, <2>1 DEF OperationFails
    <2> QED
        BY <2>1, <2>2, SavingOnly
<1> QED
    BY <1>1, <1>2, <1>3

\* Whoever changes a surplus during an approval or after it disturbs it; before
\* that there is nothing to keep.
LEMMA Disturbing ==
    ASSUME NEW s \in Surpluses, Disturbs(s), ApprovalBegun,
           \A t \in Surpluses \ {s} : surplus'[t] = surplus[t] /\ assetAt'[t] = assetAt[t]
    PROVE  Steady
<1>1. disturbed' = disturbed \cup {s}
    BY DEF Disturbs
<1>2. \A t \in Surpluses \ {s} : ActCenter(surplus', assetAt', t) = ActCenter(surplus, assetAt, t)
    BY DEF ActCenter
<1> QED
    BY <1>1, <1>2 DEF Steady

LEMMA NothingBegun ==
    ASSUME ~ApprovalBegun, approved' = approved,
           \A u \in Users : saving'[u].op = "asking" => saving'[u] = saving[u]
    PROVE  ApprovedFits' /\ AskingFits'
BY DEF ApprovalBegun, ApprovedFits, AskingFits

\* reportUnexpected, voidSurplus and setFindingCategory save what they read.
LEMMA ItemSaved == ASSUME CampaignIInv, NEW u \in Users, ItemSaves(u) PROVE CampaignIInv' /\ SendsFit
<1>0. /\ ActsIInv /\ ActsTypeOK /\ saving \in [Users -> SavingRow] /\ surplus \in [Surpluses -> SurplusRecord]
      /\ assetAt \in [Surpluses -> Centers \cup {NoCenter}]
      /\ UNCHANGED <<scheduleVars, expected, approved, act, requests, registered, documents>>
    BY DEF CampaignIInv, ActsIInv, ActsTypeOK, SavingRow, ItemSaves
<1>1. ScheduleIInv' /\ SendsFit /\ campaign' = campaign
    BY <1>0, ScheduleStays DEF CampaignIInv, scheduleVars
<1>2. PICK idle \in SavingRow : idle = Idle /\ idle.op = "idle"
    BY EmptyRows
<1>3. saving' = [saving EXCEPT ![u] = idle]
    BY <1>2 DEF ItemSaves
<1>4. /\ saving' \in [Users -> SavingRow] /\ saving'[u].op = "idle"
      /\ \A v \in Users \ {u} : saving'[v] = saving[v]
    BY <1>0, <1>2, <1>3, SavingMoves
<1>5. \A v \in Users : saving'[v].op = "asking" => saving'[v] = saving[v]
    BY <1>4
<1>6. PICK row : row = SavedItem(u)
    OBVIOUS
<1>7. PICK copy \in SurplusRecord : copy = saving[u].copy
    BY <1>0 DEF SavingRow
<1>8. row \in SurplusRecord /\ row.created = copy.created
    BY <1>6, <1>7 DEF SavedItem, SurplusRecord
<1>9. PICK s \in Surpluses :
        /\ surplus' = [surplus EXCEPT ![s] = row]
        /\ assetAt' = IF row.created THEN assetAt ELSE [assetAt EXCEPT ![s] = NoCenter]
        /\ overwritten' = IF surplus[s] = copy THEN overwritten ELSE overwritten \cup {s}
        /\ Disturbs(s)
    BY <1>0, <1>6, <1>7 DEF ItemSaves, SavingRow
<1>10. /\ surplus' \in [Surpluses -> SurplusRecord] /\ surplus'[s] = row
       /\ \A t \in Surpluses \ {s} : surplus'[t] = surplus[t]
    BY <1>0, <1>8, <1>9
<1>11. assetAt' \in [Surpluses -> Centers \cup {NoCenter}] /\ \A t \in Surpluses \ {s} : assetAt'[t] = assetAt[t]
    BY <1>0, <1>9
<1>12. overwritten \subseteq overwritten'
    BY <1>9
<1>13. overwritten' \subseteq Surpluses \cup Centers /\ disturbed' \subseteq Surpluses /\ (surplus[s] = copy \/ s \in overwritten')
    BY <1>0, <1>9 DEF ActsTypeOK, Disturbs
<1>14. ActsTypeOK'
    BY <1>0, <1>4, <1>10, <1>11, <1>13 DEF ActsTypeOK, SavingRow
<1>15. RowsFit' /\ GenerationFits'
    BY <1>0 DEF ActsIInv, RowsFit, RowFits, GenerationFits
<1>16. ApprovedFits' /\ AskingFits'
    <2>1. CASE ApprovalBegun
        <3>1. Steady
            BY <1>9, <1>10, <1>11, <2>1, Disturbing
        <3> QED
            BY <1>0, <1>5, <3>1, ApprovedStays, AskingStays DEF ActsIInv
    <2>2. CASE ~ApprovalBegun
        BY <1>0, <1>5, <2>2, NothingBegun
    <2> QED
        BY <2>1, <2>2
<1>17. RegistrationsFit'
    <2> SUFFICES ASSUME NEW t \in Surpluses \ overwritten'
                 PROVE  registered[t] <= 1 /\ (registered[t] = 1 => surplus'[t].created)
        BY <1>0 DEF RegistrationsFit
    <2>1. registered[t] <= 1 /\ (registered[t] = 1 => surplus[t].created)
        BY <1>0, <1>12 DEF ActsIInv, RegistrationsFit
    <2> QED
        BY <1>8, <1>10, <1>13, <2>1
<1>18. DocumentsFit'
    BY <1>0, <1>12 DEF ActsIInv, DocumentsFit
<1> QED
    BY <1>0, <1>1, <1>14, <1>15, <1>16, <1>17, <1>18 DEF CampaignIInv, ActsIInv

\* The inventory is saved as it was read, with its new status.
LEMMA CampaignSaved ==
    ASSUME CampaignIInv, NEW u \in Users, NEW status \in {"CLOSED", "RECONCILED"}, NEW requested \in BOOLEAN,
           SaveCampaign(u, status, requested)
    PROVE  ScheduleIInv' /\ SendsFit /\ campaign'.status = status
<1>0. /\ ScheduleIInv /\ saving[u].read \in SUBSET Campaign
      /\ starting \in [Starters -> SUBSET Campaign] /\ \A x \in Starters : Cardinality(starting[x]) <= 1
      /\ UNCHANGED <<reminder, reminderWorker, starting, clock, reminderDeaths>>
    BY DEF CampaignIInv, ScheduleIInv, ScheduleTypeOK, ActsIInv, ActsTypeOK, SaveCampaign
<1>1. PICK read \in Campaign : campaign' = [read EXCEPT !.status = status, !.requested = requested]
    BY <1>0 DEF SaveCampaign
<1>2. campaign' \in Campaign /\ campaign'.status = status
    <2>1. status \in CampaignStatus
        BY DEF CampaignStatus
    <2> QED
        BY <1>1, <2>1, SavedCampaign
<1> QED
    BY <1>0, <1>2, SaveKeepsSchedule

\* What a synchronisation of the acts with the cost centers that have items does.
LEMMA SyncedRows ==
    ASSUME ActsIInv, NEW centers
    PROVE  /\ Synced(centers) \in [Centers -> ActRecord]
           /\ \A c \in Centers :
                /\ RowFits(Synced(centers)[c])
                /\ c \in centers => Synced(centers)[c].there
                /\ act[c].there /\ c \in centers => Synced(centers)[c] = act[c]
                /\ act[c].generation = "ENQUEUED" => Synced(centers)[c] = act[c]
                /\ act[c].generation # "ENQUEUED" => Synced(centers)[c].generation # "ENQUEUED"
                /\ ~Synced(centers)[c].there => Synced(centers)[c].generation = "NONE" /\ (act[c].there => Synced(centers)[c] = NoAct)
                /\ Synced(centers)[c].generation # "NONE" => Synced(centers)[c] = act[c]
                /\ Synced(centers)[c].lists \subseteq act[c].lists
                /\ Synced(centers)[c].document <=> act[c].document
<1>0. act \in [Centers -> ActRecord] /\ RowsFit
    BY DEF ActsIInv, ActsTypeOK
<1>1. PICK synced : synced = Synced(centers)
    OBVIOUS
<1>2. /\ DOMAIN synced = Centers /\ synced = [c \in Centers |-> synced[c]]
      /\ \A c \in Centers : synced[c] = IF act[c].there /\ act[c].generation # "ENQUEUED" /\ c \notin centers THEN NoAct
                                        ELSE IF ~act[c].there /\ c \in centers THEN NewAct(c) ELSE act[c]
    BY <1>1 DEF Synced
<1>3. ASSUME NEW c \in Centers
      PROVE  /\ synced[c] \in ActRecord /\ RowFits(synced[c])
             /\ c \in centers => synced[c].there
             /\ act[c].there /\ c \in centers => synced[c] = act[c]
             /\ act[c].generation = "ENQUEUED" => synced[c] = act[c]
             /\ act[c].generation # "ENQUEUED" => synced[c].generation # "ENQUEUED"
             /\ ~synced[c].there => synced[c].generation = "NONE" /\ (act[c].there => synced[c] = NoAct)
             /\ synced[c].generation # "NONE" => synced[c] = act[c]
             /\ synced[c].lists \subseteq act[c].lists
             /\ synced[c].document <=> act[c].document
    <2>1. act[c] \in ActRecord /\ RowFits(act[c])
        BY <1>0 DEF RowsFit
    <2>2. CASE act[c].there /\ act[c].generation # "ENQUEUED" /\ c \notin centers
        <3>1. synced[c] = NoAct
            BY <1>2, <2>2
        <3> QED
            BY <2>1, <2>2, <3>1, EmptyRows DEF RowFits
    <2>3. CASE ~act[c].there /\ c \in centers
        <3>1. synced[c] = NewAct(c) /\ act[c].generation = "NONE" /\ ~act[c].document /\ act[c].lists = {}
            BY <1>2, <2>1, <2>3 DEF RowFits, ActRecord
        <3> QED
            BY <2>3, <3>1, NewActRow
    <2>4. CASE ~(act[c].there /\ act[c].generation # "ENQUEUED" /\ c \notin centers) /\ ~(~act[c].there /\ c \in centers)
        <3>1. synced[c] = act[c]
            BY <1>2, <2>4
        <3> QED
            BY <2>1, <2>4, <3>1 DEF RowFits, ActRecord
    <2> QED
        BY <2>2, <2>3, <2>4
<1>4. synced \in [Centers -> ActRecord]
    BY <1>2, <1>3
<1> QED
    BY <1>1, <1>3, <1>4

-----------------------------------------------------------------------------

\* A synchronisation keeps the acts that an approval left.
LEMMA SyncKeeps ==
    ASSUME ActsIInv, NEW centers, act' = Synced(centers), UNCHANGED <<documents, approved>>,
           overwritten \subseteq overwritten'
    PROVE  /\ act' \in [Centers -> ActRecord] /\ RowsFit' /\ GenerationFits' /\ DocumentsFit'
           /\ \A c \in Centers : act'[c].document => act'[c].generation = "ENQUEUED" /\ documents'[c] > 0
<1>1. PICK synced : synced = Synced(centers)
    OBVIOUS
<1>2. /\ synced \in [Centers -> ActRecord] /\ act' = synced
      /\ \A c \in Centers : /\ RowFits(synced[c]) /\ (act[c].there /\ c \in centers => synced[c] = act[c])
                            /\ (synced[c].generation # "NONE" => synced[c] = act[c])
                            /\ (synced[c].document <=> act[c].document)
    BY <1>1, SyncedRows
<1>3. RowsFit'
    BY <1>2 DEF RowsFit, RowFits
<1>4. GenerationFits'
    BY <1>2 DEF ActsIInv, GenerationFits
<1>5. DocumentsFit'
    BY <1>2 DEF ActsIInv, DocumentsFit
<1>6. \A c \in Centers : act'[c].document => act'[c].generation = "ENQUEUED" /\ documents'[c] > 0
    BY <1>2 DEF ActsIInv, ActsTypeOK, RowFits
<1> QED
    BY <1>2, <1>3, <1>4, <1>5, <1>6

\* applyOnClose
LEMMA Closed == ASSUME CampaignIInv, NEW u \in Users, CloseSaves(u) PROVE CampaignIInv' /\ SendsFit
<1>0. /\ ActsIInv /\ ActsTypeOK
      /\ UNCHANGED <<expected, approved, surplus, assetAt, requests, registered, documents, overwritten, disturbed>>
    BY DEF CampaignIInv, ActsIInv, CloseSaves
<1>1. ScheduleIInv' /\ SendsFit /\ campaign'.status = "CLOSED"
    BY CampaignSaved DEF CloseSaves
<1>2. PICK idle \in SavingRow : idle = Idle /\ idle.op = "idle"
    BY EmptyRows
<1>3. saving' = [saving EXCEPT ![u] = idle]
    BY <1>2 DEF CloseSaves
<1>4. /\ saving' \in [Users -> SavingRow] /\ saving'[u].op = "idle"
      /\ \A v \in Users \ {u} : saving'[v] = saving[v]
    BY <1>0, <1>2, <1>3, SavingMoves
<1>5. PICK centers : centers = CentersOf(surplus, assetAt)
    OBVIOUS
<1>6. act' = Synced(centers) /\ \A c \in centers : ~act[c].there
    BY <1>5 DEF CloseSaves
<1>7. /\ act' \in [Centers -> ActRecord] /\ RowsFit' /\ GenerationFits' /\ DocumentsFit'
      /\ \A c \in Centers : act'[c].document => act'[c].generation = "ENQUEUED" /\ documents'[c] > 0
    BY <1>0, <1>6, SyncKeeps
<1>8. Steady
    BY <1>0 DEF Steady, ActCenter
<1>9. ActsTypeOK'
    BY <1>0, <1>4, <1>7 DEF ActsTypeOK, SavingRow
<1>10. ApprovedFits'
    <2>1. ASSUME approved, NEW s \in Settled PROVE FALSE
        <3>1. PICK home \in Centers : home = CenterOf(s)
            BY <1>0, <2>1 DEF ActsIInv, ApprovedFits
        <3>2. act[home].there
            BY <1>0, <2>1, <3>1 DEF ActsIInv, ApprovedFits, Lists
        <3>3. home \in centers
            BY <1>5, <3>1, ActsAssumption DEF CentersOf, Settled, CenterOf
        <3> QED
            BY <1>6, <3>2, <3>3
    <2>2. \A s \in Settled' : s \in Settled
        BY <1>8, SettledStays
    <2> QED
        BY <1>0, <2>1, <2>2 DEF ApprovedFits
<1>11. AskingFits'
    BY <1>0, <1>4, <1>8, AskingStays DEF ActsIInv
<1>12. RegistrationsFit'
    BY <1>0 DEF ActsIInv, RegistrationsFit
<1> QED
    BY <1>1, <1>7, <1>9, <1>10, <1>11, <1>12 DEF CampaignIInv, ActsIInv

\* requestReconcile saves the inventory it read.
LEMMA Requested == ASSUME CampaignIInv, NEW u \in Users, RequestSaves(u) PROVE CampaignIInv' /\ SendsFit
<1>0. /\ ActsIInv /\ ActsTypeOK
      /\ UNCHANGED <<expected, approved, surplus, assetAt, act, requests, registered, documents, overwritten, disturbed>>
    BY DEF CampaignIInv, ActsIInv, RequestSaves
<1>1. ScheduleIInv' /\ SendsFit /\ campaign'.status = "CLOSED"
    BY CampaignSaved DEF RequestSaves
<1>2. PICK idle \in SavingRow : idle = Idle /\ idle.op = "idle"
    BY EmptyRows
<1>3. saving' = [saving EXCEPT ![u] = idle]
    BY <1>2 DEF RequestSaves
<1>4. /\ saving' \in [Users -> SavingRow] /\ saving'[u].op = "idle"
      /\ \A v \in Users \ {u} : saving'[v] = saving[v]
    BY <1>0, <1>2, <1>3, SavingMoves
<1>5. Steady
    BY <1>0 DEF Steady, ActCenter
<1>6. ApprovedFits' /\ GenerationFits'
    BY <1>0, <1>5, ApprovedStays DEF ActsIInv
<1>7. AskingFits'
    BY <1>0, <1>4, <1>5, <1>6, AskingStays DEF ActsIInv
<1>8. ActsTypeOK'
    BY <1>0, <1>4 DEF ActsTypeOK, SavingRow
<1>9. RowsFit' /\ RegistrationsFit' /\ DocumentsFit'
    BY <1>0 DEF ActsIInv, RowsFit, RowFits, RegistrationsFit, DocumentsFit
<1> QED
    BY <1>1, <1>6, <1>7, <1>8, <1>9 DEF CampaignIInv, ActsIInv

\* tryEnqueue
LEMMA AskedRow ==
    ASSUME NEW row \in ActRecord, NEW c \in Centers, NEW ready \in BOOLEAN, RowFits(row), row.there, row.generation # "ENQUEUED"
    PROVE  /\ Asked(row, c, ready) \in ActRecord /\ RowFits(Asked(row, c, ready))
           /\ Asked(row, c, ready).there /\ ~Asked(row, c, ready).document
           /\ Asked(row, c, ready).generation \in {"NOT_ENQUEUED", "ENQUEUED"}
           /\ Asked(row, c, ready).generation = "ENQUEUED" => Asked(row, c, ready).lists = ListedAt(c)
           /\ Asked(row, c, ready).generation # "ENQUEUED" => Asked(row, c, ready).lists = {}
<1>1. PICK listed \in SUBSET Surpluses : listed = ListedAt(c)
    BY DEF ListedAt, Live
<1>2. Asked(row, c, ready) = IF ready /\ row.signer THEN [row EXCEPT !.generation = "ENQUEUED", !.lists = listed]
                             ELSE [row EXCEPT !.generation = "NOT_ENQUEUED"]
    BY <1>1 DEF Asked
<1>3. CASE ready /\ row.signer
    BY <1>1, <1>2, <1>3 DEF ActRecord, RowFits
<1>4. CASE ~(ready /\ row.signer)
    BY <1>1, <1>2, <1>4 DEF ActRecord, RowFits
<1> QED
    BY <1>3, <1>4

\* enqueueOnApproval: what it is about to save fits what it has looked at.
LEMMA Staging ==
    ASSUME CampaignIInv, NEW ready \in SUBSET Centers, NoneUnassigned, NEW staged,
           staged = [c \in Centers |->
              LET row == Synced(CentersOf(surplus, assetAt))[c]
              IN  IF row.there /\ row.generation # "ENQUEUED" THEN Asked(row, c, c \in ready) ELSE row]
    PROVE  staged \in [Centers -> ActRecord] /\ StagedFits(act, staged)
<1>0. ActsIInv /\ ActsTypeOK /\ act \in [Centers -> ActRecord] /\ RowsFit
    BY DEF CampaignIInv, ActsIInv, ActsTypeOK
<1>1. PICK centers : centers = CentersOf(surplus, assetAt)
    OBVIOUS
<1>3. PICK synced : synced = Synced(centers)
    OBVIOUS
<1>4. /\ synced \in [Centers -> ActRecord]
      /\ \A c \in Centers :
           /\ RowFits(synced[c]) /\ (c \in centers => synced[c].there)
           /\ (act[c].generation = "ENQUEUED" => synced[c] = act[c])
           /\ (act[c].generation # "ENQUEUED" => synced[c].generation # "ENQUEUED")
           /\ (~synced[c].there => synced[c].generation = "NONE" /\ (act[c].there => synced[c] = NoAct))
    BY <1>0, <1>3, SyncedRows
<1>5. /\ DOMAIN staged = Centers /\ staged = [c \in Centers |-> staged[c]]
      /\ \A c \in Centers : staged[c] = IF synced[c].there /\ synced[c].generation # "ENQUEUED"
                                        THEN Asked(synced[c], c, c \in ready) ELSE synced[c]
    BY <1>1, <1>3
<1>6. ASSUME NEW c \in Centers
      PROVE  /\ staged[c] \in ActRecord /\ RowFits(staged[c]) /\ (c \in centers => staged[c].there)
             /\ (staged[c].there /\ act[c].generation # "ENQUEUED" =>
                   /\ ~staged[c].document /\ staged[c].generation \in {"NOT_ENQUEUED", "ENQUEUED"}
                   /\ (staged[c].generation = "ENQUEUED" => staged[c].lists = ListedAt(c))
                   /\ (staged[c].generation # "ENQUEUED" => staged[c].lists = {}))
             /\ (act[c].there /\ ~staged[c].there => staged[c] = NoAct /\ act[c].generation # "ENQUEUED")
    <2>1. synced[c] \in ActRecord
        BY <1>4
    <2>2. CASE synced[c].there /\ synced[c].generation # "ENQUEUED"
        <3>1. PICK asks \in BOOLEAN : asks = (c \in ready)
            <4>1. (c \in ready) \in BOOLEAN
                OBVIOUS
            <4> QED
                BY <4>1, Zenon
        <3>2. staged[c] = Asked(synced[c], c, c \in ready)
            BY <1>5, <2>2
        <3>3. staged[c] = Asked(synced[c], c, asks)
            BY <3>1, <3>2, Zenon
        <3>4. /\ Asked(synced[c], c, asks) \in ActRecord /\ RowFits(Asked(synced[c], c, asks))
              /\ Asked(synced[c], c, asks).there /\ ~Asked(synced[c], c, asks).document
              /\ Asked(synced[c], c, asks).generation \in {"NOT_ENQUEUED", "ENQUEUED"}
              /\ Asked(synced[c], c, asks).generation = "ENQUEUED" => Asked(synced[c], c, asks).lists = ListedAt(c)
              /\ Asked(synced[c], c, asks).generation # "ENQUEUED" => Asked(synced[c], c, asks).lists = {}
            BY <1>4, <2>1, <2>2, AskedRow
        <3> QED
            BY <3>3, <3>4
    <2>3. CASE ~(synced[c].there /\ synced[c].generation # "ENQUEUED")
        <3>1. staged[c] = synced[c]
            BY <1>5, <2>3
        <3> QED
            BY <1>4, <2>1, <2>3, <3>1
    <2> QED
        BY <2>2, <2>3
<1>7. staged \in [Centers -> ActRecord]
    BY <1>5, <1>6
<1>8. ASSUME NEW s \in Settled
      PROVE  /\ CenterOf(s) \in Centers /\ staged[CenterOf(s)].there
             /\ (CenterOf(s) \in Written(act, staged) => Lists(staged, s, CenterOf(s)))
             /\ \A d \in Written(act, staged) \ {CenterOf(s)} : s \notin staged[d].lists
    <2>1. s \in Surpluses /\ s \in Live(surplus)
        BY DEF Settled, Live
    <2>2. PICK c : c = CenterOf(s)
        OBVIOUS
    <2>3. c = ActCenter(surplus, assetAt, s) /\ c \in Centers
        BY <1>0, <2>1, <2>2 DEF NoneUnassigned, CenterOf, ActCenter, ActsTypeOK, SurplusRecord
    <2>4. c \in centers
        BY <1>1, <2>1, <2>3, ActsAssumption DEF CentersOf
    <2>5. \A d \in Centers : s \in ListedAt(d) <=> d = c
        BY <2>1, <2>3 DEF ListedAt
    <2>6. c \in Written(act, staged) => Lists(staged, s, c)
        BY <1>6, <2>3, <2>5 DEF Written, Lists
    <2>7. \A d \in Written(act, staged) \ {c} : s \notin staged[d].lists
        BY <1>6, <2>5 DEF Written
    <2> QED
        BY <1>6, <2>2, <2>3, <2>4, <2>6, <2>7
<1>9. \A c \in Centers : RowFits(act[c]) /\ RowFits(staged[c])
    BY <1>0, <1>6 DEF RowsFit
<1>10. (\E c \in Centers : act[c].generation = "ENQUEUED") => approved
    BY <1>0 DEF ActsIInv, GenerationFits
<1>11. /\ \A c \in Written(act, staged) : staged[c].generation # "NONE" /\ ~staged[c].document
       /\ \A c \in Deleted(act, staged) : staged[c] = NoAct /\ act[c].generation # "ENQUEUED"
    BY <1>6 DEF Written, Deleted
<1> QED
    BY <1>7, <1>8, <1>9, <1>10, <1>11 DEF StagedFits

LEMMA ApprovalAsks ==
    ASSUME CampaignIInv, NEW u \in Users, NEW ready \in SUBSET Centers, ApproveAsks(u, ready)
    PROVE  CampaignIInv' /\ SendsFit
<1>0. /\ act \in [Centers -> ActRecord] /\ saving \in [Users -> SavingRow] /\ NoneUnassigned
      /\ UNCHANGED <<scheduleVars, expected, approved, surplus, assetAt, act, requests, registered, documents, overwritten, disturbed>>
    BY DEF CampaignIInv, ActsIInv, ActsTypeOK, SavingRow, ApproveAsks
<1>1. PICK staged : staged = [c \in Centers |->
              LET row == Synced(CentersOf(surplus, assetAt))[c]
              IN  IF row.there /\ row.generation # "ENQUEUED" THEN Asked(row, c, c \in ready) ELSE row]
    OBVIOUS
<1>2. staged \in [Centers -> ActRecord] /\ StagedFits(act, staged)
    BY <1>0, <1>1, Staging
<1>3. PICK was : was = act
    OBVIOUS
<1>4. saving' = [saving EXCEPT ![u].op = "asking", ![u].was = {was}, ![u].staged = {staged}]
    BY <1>1, <1>3 DEF ApproveAsks
<1>5. PICK row : row = [saving[u] EXCEPT !.op = "asking", !.was = {was}, !.staged = {staged}]
    OBVIOUS
<1>6. row \in SavingRow /\ row.was = {was} /\ row.staged = {staged}
    BY <1>0, <1>2, <1>3, <1>5 DEF SavingRow
<1>7. saving' = [saving EXCEPT ![u] = row]
    BY <1>0, <1>4, <1>5
<1>8. \A w \in row.was, s \in row.staged : StagedFits(w, s)
    BY <1>2, <1>3, <1>6
<1> QED
    BY <1>0, <1>6, <1>7, <1>8, SavingOnly

\* What an approval saves, over whatever the acts are by then.
LEMMA Saved ==
    ASSUME ActsIInv, NEW was \in [Centers -> ActRecord], NEW staged \in [Centers -> ActRecord], StagedFits(was, staged),
           NEW changed \in SUBSET Centers, changed = Written(was, staged) \cup Deleted(was, staged),
           act' \in [Centers -> ActRecord], \A c \in Centers : act'[c] = IF c \in changed THEN staged[c] ELSE act[c],
           overwritten \subseteq overwritten', \A c \in changed : act[c] # was[c] => c \in overwritten',
           approved' = TRUE, UNCHANGED <<surplus, assetAt, documents, disturbed>>
    PROVE  /\ RowsFit' /\ GenerationFits' /\ ApprovedFits' /\ DocumentsFit'
           /\ \A c \in Centers : act'[c].document => act'[c].generation = "ENQUEUED" /\ documents'[c] > 0
<1>0. act \in [Centers -> ActRecord] /\ documents \in [Centers -> Nat] /\ RowsFit
    BY DEF ActsIInv, ActsTypeOK
<1>1. \A c \in Centers : IF c \in changed THEN act'[c] = staged[c] ELSE act'[c] = act[c]
    OBVIOUS
<1>3. RowsFit'
    BY <1>0, <1>1 DEF RowsFit, StagedFits, RowFits
<1>4. \A c \in changed : /\ was[c].generation # "ENQUEUED" /\ ~was[c].document /\ ~staged[c].document
    BY EmptyRows DEF StagedFits, Written, Deleted, RowFits
<1>5. ASSUME NEW c \in Centers, staged[c].there, c \notin changed
      PROVE  was[c].generation = "ENQUEUED" /\ approved
    BY <1>5 DEF StagedFits, Written
<1>7. GenerationFits'
    BY DEF GenerationFits
<1>8. ASSUME NEW s \in Settled
      PROVE  /\ CenterOf(s) \in Centers /\ Lists(act', s, CenterOf(s))
             /\ \A d \in Centers \ {CenterOf(s)} : s \notin act'[d].lists
    <2>1. PICK home \in Centers : home = CenterOf(s)
        BY DEF StagedFits
    <2>2. staged[home].there /\ (home \in Written(was, staged) => Lists(staged, s, home))
        BY <2>1 DEF StagedFits
    <2>3. Lists(act', s, home)
        <3>1. CASE home \in changed
            <4>1. home \in Written(was, staged)
                BY <2>2, <3>1 DEF Written, Deleted
            <4> QED
                BY <1>1, <2>2, <3>1, <4>1 DEF Lists
        <3>2. CASE home \notin changed
            BY <1>1, <1>5, <2>1, <2>2, <3>2 DEF ActsIInv, ApprovedFits, Lists
        <3> QED
            BY <3>1, <3>2
    <2>4. ASSUME NEW d \in Centers \ {home} PROVE s \notin act'[d].lists
        <3>1. CASE d \in Written(was, staged)
            BY <1>1, <2>1, <3>1 DEF StagedFits
        <3>2. CASE d \in Deleted(was, staged)
            BY <1>1, <3>2, EmptyRows DEF StagedFits
        <3>3. CASE d \notin changed /\ approved
            BY <1>1, <2>1, <3>3 DEF ActsIInv, ApprovedFits
        <3>4. CASE d \notin changed /\ ~approved
            <4>1. act[d].generation = "NONE" /\ RowFits(act[d])
                BY <1>0, <3>4 DEF ActsIInv, GenerationFits, RowsFit
            <4> QED
                BY <1>1, <3>4, <4>1 DEF RowFits
        <3> QED
            BY <3>1, <3>2, <3>3, <3>4
    <2> QED
        BY <2>1, <2>3, <2>4
<1>9. ApprovedFits'
    <2>1. Steady
        BY DEF Steady, ActCenter
    <2>2. \A s \in Settled' : s \in Settled /\ CenterOf(s)' = CenterOf(s)
        BY <2>1, SettledStays
    <2>3. \A s \in Settled' : /\ CenterOf(s)' \in Centers /\ Lists(act', s, CenterOf(s)')
                              /\ \A d \in Centers \ {CenterOf(s)'} : s \notin act'[d].lists
        BY <1>8, <2>2
    <2> QED
        BY <2>3 DEF ApprovedFits, Lists
<1>10. DocumentsFit'
    <2> SUFFICES ASSUME NEW c \in Centers \ overwritten'
                 PROVE  documents[c] <= 1 /\ (documents[c] = 1 => act'[c].document)
        BY DEF DocumentsFit
    <2>1. documents[c] <= 1 /\ (documents[c] = 1 => act[c].document)
        BY DEF ActsIInv, DocumentsFit
    <2>2. c \in changed => ~act[c].document
        BY <1>4
    <2> QED
        BY <1>1, <2>1, <2>2
<1>11. \A c \in Centers : act'[c].document => act'[c].generation = "ENQUEUED" /\ documents'[c] > 0
    BY <1>1, <1>4 DEF ActsIInv, ActsTypeOK
<1> QED
    BY <1>3, <1>7, <1>9, <1>10, <1>11

LEMMA ApprovalCommits ==
    ASSUME CampaignIInv, NEW u \in Users, ApproveCommits(u) PROVE CampaignIInv' /\ SendsFit
<1>0. /\ ActsIInv /\ ActsTypeOK /\ saving \in [Users -> SavingRow] /\ saving[u].op = "asking"
      /\ requests \in [Centers -> Nat] /\ approved' = TRUE
      /\ UNCHANGED <<expected, surplus, assetAt, registered, documents, disturbed>>
    BY DEF CampaignIInv, ActsIInv, ActsTypeOK, SavingRow, ApproveCommits
<1>1. ScheduleIInv' /\ SendsFit /\ campaign'.status = "RECONCILED"
    BY CampaignSaved DEF ApproveCommits
<1>2. PICK idle \in SavingRow : idle = Idle /\ idle.op = "idle"
    BY EmptyRows
<1>3. saving' = [saving EXCEPT ![u] = idle]
    BY <1>2 DEF ApproveCommits
<1>4. /\ saving' \in [Users -> SavingRow] /\ saving'[u].op = "idle"
      /\ \A v \in Users \ {u} : saving'[v] = saving[v]
    BY <1>0, <1>2, <1>3, SavingMoves
<1>5. PICK was \in saving[u].was, staged \in saving[u].staged :
        LET written == {c \in Centers : staged[c].there /\ was[c].generation # "ENQUEUED"}
            deleted == {c \in Centers : was[c].there /\ ~staged[c].there}
        IN  /\ act' = [c \in Centers |-> IF c \in written \cup deleted THEN staged[c] ELSE act[c]]
            /\ requests' = [c \in Centers |->
                  IF c \in deleted THEN 0
                  ELSE IF c \in written /\ staged[c].generation = "ENQUEUED" THEN requests[c] + 1 ELSE requests[c]]
            /\ overwritten' = overwritten \cup {c \in written \cup deleted : act[c] # was[c]}
    BY DEF ApproveCommits
<1>6. was \in [Centers -> ActRecord] /\ staged \in [Centers -> ActRecord]
    BY <1>0, <1>5 DEF SavingRow
<1>7. PICK written \in SUBSET Centers : written = {c \in Centers : staged[c].there /\ was[c].generation # "ENQUEUED"}
    OBVIOUS
<1>8. PICK deleted \in SUBSET Centers : deleted = {c \in Centers : was[c].there /\ ~staged[c].there}
    OBVIOUS
<1>9. written = Written(was, staged) /\ deleted = Deleted(was, staged)
    BY <1>7, <1>8, Zenon DEF Written, Deleted
<1>10. /\ act' = [c \in Centers |-> IF c \in written \cup deleted THEN staged[c] ELSE act[c]]
      /\ requests' = [c \in Centers |->
            IF c \in deleted THEN 0
            ELSE IF c \in written /\ staged[c].generation = "ENQUEUED" THEN requests[c] + 1 ELSE requests[c]]
      /\ overwritten' = overwritten \cup {c \in written \cup deleted : act[c] # was[c]}
    BY <1>5, <1>7, <1>8, Zenon
<1>11. PICK changed \in SUBSET Centers : changed = written \cup deleted
    OBVIOUS
<1>12. StagedFits(was, staged)
    BY <1>0, <1>5 DEF ActsIInv, AskingFits
<1>13. /\ changed = Written(was, staged) \cup Deleted(was, staged)
      /\ act' = [c \in Centers |-> IF c \in changed THEN staged[c] ELSE act[c]]
      /\ overwritten' = overwritten \cup {c \in changed : act[c] # was[c]}
    BY <1>9, <1>10, <1>11, Zenon
<1>14. /\ act' \in [Centers -> ActRecord]
      /\ RowsFit' /\ GenerationFits' /\ ApprovedFits' /\ DocumentsFit'
      /\ \A c \in Centers : act'[c].document => act'[c].generation = "ENQUEUED" /\ documents'[c] > 0
    <2>1. act \in [Centers -> ActRecord]
        BY <1>0 DEF ActsTypeOK
    <2>2. act' \in [Centers -> ActRecord] /\ \A c \in Centers : act'[c] = IF c \in changed THEN staged[c] ELSE act[c]
        BY <1>6, <1>13, <2>1
    <2>3. overwritten \subseteq overwritten' /\ \A c \in changed : act[c] # was[c] => c \in overwritten'
        BY <1>13
    <2>4. changed = Written(was, staged) \cup Deleted(was, staged)
        BY <1>13
    <2> QED
        BY <1>0, <1>6, <1>12, <2>2, <2>3, <2>4, Saved
<1>15. requests' \in [Centers -> Nat]
    BY <1>0, <1>10
<1>16. overwritten \subseteq overwritten' /\ overwritten' \subseteq Surpluses \cup Centers
    BY <1>0, <1>13 DEF ActsTypeOK
<1>17. ActsTypeOK'
    BY <1>0, <1>4, <1>14, <1>15, <1>16 DEF ActsTypeOK, SavingRow
<1>18. Steady
    BY <1>0 DEF Steady, ActCenter
<1>19. AskingFits'
    BY <1>0, <1>4, <1>18, AskingStays DEF ActsIInv
<1>20. RegistrationsFit'
    BY <1>0, <1>16 DEF ActsIInv, RegistrationsFit
<1> QED
    BY <1>0, <1>1, <1>14, <1>17, <1>19, <1>20 DEF CampaignIInv, ActsIInv

-----------------------------------------------------------------------------

\* What setCenter, resolve and a transfer of the new asset have in common: one
\* surplus changes, and the acts are brought up to date with the cost centers
\* that have items, or stay.
LEMMA SurplusChanges ==
    ASSUME CampaignIInv, NEW s \in Surpluses, NEW centers, Disturbs(s),
           surplus' \in [Surpluses -> SurplusRecord], assetAt' \in [Surpluses -> Centers \cup {NoCenter}],
           \A t \in Surpluses \ {s} : surplus'[t] = surplus[t] /\ assetAt'[t] = assetAt[t],
           centers = CentersOf(surplus', assetAt'), act' = Synced(centers) \/ act' = act,
           registered' \in [Surpluses -> Nat], RegistrationsFit',
           UNCHANGED <<scheduleVars, expected, approved, saving, requests, documents, overwritten>>
    PROVE  CampaignIInv' /\ SendsFit
<1>0. ActsIInv /\ ActsTypeOK /\ campaign' = campaign /\ act \in [Centers -> ActRecord] /\ RowsFit
    BY DEF CampaignIInv, ActsIInv, ActsTypeOK, scheduleVars
<1>1. ScheduleIInv' /\ SendsFit
    BY ScheduleStays DEF CampaignIInv
<1>3. /\ act' \in [Centers -> ActRecord] /\ RowsFit' /\ GenerationFits' /\ DocumentsFit'
      /\ \A c \in Centers : act'[c].document => act'[c].generation = "ENQUEUED" /\ documents'[c] > 0
    <2>1. CASE act' = Synced(centers)
        BY <1>0, <2>1, SyncKeeps
    <2>2. CASE act' = act
        BY <1>0, <2>2 DEF ActsIInv, ActsTypeOK, RowsFit, RowFits, GenerationFits, DocumentsFit
    <2> QED
        BY <2>1, <2>2
<1>4. \A c \in Centers :
        /\ act[c].there /\ c \in centers => act'[c] = act[c]
        /\ act'[c].generation # "NONE" => act'[c] = act[c]
        /\ act'[c].lists \subseteq act[c].lists
    <2>1. CASE act' = Synced(centers)
        <3>1. PICK synced : synced = Synced(centers)
            OBVIOUS
        <3>2. \A c \in Centers :
                /\ act[c].there /\ c \in centers => synced[c] = act[c]
                /\ synced[c].generation # "NONE" => synced[c] = act[c]
                /\ synced[c].lists \subseteq act[c].lists
            BY <1>0, <3>1, SyncedRows
        <3> QED
            BY <2>1, <3>1, <3>2
    <2>2. CASE act' = act
        BY <2>2
    <2> QED
        BY <2>1, <2>2
<1>5. disturbed' \subseteq Surpluses
    BY <1>0 DEF ActsTypeOK, Disturbs
<1>6. ActsTypeOK'
    BY <1>0, <1>3, <1>5 DEF ActsTypeOK
<1>7. ApprovedFits' /\ AskingFits'
    <2>1. CASE ~ApprovalBegun
        BY <2>1, NothingBegun
    <2>2. CASE ApprovalBegun
        <3>1. Steady
            BY <2>2, Disturbing
        <3>2. AskingFits'
            BY <1>0, <3>1, AskingStays DEF ActsIInv
        <3>3. ApprovedFits'
            <4>1. ASSUME approved, NEW t \in Settled'
                  PROVE  /\ CenterOf(t)' \in Centers /\ Lists(act', t, CenterOf(t)')
                         /\ \A d \in Centers \ {CenterOf(t)'} : t \notin act'[d].lists
                <5>1. t \in Settled /\ CenterOf(t)' = CenterOf(t)
                    BY <3>1, SettledStays
                <5>2. PICK home \in Centers : home = CenterOf(t)
                    BY <1>0, <4>1, <5>1 DEF ActsIInv, ApprovedFits
                <5>3. Lists(act, t, home) /\ \A d \in Centers \ {home} : t \notin act[d].lists
                    BY <1>0, <4>1, <5>1, <5>2 DEF ActsIInv, ApprovedFits
                <5>4. home \in centers
                    <6>1. t \in Surpluses /\ surplus'[t].status = "LIVE"
                        BY DEF Settled, Live
                    <6>2. home = ActCenter(surplus', assetAt', t) /\ home # NoCenter
                        BY <5>1, <5>2, ActsAssumption DEF CenterOf
                    <6> QED
                        BY <6>1, <6>2 DEF CentersOf, Live
                <5>5. Lists(act', t, home) /\ \A d \in Centers \ {home} : t \notin act'[d].lists
                    BY <1>4, <5>3, <5>4 DEF Lists
                <5> QED
                    BY <5>1, <5>2, <5>5
            <4> QED
                BY <4>1 DEF ApprovedFits, Lists
        <3> QED
            BY <3>2, <3>3
    <2> QED
        BY <2>1, <2>2
<1>8. campaign'.status = "RECONCILED" => approved'
    BY <1>0, <1>3 DEF ActsIInv
<1> QED
    BY <1>1, <1>3, <1>6, <1>7, <1>8 DEF CampaignIInv, ActsIInv

\* setCenter
LEMMA CenterSet ==
    ASSUME CampaignIInv, NEW s \in Surpluses, NEW c \in Centers, SetCenter(s, c) PROVE CampaignIInv' /\ SendsFit
<1>0. /\ ActsIInv /\ surplus \in [Surpluses -> SurplusRecord] /\ assetAt \in [Surpluses -> Centers \cup {NoCenter}]
      /\ registered \in [Surpluses -> Nat] /\ registered' = registered /\ assetAt' = assetAt /\ Disturbs(s)
      /\ UNCHANGED <<scheduleVars, expected, approved, saving, requests, documents, overwritten>>
    BY DEF CampaignIInv, ActsIInv, ActsTypeOK, SetCenter, SetSurplus
<1>1. PICK row : row = [surplus[s] EXCEPT !.center = c]
    OBVIOUS
<1>2. row \in SurplusRecord /\ row.created = surplus[s].created
    BY <1>0, <1>1 DEF SurplusRecord
<1>3. surplus' = [surplus EXCEPT ![s] = row]
    BY <1>1 DEF SetCenter, SetSurplus
<1>4. /\ surplus' \in [Surpluses -> SurplusRecord] /\ surplus'[s] = row
      /\ \A t \in Surpluses \ {s} : surplus'[t] = surplus[t]
    BY <1>0, <1>2, <1>3
<1>5. PICK centers : centers = CentersOf(surplus', assetAt')
    OBVIOUS
<1>6. act' = Synced(centers)
    BY <1>5 DEF SetCenter, SetSurplus
<1>7. RegistrationsFit'
    BY <1>0, <1>2, <1>4 DEF ActsIInv, RegistrationsFit
<1> QED
    BY <1>0, <1>4, <1>5, <1>6, <1>7, SurplusChanges

\* resolve: the asset is created, once.
LEMMA AssetCreated ==
    ASSUME CampaignIInv, NEW s \in Surpluses, NEW c \in Centers, CreateAsset(s, c) PROVE CampaignIInv' /\ SendsFit
<1>0. /\ ActsIInv /\ surplus \in [Surpluses -> SurplusRecord] /\ assetAt \in [Surpluses -> Centers \cup {NoCenter}]
      /\ registered \in [Surpluses -> Nat] /\ Disturbs(s) /\ ~surplus[s].created
      /\ UNCHANGED <<scheduleVars, expected, approved, saving, requests, documents, overwritten>>
    BY DEF CampaignIInv, ActsIInv, ActsTypeOK, CreateAsset, SetSurplus, Resolvable
<1>1. PICK row : row = [surplus[s] EXCEPT !.created = TRUE]
    OBVIOUS
<1>2. row \in SurplusRecord /\ row.created
    BY <1>0, <1>1 DEF SurplusRecord
<1>3. surplus' = [surplus EXCEPT ![s] = row]
    BY <1>1 DEF CreateAsset, SetSurplus
<1>4. /\ surplus' \in [Surpluses -> SurplusRecord] /\ surplus'[s] = row
      /\ \A t \in Surpluses \ {s} : surplus'[t] = surplus[t]
    BY <1>0, <1>2, <1>3
<1>5. assetAt' \in [Surpluses -> Centers \cup {NoCenter}] /\ \A t \in Surpluses \ {s} : assetAt'[t] = assetAt[t]
    BY <1>0 DEF CreateAsset
<1>6. PICK centers : centers = CentersOf(surplus', assetAt')
    OBVIOUS
<1>7. act' = Synced(centers)
    BY <1>6 DEF CreateAsset, SetSurplus
<1>8. /\ registered' \in [Surpluses -> Nat] /\ registered'[s] = registered[s] + 1
      /\ \A t \in Surpluses \ {s} : registered'[t] = registered[t]
    BY <1>0 DEF CreateAsset
<1>9. RegistrationsFit'
    <2> SUFFICES ASSUME NEW t \in Surpluses \ overwritten
                 PROVE  registered'[t] <= 1 /\ (registered'[t] = 1 => surplus'[t].created)
        BY <1>0 DEF RegistrationsFit
    <2>1. registered[t] \in Nat /\ registered[t] <= 1 /\ (registered[t] = 1 => surplus[t].created)
        BY <1>0 DEF ActsIInv, RegistrationsFit
    <2>2. CASE t = s
        BY <1>0, <1>2, <1>4, <1>8, <2>1, <2>2
    <2>3. CASE t # s
        BY <1>4, <1>8, <2>1, <2>3
    <2> QED
        BY <2>2, <2>3
<1> QED
    BY <1>0, <1>4, <1>5, <1>6, <1>7, <1>8, <1>9, SurplusChanges

\* The new asset moves to another cost center.
LEMMA AssetMoved ==
    ASSUME CampaignIInv, NEW s \in Surpluses, NEW c \in Centers, AssetTransferred(s, c) PROVE CampaignIInv' /\ SendsFit
<1>0. /\ ActsIInv /\ surplus \in [Surpluses -> SurplusRecord] /\ assetAt \in [Surpluses -> Centers \cup {NoCenter}]
      /\ registered \in [Surpluses -> Nat] /\ surplus' = surplus /\ act' = act /\ registered' = registered /\ Disturbs(s)
      /\ UNCHANGED <<scheduleVars, expected, approved, saving, requests, documents, overwritten>>
    BY DEF CampaignIInv, ActsIInv, ActsTypeOK, AssetTransferred
<1>1. assetAt' \in [Surpluses -> Centers \cup {NoCenter}] /\ \A t \in Surpluses \ {s} : assetAt'[t] = assetAt[t]
    BY <1>0 DEF AssetTransferred
<1>2. PICK centers : centers = CentersOf(surplus', assetAt')
    OBVIOUS
<1>3. RegistrationsFit'
    BY <1>0 DEF ActsIInv, RegistrationsFit
<1> QED
    BY <1>0, <1>1, <1>2, <1>3, SurplusChanges

-----------------------------------------------------------------------------

\* One act changes: its signer, what is asked for, or its document.
LEMMA ActChanges ==
    ASSUME CampaignIInv, NEW c \in Centers, NEW row \in ActRecord, act' = [act EXCEPT ![c] = row], RowFits(row), row.there,
           act[c].generation # "NONE" => row.generation # "NONE", row.generation # "NONE" => approved,
           \/ row.generation = act[c].generation /\ row.lists = act[c].lists
           \/ /\ row.generation \in {"NOT_ENQUEUED", "ENQUEUED"}
              /\ row.generation = "ENQUEUED" => row.lists = ListedAt(c)
              /\ row.generation # "ENQUEUED" => row.lists = {},
           UNCHANGED <<scheduleVars, expected, approved, surplus, assetAt, saving, registered, overwritten, disturbed>>,
           requests' \in [Centers -> Nat], documents' \in [Centers -> Nat],
           \A d \in Centers \ {c} : documents'[d] = documents[d],
           row.document => documents'[c] > 0,
           c \notin overwritten => documents'[c] <= 1 /\ (documents'[c] = 1 => row.document)
    PROVE  CampaignIInv' /\ SendsFit
<1>0. ActsIInv /\ ActsTypeOK /\ campaign' = campaign /\ act \in [Centers -> ActRecord] /\ RowsFit
    BY DEF CampaignIInv, ActsIInv, ActsTypeOK, scheduleVars
<1>1. ScheduleIInv' /\ SendsFit
    BY ScheduleStays DEF CampaignIInv
<1>2. act' \in [Centers -> ActRecord] /\ act'[c] = row /\ \A d \in Centers \ {c} : act'[d] = act[d]
    BY <1>0
<1>3. RowsFit'
    BY <1>0, <1>2 DEF RowsFit, RowFits
<1>4. GenerationFits'
    BY <1>0, <1>2 DEF ActsIInv, GenerationFits
<1>5. \A d \in Centers : act'[d].document => act'[d].generation = "ENQUEUED" /\ documents'[d] > 0
    BY <1>0, <1>2 DEF ActsTypeOK, RowFits
<1>6. ActsTypeOK'
    BY <1>0, <1>2, <1>5 DEF ActsTypeOK
<1>7. Steady
    BY DEF Steady, ActCenter
<1>8. AskingFits'
    BY <1>0, <1>7, AskingStays DEF ActsIInv
<1>10. ASSUME approved, NEW s \in Settled
       PROVE  /\ CenterOf(s) \in Centers /\ Lists(act', s, CenterOf(s))
              /\ \A d \in Centers \ {CenterOf(s)} : s \notin act'[d].lists
    <2>1. PICK home \in Centers : home = CenterOf(s)
        BY <1>0, <1>10 DEF ActsIInv, ApprovedFits
    <2>2. Lists(act, s, home) /\ \A d \in Centers \ {home} : s \notin act[d].lists
        BY <1>0, <1>10, <2>1 DEF ActsIInv, ApprovedFits
    <2>3. s \in ListedAt(c) <=> c = home
        BY <2>1 DEF ListedAt, Settled, CenterOf
    <2>4. Lists(act', s, home)
        BY <1>2, <2>2, <2>3 DEF Lists
    <2>5. \A d \in Centers \ {home} : s \notin act'[d].lists
        BY <1>2, <2>2, <2>3
    <2> QED
        BY <2>1, <2>4, <2>5
<1>11. ApprovedFits'
    <2>1. \A s \in Settled' : s \in Settled /\ CenterOf(s)' = CenterOf(s)
        BY <1>7, SettledStays
    <2>2. ASSUME approved, NEW s \in Settled'
          PROVE  /\ CenterOf(s)' \in Centers /\ Lists(act', s, CenterOf(s)')
                 /\ \A d \in Centers \ {CenterOf(s)'} : s \notin act'[d].lists
        BY <1>10, <2>1, <2>2
    <2> QED
        BY <2>2 DEF ApprovedFits, Lists
<1>12. RegistrationsFit'
    BY <1>0 DEF ActsIInv, RegistrationsFit
<1>13. DocumentsFit'
    BY <1>0, <1>2 DEF ActsIInv, DocumentsFit
<1>14. campaign'.status = "RECONCILED" => approved'
    BY <1>0 DEF ActsIInv
<1> QED
    BY <1>1, <1>3, <1>4, <1>6, <1>8, <1>11, <1>12, <1>13, <1>14 DEF CampaignIInv, ActsIInv

\* assign
LEMMA SignerAssigned == ASSUME CampaignIInv, NEW c \in Centers, AssignSigner(c) PROVE CampaignIInv' /\ SendsFit
<1>0. /\ ActsIInv /\ act[c] \in ActRecord /\ RowFits(act[c]) /\ act[c].there
      /\ requests \in [Centers -> Nat] /\ documents \in [Centers -> Nat]
      /\ requests' = requests /\ documents' = documents
      /\ UNCHANGED <<scheduleVars, expected, approved, surplus, assetAt, saving, registered, overwritten, disturbed>>
    BY DEF CampaignIInv, ActsIInv, ActsTypeOK, RowsFit, AssignSigner
<1>1. act[c].document => documents[c] > 0
    BY DEF CampaignIInv, ActsIInv, ActsTypeOK
<1>2. PICK row : row = [act[c] EXCEPT !.signer = TRUE]
    OBVIOUS
<1>3. /\ row \in ActRecord /\ RowFits(row) /\ row.there /\ row.generation = act[c].generation
      /\ row.lists = act[c].lists /\ row.document = act[c].document
    BY <1>0, <1>2 DEF ActRecord, RowFits
<1>4. act' = [act EXCEPT ![c] = row]
    BY <1>0, <1>2 DEF AssignSigner, CampaignIInv, ActsIInv, ActsTypeOK
<1>5. c \notin overwritten => documents'[c] <= 1 /\ (documents'[c] = 1 => row.document)
    BY <1>0, <1>3 DEF ActsIInv, DocumentsFit
<1>6. row.generation # "NONE" => approved
    BY <1>0, <1>3 DEF ActsIInv, GenerationFits
<1> QED
    BY <1>0, <1>1, <1>3, <1>4, <1>5, <1>6, ActChanges

\* retryEnqueue
LEMMA Retried == ASSUME CampaignIInv, NEW c \in Centers, RetryEnqueue(c) PROVE CampaignIInv' /\ SendsFit
<1>0. /\ ActsIInv /\ act[c] \in ActRecord /\ RowFits(act[c]) /\ act[c].there /\ act[c].generation # "ENQUEUED"
      /\ approved /\ requests \in [Centers -> Nat] /\ documents \in [Centers -> Nat] /\ documents' = documents
      /\ UNCHANGED <<scheduleVars, expected, approved, surplus, assetAt, saving, registered, overwritten, disturbed>>
    BY DEF CampaignIInv, ActsIInv, ActsTypeOK, RowsFit, RetryEnqueue
<1>1. PICK ready \in BOOLEAN : act' = [act EXCEPT ![c] = Asked(act[c], c, ready)]
    BY DEF RetryEnqueue
<1>2. PICK row : row = Asked(act[c], c, ready)
    OBVIOUS
<1>3. /\ row \in ActRecord /\ RowFits(row) /\ row.there /\ ~row.document
      /\ row.generation \in {"NOT_ENQUEUED", "ENQUEUED"}
      /\ row.generation = "ENQUEUED" => row.lists = ListedAt(c)
      /\ row.generation # "ENQUEUED" => row.lists = {}
    BY <1>0, <1>2, AskedRow
<1>4. act' = [act EXCEPT ![c] = row]
    BY <1>1, <1>2
<1>5. requests' \in [Centers -> Nat]
    BY <1>0 DEF RetryEnqueue
<1>6. c \notin overwritten => documents'[c] <= 1 /\ (documents'[c] = 1 => row.document)
    BY <1>0 DEF ActsIInv, DocumentsFit, RowFits
<1> QED
    BY <1>0, <1>3, <1>4, <1>5, <1>6, ActChanges

\* onGenerated
LEMMA Generated == ASSUME CampaignIInv, NEW c \in Centers, ActGenerated(c) PROVE CampaignIInv' /\ SendsFit
<1>0. /\ ActsIInv /\ act \in [Centers -> ActRecord] /\ act[c] \in ActRecord /\ RowFits(act[c])
      /\ act[c].there /\ act[c].generation = "ENQUEUED" /\ ~act[c].document
      /\ requests \in [Centers -> Nat] /\ documents \in [Centers -> Nat] /\ requests[c] > 0
      /\ UNCHANGED <<scheduleVars, expected, approved, surplus, assetAt, saving, registered, overwritten, disturbed>>
    BY DEF CampaignIInv, ActsIInv, ActsTypeOK, RowsFit, ActGenerated, TakesDocument
<1>1. PICK row : row = [act[c] EXCEPT !.document = TRUE]
    OBVIOUS
<1>2. /\ row \in ActRecord /\ RowFits(row) /\ row.there /\ row.generation = act[c].generation
      /\ row.lists = act[c].lists /\ row.document
    BY <1>0, <1>1 DEF ActRecord, RowFits
<1>3. act' = [act EXCEPT ![c] = row]
    BY <1>0, <1>1 DEF ActGenerated
<1>4. /\ documents' \in [Centers -> Nat] /\ documents'[c] = documents[c] + 1
      /\ \A d \in Centers \ {c} : documents'[d] = documents[d]
    BY <1>0 DEF ActGenerated
<1>5. requests' \in [Centers -> Nat]
    BY <1>0 DEF ActGenerated
<1>6. c \notin overwritten => documents'[c] <= 1
    <2>1. documents[c] \in Nat /\ (c \notin overwritten => documents[c] <= 1 /\ (documents[c] = 1 => act[c].document))
        BY <1>0 DEF ActsIInv, DocumentsFit
    <2> QED
        BY <1>0, <1>4, <2>1
<1>7. row.generation # "NONE" => approved
    BY <1>0, <1>2 DEF ActsIInv, GenerationFits
<1>8. documents'[c] > 0
    BY <1>0, <1>4
<1> QED
    BY <1>0, <1>2, <1>3, <1>4, <1>5, <1>6, <1>7, <1>8, ActChanges

-----------------------------------------------------------------------------

\* A reminder or a change of the plan leaves the acts as they are.
LEMMA PlanStep == ASSUME CampaignIInv, ScheduleNext, UNCHANGED actsOnly PROVE CampaignIInv' /\ SendsFit
<1>0. ActsIInv /\ UNCHANGED <<expected, approved, surplus, assetAt, act, saving, requests, registered, documents, overwritten, disturbed>>
    BY DEF CampaignIInv, actsOnly
<1>1. ScheduleIInv' /\ SendsFit
    BY ScheduleStep DEF CampaignIInv
<1>2. campaign'.status = "RECONCILED" => campaign.status = "RECONCILED"
    <2>1. campaign \in Campaign /\ starting \in [Starters -> SUBSET Campaign]
        BY DEF CampaignIInv, ScheduleIInv, ScheduleTypeOK
    <2>2. CASE campaign' = campaign
        BY <2>2
    <2>3. ASSUME NEW start \in 0..MaxDay, NEW offsets \in SUBSET Offsets, Schedule(start, offsets)
          PROVE  campaign'.status = "PLANNED"
        BY <2>1, <2>3 DEF Schedule, Campaign
    <2>4. ASSUME NEW start \in 0..MaxDay, NEW offsets \in SUBSET Offsets, Reschedule(start, offsets)
          PROVE  campaign'.status = "PLANNED"
        BY <2>1, <2>4 DEF Reschedule, Campaign
    <2>5. ASSUME CancelSchedule PROVE campaign'.status = "CANCELLED"
        BY <2>1, <2>5 DEF CancelSchedule, Campaign
    <2>6. ASSUME NEW x \in Starters, StartSaves(x) PROVE campaign'.status = "IN_PROGRESS"
        <3>1. PICK read \in Campaign : campaign' = [read EXCEPT !.status = "IN_PROGRESS"]
            BY <2>1, <2>6 DEF StartSaves
        <3> QED
            BY <3>1 DEF Campaign
    <2>7. ASSUME NEW x \in Starters, StartReads(x) PROVE campaign' = campaign
        BY <2>7 DEF StartReads
    <2>8. HalfDayPasses \/ RemindersStep \/ (\E w \in ReminderWorkers : ReminderWorkerDies(w)) => campaign' = campaign
        BY DEF HalfDayPasses, RemindersStep, Decide, FinishReminder, ClaimReminder, ReminderWorkerDies
    <2> QED
        BY <2>3, <2>4, <2>5, <2>6, <2>7, <2>8 DEF ScheduleNext
<1>3. Steady
    BY <1>0 DEF Steady, ActCenter
<1>4. ApprovedFits' /\ GenerationFits'
    BY <1>0, <1>3, ApprovedStays DEF ActsIInv
<1>5. AskingFits'
    BY <1>0, <1>3, <1>4, AskingStays DEF ActsIInv
<1>6. ActsTypeOK' /\ RowsFit' /\ RegistrationsFit' /\ DocumentsFit'
    BY <1>0 DEF ActsIInv, ActsTypeOK, RowsFit, RowFits, RegistrationsFit, DocumentsFit
<1> QED
    BY <1>0, <1>1, <1>2, <1>4, <1>5, <1>6 DEF CampaignIInv, ActsIInv

LEMMA Unmoved == ASSUME CampaignIInv, UNCHANGED campaignVars PROVE CampaignIInv' /\ SendsFit
<1>0. /\ ActsIInv /\ UNCHANGED <<expected, approved, surplus, assetAt, act, saving, requests, registered, documents, overwritten, disturbed>>
      /\ UNCHANGED scheduleVars /\ campaign' = campaign
    BY DEF CampaignIInv, campaignVars, actsOnly, scheduleVars
<1>1. ScheduleIInv' /\ SendsFit
    BY <1>0, ScheduleStays DEF CampaignIInv
<1>2. Steady
    BY <1>0 DEF Steady, ActCenter
<1>3. ApprovedFits' /\ GenerationFits'
    BY <1>0, <1>2, ApprovedStays DEF ActsIInv
<1>4. AskingFits'
    BY <1>0, <1>2, <1>3, AskingStays DEF ActsIInv
<1>5. ActsTypeOK' /\ RowsFit' /\ RegistrationsFit' /\ DocumentsFit'
    BY <1>0 DEF ActsIInv, ActsTypeOK, RowsFit, RowFits, RegistrationsFit, DocumentsFit
<1> QED
    BY <1>0, <1>1, <1>3, <1>4, <1>5 DEF CampaignIInv, ActsIInv

LEMMA CampaignStarts == CampaignInit => CampaignIInv
<1> SUFFICES ASSUME CampaignInit PROVE CampaignIInv
    OBVIOUS
<1>0. ScheduleInit /\ ActsInit
    BY DEF CampaignInit
<1>1. ScheduleIInv /\ campaign.status = "NONE"
    BY <1>0, ScheduleStarts DEF ScheduleInit
<1>2. PICK nothing \in ActRecord : /\ nothing = NoAct /\ RowFits(nothing) /\ nothing.generation = "NONE" /\ ~nothing.document
    BY EmptyRows
<1>3. act \in [Centers -> ActRecord] /\ \A c \in Centers : act[c] = nothing
    BY <1>0, <1>2 DEF ActsInit
<1>4. PICK none \in SurplusRecord : none = NoSurplus
    BY EmptyRows
<1>5. surplus \in [Surpluses -> SurplusRecord]
    BY <1>0, <1>4 DEF ActsInit
<1>6. PICK idle \in SavingRow : idle = Idle /\ idle.op = "idle"
    BY EmptyRows
<1>7. saving \in [Users -> SavingRow] /\ \A u \in Users : saving[u].op = "idle"
    BY <1>0, <1>6 DEF ActsInit
<1>8. ActsTypeOK
    BY <1>0, <1>2, <1>3, <1>5, <1>7 DEF ActsInit, ActsTypeOK, SavingRow
<1>9. RowsFit /\ ApprovedFits /\ GenerationFits /\ AskingFits
    BY <1>0, <1>2, <1>3, <1>7 DEF ActsInit, RowsFit, ApprovedFits, GenerationFits, AskingFits
<1>10. RegistrationsFit /\ DocumentsFit
    BY <1>0 DEF ActsInit, RegistrationsFit, DocumentsFit
<1> QED
    BY <1>1, <1>8, <1>9, <1>10 DEF CampaignIInv, ActsIInv

LEMMA CampaignStep == ASSUME CampaignIInv, [CampaignNext]_campaignVars PROVE CampaignIInv' /\ SendsFit
<1>1. ASSUME NEW u \in Users,
             \/ \E s \in Surpluses, op \in {"report", "void", "category"} : ItemReads(u, op, s)
             \/ \E op \in {"close", "request", "approve"} : OperationReads(u, op)
             \/ ItemSaves(u) \/ CloseSaves(u) \/ RequestSaves(u) \/ ApproveCommits(u) \/ OperationFails(u)
             \/ \E ready \in SUBSET Centers : ApproveAsks(u, ready)
      PROVE  CampaignIInv' /\ SendsFit
    BY <1>1, UserReads, ItemSaved, Closed, Requested, ApprovalCommits, ApprovalAsks
<1>2. ASSUME NEW s \in Surpluses, NEW c \in Centers, SetCenter(s, c) \/ CreateAsset(s, c) \/ AssetTransferred(s, c)
      PROVE  CampaignIInv' /\ SendsFit
    BY <1>2, CenterSet, AssetCreated, AssetMoved
<1>3. ASSUME NEW c \in Centers, AssignSigner(c) \/ RetryEnqueue(c) \/ ActGenerated(c) PROVE CampaignIInv' /\ SendsFit
    BY <1>3, SignerAssigned, Retried, Generated
<1>4. CASE ActsNext
    BY <1>1, <1>2, <1>3, <1>4, Zenon DEF ActsNext
<1>5. CASE ScheduleNext /\ UNCHANGED actsOnly
    BY <1>5, PlanStep
<1>6. CASE UNCHANGED campaignVars
    BY <1>6, Unmoved
<1> QED
    BY <1>4, <1>5, <1>6 DEF CampaignNext

LEMMA CampaignInvariance == InventorySpec => []CampaignIInv /\ [][SendsFit]_scheduleVars
<1>1. CampaignInit => CampaignIInv
    BY CampaignStarts
<1>2. CampaignIInv /\ [CampaignNext]_campaignVars => CampaignIInv' /\ [SendsFit]_scheduleVars
    BY CampaignStep
<1> QED
    BY <1>1, <1>2, PTL DEF InventorySpec

\* schedule, reschedule, cancel, start and processOne: the reminders still to be
\* sent are those of the dates the inventory has, and a cancelled inventory has
\* none, whoever starts it meanwhile from what they read before.
THEOREM ScheduleIsSound == InventorySpec => []ScheduleInv
<1>1. CampaignIInv => ScheduleInv
    BY DEF CampaignIInv, ScheduleIInv, ScheduleInv
<1> QED
    BY <1>1, CampaignInvariance, PTL

\* processOne against reschedule and cancel: no reminder goes out for dates that
\* have been changed or after the cancellation, and none goes out twice.
THEOREM RemindersAreCurrent == InventorySpec => SentIsCurrent
<1>1. SendsFit <=>
        \A rev \in Revisions, o \in Offsets :
          /\ reminder[rev].status[o] = "SENT" => reminder'[rev].status[o] = "SENT"
          /\ reminder[rev].status[o] # "SENT" /\ reminder'[rev].status[o] = "SENT" =>
               /\ campaign.status # "CANCELLED"
               /\ campaign.status = "PLANNED" => rev = campaign.rev
    BY DEF SendsFit
<1> QED
    BY <1>1, CampaignInvariance, PTL DEF SentIsCurrent

\* resolve, onGenerated, retryEnqueue and enqueueOnApproval: a surplus becomes at
\* most one asset and an act gets at most one document, unless somebody saved the
\* row over a newer version of it.
THEOREM ActsAreSound == InventorySpec => []ActsInv
<1>1. CampaignIInv => ActsInv
    BY DEF CampaignIInv, ActsIInv, ActsTypeOK, ActsInv, RegistrationsFit, DocumentsFit,
           RegisteredTwiceOnlyIfOverwritten, GeneratedTwiceOnlyIfOverwritten
<1> QED
    BY <1>1, CampaignInvariance, PTL

\* sync and assertNoUnassignedSurplus: in a reconciled inventory a surplus that
\* did not change during or after the approval is on the act of its center, and on
\* no other, whoever saved over the acts meanwhile.
THEOREM SurplusListedOnce == InventorySpec => []SurplusIsListedOnce
<1>1. ASSUME CampaignIInv PROVE SurplusIsListedOnce
    <2> SUFFICES ASSUME campaign.status = "RECONCILED", NEW s \in Live(surplus) \ disturbed
                 PROVE  \E c \in Centers :
                          /\ c = ActCenter(surplus, assetAt, s) /\ act[c].there
                          /\ act[c].generation \in {"NOT_ENQUEUED", "ENQUEUED"}
                          /\ act[c].generation = "ENQUEUED" => s \in act[c].lists
                          /\ \A d \in Centers \ {c} : s \notin act[d].lists
        BY DEF SurplusIsListedOnce
    <2>1. ApprovedFits /\ approved /\ act \in [Centers -> ActRecord]
        BY <1>1 DEF CampaignIInv, ActsIInv, ActsTypeOK
    <2>2. PICK c \in Centers : c = CenterOf(s)
        BY <2>1 DEF ApprovedFits, Settled
    <2>3. Lists(act, s, c) /\ \A d \in Centers \ {c} : s \notin act[d].lists
        BY <2>1, <2>2 DEF ApprovedFits, Settled
    <2>4. act[c].generation \in {"NOT_ENQUEUED", "ENQUEUED"}
        BY <2>1, <2>3 DEF Lists, ActRecord
    <2> QED
        BY <2>2, <2>3, <2>4 DEF Lists, CenterOf
<1> QED
    BY <1>1, CampaignInvariance, PTL

=============================================================================
