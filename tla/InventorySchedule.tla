-------------------------- MODULE InventorySchedule --------------------------
(***************************************************************************)
(* One physical inventory until it starts: InventorySchedulesService, the  *)
(* reminders of InventoryRemindersService and InventoriesService.start.    *)
(* schedule, reschedule and cancel lock the inventory; a reminder is sent  *)
(* in a transaction that locks the reminder and reads the inventory        *)
(* without a lock; start reads, and saves everything it read later.  The   *)
(* clock counts half days: reminders are due in the second half (07:00).   *)
(***************************************************************************)
EXTENDS Naturals, FiniteSets

CONSTANTS
    Starters, ReminderWorkers,
    Offsets,             \* the days before the start that may be asked for
    MaxDay,              \* bound: the last day
    MaxReschedules,      \* bound
    MaxReminderDeaths    \* bound: workers that die in a transaction

ASSUME ScheduleAssumption ==
    Offsets \subseteq Nat /\ MaxDay \in Nat /\ MaxReschedules \in Nat /\ MaxReminderDeaths \in Nat

VARIABLES
    campaign,         \* physical_inventory
    reminder,         \* inventory_reminder, by schedule_rev: the start it counts from, and by offset_days
    reminderWorker,   \* a processOne under way
    starting,         \* what each start under way has read
    clock, reminderDeaths

scheduleVars == <<campaign, reminder, reminderWorker, starting, clock, reminderDeaths>>

Revisions == 0..MaxReschedules

CampaignStatus == {"NONE", "PLANNED", "IN_PROGRESS", "CLOSED", "RECONCILED", "CANCELLED"}

ReminderStatus == {"NONE", "PENDING", "SENT", "SKIPPED", "CANCELLED", "NO_RECIPIENT", "SUPERSEDED"}

Campaign == [status : CampaignStatus, start : 0..MaxDay, rev : Revisions, offsets : SUBSET Offsets,
             requested : BOOLEAN]

ScheduleTypeOK ==
    /\ campaign \in Campaign
    /\ reminder \in [Revisions -> [start : 0..MaxDay, status : [Offsets -> ReminderStatus]]]
    /\ reminderWorker \in [ReminderWorkers -> [pc : {"idle", "claimed", "SKIPPED", "SUPERSEDED", "SEND"},
                                               rev : Revisions, offset : Offsets \cup {0}, now : 0..(2 * MaxDay + 1)]]
    /\ starting \in [Starters -> SUBSET Campaign]
    /\ \A x \in Starters : Cardinality(starting[x]) <= 1
    /\ clock \in 0..(2 * MaxDay + 1)
    /\ reminderDeaths \in 0..MaxReminderDeaths

Asleep == [pc |-> "idle", rev |-> 0, offset |-> 0, now |-> 0]

ScheduleInit ==
    /\ campaign = [status |-> "NONE", start |-> 0, rev |-> 0, offsets |-> {}, requested |-> FALSE]
    /\ reminder = [r \in Revisions |-> [start |-> 0, status |-> [o \in Offsets |-> "NONE"]]]
    /\ reminderWorker = [w \in ReminderWorkers |-> Asleep]
    /\ starting = [x \in Starters |-> {}]
    /\ clock = 0
    /\ reminderDeaths = 0

Day(time) == time \div 2

\* reminderDueAt
IsDue(start, offset, now) == 2 * start + 1 <= now + 2 * offset

\* planReminders
PlanReminders(start, offsets) ==
    [start |-> start,
     status |-> [o \in Offsets |-> IF o \notin offsets THEN "NONE"
                                   ELSE IF IsDue(start, o, clock) THEN "SKIPPED" ELSE "PENDING"]]

\* supersede and cancelPending
EndPending(rev, status) ==
    [reminder[rev] EXCEPT !.status = [o \in Offsets |-> IF @[o] = "PENDING" THEN status ELSE @[o]]]

\* Mutation: a reminder that a worker has locked is passed over.
PendingNeverHeld == TRUE

\* Both wait for a reminder that a worker has locked.
PendingIsFree == \A w \in ReminderWorkers : reminderWorker[w].pc = "idle"

Schedule(start, offsets) ==
    /\ campaign.status = "NONE"
    /\ start >= Day(clock)
    /\ campaign' = [campaign EXCEPT !.status = "PLANNED", !.start = start, !.offsets = offsets]
    /\ reminder' = [reminder EXCEPT ![0] = PlanReminders(start, offsets)]
    /\ UNCHANGED <<reminderWorker, starting, clock, reminderDeaths>>

\* Mutation: the reminders of the old dates are kept.
RescheduleKeepsOld(start, offsets) ==
    /\ campaign.status = "PLANNED"
    /\ campaign.rev < MaxReschedules
    /\ start >= Day(clock)
    /\ PendingIsFree
    /\ campaign' = [campaign EXCEPT !.start = start, !.offsets = offsets, !.rev = @ + 1]
    /\ reminder' = [reminder EXCEPT ![campaign.rev + 1] = PlanReminders(start, offsets)]
    /\ UNCHANGED <<reminderWorker, starting, clock, reminderDeaths>>

\* The end of the inventory may change alone: the start may be the same.
Reschedule(start, offsets) ==
    /\ campaign.status = "PLANNED"
    /\ campaign.rev < MaxReschedules
    /\ start >= Day(clock)
    /\ PendingIsFree
    /\ campaign' = [campaign EXCEPT !.start = start, !.offsets = offsets, !.rev = @ + 1]
    /\ reminder' = [reminder EXCEPT ![campaign.rev] = EndPending(campaign.rev, "SUPERSEDED"),
                                    ![campaign.rev + 1] = PlanReminders(start, offsets)]
    /\ UNCHANGED <<reminderWorker, starting, clock, reminderDeaths>>

CancelSchedule ==
    /\ campaign.status = "PLANNED"
    /\ PendingIsFree
    /\ campaign' = [campaign EXCEPT !.status = "CANCELLED"]
    /\ reminder' = [reminder EXCEPT ![campaign.rev] = EndPending(campaign.rev, "CANCELLED")]
    /\ UNCHANGED <<reminderWorker, starting, clock, reminderDeaths>>

\* start reads the inventory ...
StartReads(x) ==
    /\ campaign.status = "PLANNED"
    /\ starting[x] = {}
    /\ starting' = [starting EXCEPT ![x] = {campaign}]
    /\ UNCHANGED <<campaign, reminder, reminderWorker, clock, reminderDeaths>>

\* ... and saves it, dates and revision as it read them, whatever it is now.
StartSaves(x) ==
    /\ \E read \in starting[x] : campaign' = [read EXCEPT !.status = "IN_PROGRESS"]
    /\ starting' = [starting EXCEPT ![x] = {}]
    /\ UNCHANGED <<reminder, reminderWorker, clock, reminderDeaths>>

-----------------------------------------------------------------------------
(* InventoryRemindersJob: the transaction of processOne.                   *)

Held(rev, o) == \E w \in ReminderWorkers :
    reminderWorker[w].pc # "idle" /\ reminderWorker[w].rev = rev /\ reminderWorker[w].offset = o

DueAndFree(rev, o) ==
    reminder[rev].status[o] = "PENDING" /\ IsDue(reminder[rev].start, o, clock) /\ ~Held(rev, o)

\* FOR UPDATE SKIP LOCKED, the oldest first.
ClaimReminder(w, rev, o) ==
    /\ reminderWorker[w].pc = "idle"
    /\ DueAndFree(rev, o)
    /\ \A other \in Offsets : DueAndFree(rev, other) => other <= o
    /\ reminderWorker' = [reminderWorker EXCEPT ![w] = [pc |-> "claimed", rev |-> rev, offset |-> o, now |-> clock]]
    /\ UNCHANGED <<campaign, reminder, starting, clock, reminderDeaths>>

\* decide looks at the inventory ...
Decision(w) ==
    IF campaign.status # "PLANNED" \/ campaign.start < Day(reminderWorker[w].now) THEN "SKIPPED"
    ELSE IF campaign.rev # reminderWorker[w].rev THEN "SUPERSEDED" ELSE "SEND"

Decide(w) ==
    /\ reminderWorker[w].pc = "claimed"
    /\ reminderWorker' = [reminderWorker EXCEPT ![w].pc = Decision(w)]
    /\ UNCHANGED <<campaign, reminder, starting, clock, reminderDeaths>>

\* ... and for a reminder closer to the start that is due as well.
Closer(w) ==
    LET mine == reminderWorker[w]
    IN  {o \in Offsets : /\ o < mine.offset
                         /\ reminder[mine.rev].status[o] = "PENDING"
                         /\ IsDue(reminder[mine.rev].start, o, mine.now)}

\* Mutation: a reminder gives way to a closer one and stays pending.
OutcomesGivingWay(w) ==
    IF reminderWorker[w].pc # "SEND" THEN {reminderWorker[w].pc}
    ELSE IF Closer(w) # {} THEN {"PENDING"} ELSE {"SENT", "NO_RECIPIENT"}

Outcomes(w) ==
    IF reminderWorker[w].pc # "SEND" THEN {reminderWorker[w].pc}
    ELSE IF Closer(w) # {} THEN {"SKIPPED"} ELSE {"SENT", "NO_RECIPIENT"}

\* The notices are queued in the transaction that says so.
FinishReminder(w) ==
    /\ reminderWorker[w].pc \in {"SKIPPED", "SUPERSEDED", "SEND"}
    /\ \E outcome \in Outcomes(w) :
         reminder' = [reminder EXCEPT ![reminderWorker[w].rev].status[reminderWorker[w].offset] = outcome]
    /\ reminderWorker' = [reminderWorker EXCEPT ![w] = Asleep]
    /\ UNCHANGED <<campaign, starting, clock, reminderDeaths>>

ReminderWorkerDies(w) ==
    /\ reminderWorker[w].pc # "idle"
    /\ reminderDeaths < MaxReminderDeaths
    /\ reminderDeaths' = reminderDeaths + 1
    /\ reminderWorker' = [reminderWorker EXCEPT ![w] = Asleep]
    /\ UNCHANGED <<campaign, reminder, starting, clock>>

HalfDayPasses ==
    /\ clock < 2 * MaxDay + 1
    /\ clock' = clock + 1
    /\ UNCHANGED <<campaign, reminder, reminderWorker, starting, reminderDeaths>>

RemindersStep ==
    \E w \in ReminderWorkers :
      \/ Decide(w) \/ FinishReminder(w)
      \/ \E rev \in Revisions, o \in Offsets : ClaimReminder(w, rev, o)

ScheduleNext ==
    \/ \E start \in 0..MaxDay, offsets \in SUBSET Offsets : Schedule(start, offsets) \/ Reschedule(start, offsets)
    \/ CancelSchedule \/ HalfDayPasses \/ RemindersStep
    \/ \E x \in Starters : StartReads(x) \/ StartSaves(x)
    \/ \E w \in ReminderWorkers : ReminderWorkerDies(w)

\* InventoryRemindersJob runs every minute.
ScheduleFairness == WF_scheduleVars(RemindersStep)

ScheduleSpec == ScheduleInit /\ [][ScheduleNext]_scheduleVars /\ ScheduleFairness

-----------------------------------------------------------------------------
(* Properties.                                                             *)

\* reschedule and cancel: the reminders still to be sent are those of the
\* dates the inventory has, and a cancelled inventory has none.
PendingIsCurrent ==
    \A rev \in Revisions, o \in Offsets : reminder[rev].status[o] = "PENDING" =>
        /\ campaign.status # "CANCELLED"
        /\ campaign.status = "PLANNED" => rev = campaign.rev /\ reminder[rev].start = campaign.start

\* What rescheduling, starting, cancelling and reminding keep together.
ScheduleInv == ScheduleTypeOK /\ PendingIsCurrent

\* processOne against reschedule and cancel: no reminder goes out for dates
\* that have been changed, or after the cancellation, and none goes out twice.
SentIsCurrent ==
    [][\A rev \in Revisions, o \in Offsets :
         /\ reminder[rev].status[o] = "SENT" => reminder'[rev].status[o] = "SENT"
         /\ reminder[rev].status[o] # "SENT" /\ reminder'[rev].status[o] = "SENT" =>
              /\ campaign.status # "CANCELLED"
              /\ campaign.status = "PLANNED" => rev = campaign.rev]_scheduleVars

Overdue == {x \in Revisions \X Offsets :
    reminder[x[1]].status[x[2]] = "PENDING" /\ IsDue(reminder[x[1]].start, x[2], clock)}

\* InventoryRemindersJob: the reminders that are due are dealt with, all of
\* them, whoever dies.
DueIsSettled == Overdue # {} ~> Overdue = {}
=============================================================================
