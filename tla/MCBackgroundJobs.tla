--------------------------- MODULE MCBackgroundJobs ---------------------------
(***************************************************************************)
(* Four questions in one run, told apart by scope: two imports that race   *)
(* for a row, without their notices; one import with its notices; a module *)
(* that two instances switch; and one that an instance with two reloads    *)
(* under way switches.                                                     *)
(***************************************************************************)
EXTENDS BackgroundJobs, FeatureFlags, TLC

CONSTANTS j1, j2, r1, r2, n1, n2

VARIABLE scope

MCMails == {j1, j2} \X (1..MaxClaims)

MCFileRows == (j1 :> {r1, r2}) @@ (j2 :> {r2})

MCInit == BackgroundInit /\ FlagInit /\ scope \in {"race", "notices", "instances", "reloads"}

\* No cycle of any worker ends any more: the mail server keeps them all waiting.
AllHung == \A w \in ImportWorkers : dispatcher[w].pc = "hung"

\* bound: workers that die, hang or outlive a claim where the notices are
\* modelled, before the one with which no worker is left
MaxFaults == 1

\* bound: notices with an attempt that goes otherwise than the outbox takes it to go
MaxDoubtful == 1

\* bound: how often an asset is moved or registered: those of the race one after
\* the other, those whose import is told of by the import alone
MovedAgain == {r2}

MovesBounded ==
    \A r \in Rows :
        IF scope = "race" THEN Len(history'[r]) <= IF r \in MovedAgain THEN MaxMovements ELSE 1
        ELSE \A i \in 1..Len(history'[r]) : history'[r][i].type = "REGISTRATION"

\* Among imports that race, a run that fails and goes no further stands for a
\* worker that dies.
JobsNext ==
    /\ \/ scope = "race" /\ ImportNext /\ deaths' = 0 /\ UNCHANGED mailVars
       \/ /\ scope = "notices"
          /\ BackgroundNext
          /\ importJob'[j1].status = "NONE"
          /\ (deaths' + mailFaults' <= MaxFaults \/ AllHung')
          /\ Cardinality(doubtful') <= MaxDoubtful
    /\ MovesBounded
    /\ UNCHANGED flagVars

\* bound: failing requests and changes by hand where both instances run
MaxUpsetsOfTwo == 2

\* Where both run, nothing but requests fails, one of them has an administrator,
\* and there is one request, one reload and two writes at a time.
FlagsOfTwo ==
    /\ scope = "instances"
    /\ \/ CooldownEnds
       \/ \E i \in FlagInstances :
            \/ Answers(i) \/ ReloadReads(i, 1) \/ ReloadApplies(i, 1)
            \/ \E k \in Writers : Writes(i, k)
            \/ upsets < MaxUpsetsOfTwo /\ (ProbeFails(i) \/ RequestFails(i))
       \/ upsets < MaxUpsetsOfTwo /\ \E op \in {"enable", "disable"} : AdminSets(n2, op)
    /\ Cardinality({i \in FlagInstances : node'[i].inFlight > 0}) <= 1
    /\ Cardinality({i \in FlagInstances : node'[i].reload[1].pc = "read"}) <= 1
    /\ Cardinality({x \in FlagInstances \X Writers : node'[x[1]].write[x[2]].op # "none"}) <= 2

FlagsOfOne ==
    /\ scope = "reloads"
    /\ \/ CooldownEnds \/ SqlEnables
       \/ Serves(n1) \/ Upsets(n1) \/ FailureAges(n1)

FlagsNext == (FlagsOfTwo \/ FlagsOfOne) /\ UNCHANGED jobVars

MCNext == (JobsNext \/ FlagsNext) /\ UNCHANGED scope

\* Requests keep coming and are answered, the database answers, the timer
\* reloads, and time passes.  A reload takes milliseconds: it is not overtaken by
\* a write of its own instance every time.
FlagFairness ==
    /\ WF_flagVars(scope = "reloads" /\ CooldownEnds)
    /\ WF_flagVars(scope = "reloads" /\ Answers(n1))
    /\ \A k \in Writers : WF_flagVars(scope = "reloads" /\ Writes(n1, k))
    /\ WF_flagVars(scope = "reloads" /\ ReloadReads(n1, 1))
    /\ SF_flagVars(scope = "reloads" /\ ReloadApplies(n1, 1))

\* BackgroundFairness, where the jobs run.
JobsFairness ==
    WF_jobVars(scope \in {"race", "notices"} /\ ((\E w \in ImportWorkers : WorkerStep(w)) \/ TimePasses))

MCSpec == MCInit /\ [][MCNext]_<<jobVars, flagVars, scope>> /\ JobsFairness /\ FlagFairness

\* notify, failAbandoned and ImportJobsJob.running: an import that is queued ends,
\* whoever dies, and where the notices are modelled with a mail that tells so and
\* is delivered, or tried as often as the outbox tries; unless there comes a time
\* when every instance waits for a mail server that fell silent.
ImportEndsAndTells ==
    \A j \in Jobs :
        importJob[j].status = "QUEUED" ~>
            \/ /\ importJob[j].status \in {"SUCCEEDED", "FAILED"}
               /\ scope = "notices" => MailSettled(<<j, importJob[j].attempts>>)
            \/ AllHung

\* DEPLOY 12: once nothing fails and nobody changes anything, the instance says
\* of the module what the database says, and no circuit is left open.
FlagsSettle ==
    scope = "reloads" =>
        <>[](/\ node[n1].stored = Override(flag)
             /\ flag.enabled \/ flag.reason # "CIRCUIT")
=============================================================================
