---------------------------- MODULE BackgroundJobs ----------------------------
(***************************************************************************)
(* ImportJobsJob: the worker of an instance runs import jobs, then sends   *)
(* the mails of the outbox, one thing at a time.  The two meet in notify:  *)
(* the transaction that ends a run of an import also queues the mail that  *)
(* tells who asked for it.  The notice of a run is named by the job and    *)
(* the lease of the run.                                                   *)
(***************************************************************************)
EXTENDS ImportJobs, MailOutbox

ASSUME NoticeAssumption == Mails = Jobs \X (1..MaxClaims) /\ Dispatchers = ImportWorkers

jobVars == <<importVars, mailVars>>

NoticeOf(w) == <<importWorker[w].job, importWorker[w].lease>>

FinishAndNotify(w) == FinishImport(w) /\ EnqueueMail(NoticeOf(w))

\* Mutation: nobody is told of an import that failed.
FailSilently(w) == FailJob(w) /\ UNCHANGED mailVars

FailAndNotify(w) ==
    /\ FailJob(w)
    /\ IF FailsOwnLease(w) THEN EnqueueMail(NoticeOf(w)) ELSE UNCHANGED mailVars

BackgroundInit == ImportInit /\ MailInit

\* ImportJobsJob.run, whose flag keeps a cycle from starting while one runs, or
\* waits for a mail server for ever: it goes on with an import, ...
Imports(w) ==
    /\ dispatcher[w].pc = "idle"
    /\ \/ LeaseLost(w) \/ BeginRows(w) \/ CommitRows(w) \/ RegisterChunk(w) \/ MovementsEnd(w) \/ Finalizing(w)
       \/ \E j \in Jobs : ClaimJob(w, j) \/ FailAbandoned(w, j)
       \/ \E r \in Rows : SelectChunk(w, r)

\* ... or with a mail.
DispatchesMail(w) ==
    /\ importWorker[w].pc = "idle"
    /\ \/ Send(w) \/ SendFails(w) \/ SendFailsLate(w) \/ RecordOutcome(w)
       \/ \E m \in Mails : ClaimMail(w, m)

WorkerStep(w) ==
    \/ FinishAndNotify(w) \/ FailAndNotify(w)
    \/ Imports(w) /\ UNCHANGED mailVars
    \/ DispatchesMail(w) /\ UNCHANGED importVars

TimePasses ==
    \/ \E j \in Jobs : HeartbeatLapses(j) /\ UNCHANGED mailVars
    \/ \E m \in Mails : MailClaimLapses(m) /\ UNCHANGED importVars

\* What people and faults do.
Disturbance ==
    \/ /\ \/ \E j \in Jobs : EnqueueImport(j) \/ RetryImport(j)
          \/ \E w \in ImportWorkers : RunFails(w) \/ WorkerDies(w)
          \/ \E r \in Rows : AssetMoves(r)
       /\ UNCHANGED mailVars
    \/ /\ \/ \E m \in Mails : MailClaimOutlived(m)
          \/ \E w \in ImportWorkers : DispatcherDies(w) \/ SendHangs(w) \/ HungRestarts(w)
       /\ UNCHANGED importVars

BackgroundNext == (\E w \in ImportWorkers : WorkerStep(w)) \/ TimePasses \/ Disturbance

BackgroundSpec == BackgroundInit /\ [][BackgroundNext]_jobVars

\* As long as a worker has something to do or to wait for, somebody does
\* something: a worker that is not hung runs every five seconds, and minutes
\* pass.  Nothing makes an instance restart.
BackgroundFairness == WF_jobVars((\E w \in ImportWorkers : WorkerStep(w)) \/ TimePasses)
=============================================================================
