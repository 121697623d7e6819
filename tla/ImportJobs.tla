------------------------------ MODULE ImportJobs ------------------------------
(***************************************************************************)
(* ImportJobsService and the writing part of ExcelImportService, for       *)
(* imports of assets: a job is claimed with a lease, writes the rows of    *)
(* its file in one transaction, registers the first movement of each asset *)
(* in chunks (of one asset here), and finishes.  Every transaction takes   *)
(* the job's row and checks the lease first (hold).  Meanwhile the assets  *)
(* that are there are used, and moved.  A lease is named by the attempt    *)
(* that took it: no two claims of a job have the same.  A row is named by  *)
(* the asset it describes (legacy_asset_id).                               *)
(***************************************************************************)
EXTENDS MovementHistory, FiniteSets

CONSTANTS
    Jobs, ImportWorkers, NoJob,
    FileRows,             \* the rows of each job's file that are not quarantined
    MaxImportAttempts,    \* IMPORT_JOB_MAX_ATTEMPTS
    MaxClaims,            \* bound: claims of a job
    MaxDeaths             \* bound: workers that die

ASSUME ImportAssumption ==
    /\ NoJob \notin Jobs
    /\ FileRows \in [Jobs -> SUBSET Rows]
    /\ MaxImportAttempts \in Nat \ {0} /\ MaxClaims \in Nat /\ MaxDeaths \in Nat
    /\ MaxImportAttempts <= MaxClaims

VARIABLES
    importJob,     \* staging_import_job
    origin,        \* asset_import_origin: the job that brought the asset in
    importWorker,  \* how far each run is
    deaths

importVars == <<importJob, origin, history, importWorker, deaths>>

JobRecord == [status : {"NONE", "QUEUED", "RUNNING", "SUCCEEDED", "FAILED"},
              attempts : 0..MaxClaims, lease : 0..MaxClaims, fresh : BOOLEAN,
              written : BOOLEAN, inserted : SUBSET Rows, done : Nat]

RunRecord == [pc : {"idle", "begin", "rows", "movements", "chunk", "finalizing", "final", "fail"},
              job : Jobs \cup {NoJob}, lease : 0..MaxClaims, new : SUBSET Rows]

ImportTypeOK ==
    /\ importJob \in [Jobs -> JobRecord]
    /\ origin \in [Rows -> Jobs \cup {NoJob}]
    /\ HistoryTypeOK
    /\ importWorker \in [ImportWorkers -> RunRecord]
    /\ deaths \in 0..MaxDeaths

Off == [pc |-> "idle", job |-> NoJob, lease |-> 0, new |-> {}]

ImportInit ==
    /\ importJob = [j \in Jobs |-> [status |-> "NONE", attempts |-> 0, lease |-> 0, fresh |-> FALSE,
                                    written |-> FALSE, inserted |-> {}, done |-> 0]]
    /\ origin = [r \in Rows |-> NoJob]
    /\ HistoryInit
    /\ importWorker = [w \in ImportWorkers |-> Off]
    /\ deaths = 0

\* A run that is writing its rows, or a chunk of movements, has the row of its
\* job.
JobLocked(j) == \E w \in ImportWorkers : importWorker[w].pc \in {"rows", "chunk"} /\ importWorker[w].job = j

\* enqueue: one job per import.
EnqueueImport(j) ==
    /\ importJob[j].status = "NONE"
    /\ importJob' = [importJob EXCEPT ![j].status = "QUEUED"]
    /\ UNCHANGED <<origin, history, importWorker, deaths>>

RetryImport(j) ==
    /\ importJob[j].status = "FAILED"
    /\ importJob[j].attempts < MaxClaims
    /\ importJob' = [importJob EXCEPT ![j].status = "QUEUED", ![j].lease = 0, ![j].fresh = FALSE]
    /\ UNCHANGED <<origin, history, importWorker, deaths>>

-----------------------------------------------------------------------------
(* A run.                                                                  *)

Claimable(j) ==
    \/ importJob[j].status = "QUEUED"
    \/ /\ importJob[j].status = "RUNNING"
       /\ importJob[j].attempts < MaxImportAttempts
       /\ ~importJob[j].fresh

Claimed(j) ==
    [importJob[j] EXCEPT !.status = "RUNNING", !.attempts = @ + 1, !.lease = importJob[j].attempts + 1, !.fresh = TRUE]

\* Mutation: a job whose rows are written is taken for one that is done.
ResumesAtEnd(j) == IF importJob[j].written THEN "final" ELSE "begin"

ResumesAt(j) == IF importJob[j].written THEN "movements" ELSE "begin"

\* claim, which skips a job whose row is locked.
ClaimJob(w, j) ==
    /\ importWorker[w].pc = "idle"
    /\ Claimable(j)
    /\ ~JobLocked(j)
    /\ importJob[j].attempts < MaxClaims
    /\ importJob' = [importJob EXCEPT ![j] = Claimed(j)]
    /\ importWorker' = [importWorker EXCEPT ![w] =
          [pc |-> ResumesAt(j), job |-> j, lease |-> importJob[j].attempts + 1, new |-> {}]]
    /\ UNCHANGED <<origin, history, deaths>>

\* hold
Holds(w) ==
    LET j == importWorker[w].job
    IN  importJob[j].lease = importWorker[w].lease /\ importJob[j].status = "RUNNING"

\* A transaction that does not find its lease abandons the run.
LeaseLost(w) ==
    /\ importWorker[w].pc \in {"begin", "movements", "final"}
    /\ ~JobLocked(importWorker[w].job)
    /\ ~Holds(w)
    /\ importWorker' = [importWorker EXCEPT ![w] = Off]
    /\ UNCHANGED <<importJob, origin, history, deaths>>

\* writeRows classifies the rows ...
BeginRows(w) ==
    /\ importWorker[w].pc = "begin"
    /\ ~JobLocked(importWorker[w].job)
    /\ Holds(w)
    /\ importWorker' = [importWorker EXCEPT ![w].pc = "rows",
                                            ![w].new = {r \in FileRows[importWorker[w].job] : origin[r] = NoJob}]
    /\ UNCHANGED <<importJob, origin, history, deaths>>

\* ... and inserts those that are still new; the rows and the result commit
\* together.
CommitRows(w) ==
    LET j == importWorker[w].job
        new == {r \in importWorker[w].new : origin[r] = NoJob}
    IN  /\ importWorker[w].pc = "rows"
        /\ origin' = [r \in Rows |-> IF r \in new THEN j ELSE origin[r]]
        /\ importJob' = [importJob EXCEPT ![j].written = TRUE, ![j].inserted = new, ![j].fresh = TRUE]
        /\ importWorker' = [importWorker EXCEPT ![w].pc = "movements", ![w].new = {}]
        /\ UNCHANGED <<history, deaths>>

\* registerMovements selects, of the assets of the import, one that has no
\* movement when the statement begins, and waits for its row ...
PendingMovements(j) == {r \in Rows : origin[r] = j /\ history[r] = <<>>}

SelectChunk(w, r) ==
    LET j == importWorker[w].job
    IN  /\ importWorker[w].pc = "movements"
        /\ ~JobLocked(j)
        /\ Holds(w)
        /\ r \in PendingMovements(j)
        /\ importWorker' = [importWorker EXCEPT ![w].pc = "chunk", ![w].new = {r}]
        /\ UNCHANGED <<importJob, origin, history, deaths>>

\* ... which somebody may have moved by the time it has it: it looks again, and
\* registers what still has no movement.
RegisterChunk(w) ==
    LET j == importWorker[w].job
        pending == StillUnmoved(importWorker[w].new)
    IN  /\ importWorker[w].pc = "chunk"
        /\ RecordInitial(pending)
        /\ importJob' = [importJob EXCEPT ![j].done = @ + Cardinality(pending), ![j].fresh = TRUE]
        /\ importWorker' = [importWorker EXCEPT ![w].pc = "movements", ![w].new = {}]
        /\ UNCHANGED <<origin, deaths>>

\* The chunk that finds nothing more to register.
MovementsEnd(w) ==
    /\ importWorker[w].pc = "movements"
    /\ ~JobLocked(importWorker[w].job)
    /\ Holds(w)
    /\ PendingMovements(importWorker[w].job) = {}
    /\ importWorker' = [importWorker EXCEPT ![w].pc = "finalizing"]
    /\ UNCHANGED <<importJob, origin, history, deaths>>

\* FINALIZING is written only under the run's own lease.
Finalizing(w) ==
    LET j == importWorker[w].job
    IN  /\ importWorker[w].pc = "finalizing"
        /\ ~JobLocked(j)
        /\ importJob' = [importJob EXCEPT ![j].fresh = @ \/ importJob[j].lease = importWorker[w].lease]
        /\ importWorker' = [importWorker EXCEPT ![w].pc = "final"]
        /\ UNCHANGED <<origin, history, deaths>>

\* markConfirmed, the result and the notice, in one transaction.
FinishImport(w) ==
    LET j == importWorker[w].job
    IN  /\ importWorker[w].pc = "final"
        /\ Holds(w)
        /\ importJob' = [importJob EXCEPT ![j].status = "SUCCEEDED", ![j].lease = 0, ![j].fresh = TRUE]
        /\ importWorker' = [importWorker EXCEPT ![w] = Off]
        /\ UNCHANGED <<origin, history, deaths>>

\* Any error of the run, the violation of a unique key by rows another import
\* has brought in meanwhile included: its transaction is rolled back, ...
RunFails(w) ==
    /\ importWorker[w].pc \in {"begin", "rows", "movements", "chunk", "finalizing", "final"}
    /\ importWorker' = [importWorker EXCEPT ![w].pc = "fail", ![w].new = {}]
    /\ UNCHANGED <<importJob, origin, history, deaths>>

\* ... and a job that died with its last attempt is noticed by failAbandoned.
FailAbandoned(w, j) ==
    /\ importWorker[w].pc = "idle"
    /\ importJob[j].status = "RUNNING"
    /\ importJob[j].attempts >= MaxImportAttempts
    /\ ~importJob[j].fresh
    /\ importWorker' = [importWorker EXCEPT ![w] = [pc |-> "fail", job |-> j, lease |-> importJob[j].lease, new |-> {}]]
    /\ UNCHANGED <<importJob, origin, history, deaths>>

\* Mutation: the job fails whoever has it.
FailsAnyLease(w) == TRUE

\* fail only touches the job if it still has the lease it fails.
FailsOwnLease(w) == importJob[importWorker[w].job].lease = importWorker[w].lease

FailJob(w) ==
    LET j == importWorker[w].job
    IN  /\ importWorker[w].pc = "fail"
        /\ ~JobLocked(j)
        /\ importJob' = IF FailsOwnLease(w) THEN [importJob EXCEPT ![j].status = "FAILED", ![j].lease = 0] ELSE importJob
        /\ importWorker' = [importWorker EXCEPT ![w] = Off]
        /\ UNCHANGED <<origin, history, deaths>>

\* Ten minutes without a heartbeat.
HeartbeatLapses(j) ==
    /\ importJob[j].status = "RUNNING"
    /\ importJob[j].fresh
    /\ importJob' = [importJob EXCEPT ![j].fresh = FALSE]
    /\ UNCHANGED <<origin, history, importWorker, deaths>>

WorkerDies(w) ==
    /\ importWorker[w].pc # "idle"
    /\ deaths < MaxDeaths
    /\ deaths' = deaths + 1
    /\ importWorker' = [importWorker EXCEPT ![w] = Off]
    /\ UNCHANGED <<importJob, origin, history>>

\* An asset may be used, and moved, as soon as it is there.
AssetMoves(r) ==
    /\ origin[r] # NoJob
    /\ RecordMovement(r)
    /\ UNCHANGED <<importJob, origin, importWorker, deaths>>

ImportNext ==
    \/ \E j \in Jobs : EnqueueImport(j) \/ RetryImport(j) \/ HeartbeatLapses(j)
    \/ \E w \in ImportWorkers :
         \/ LeaseLost(w) \/ BeginRows(w) \/ CommitRows(w) \/ RegisterChunk(w) \/ MovementsEnd(w) \/ Finalizing(w) \/ FinishImport(w)
         \/ RunFails(w) \/ FailJob(w) \/ WorkerDies(w)
         \/ \E j \in Jobs : ClaimJob(w, j) \/ FailAbandoned(w, j)
         \/ \E r \in Rows : SelectChunk(w, r)
    \/ \E r \in Rows : AssetMoves(r)

ImportSpec == ImportInit /\ [][ImportNext]_importVars

-----------------------------------------------------------------------------
(* Properties.                                                             *)

\* writeRows and registerMovements: no asset has a movement before it is there,
\* or is registered after it was moved, or twice, however often its import was
\* interrupted and taken over.
RegisteredOnce ==
    \A r \in Rows : \A i \in 1..Len(history[r]) :
        origin[r] # NoJob /\ (history[r][i].type = "REGISTRATION" => i = 1)

\* The result of an import (assets inserted, movements registered) counts what
\* is there, over all the runs that worked on it.
ResultCounts ==
    \A j \in Jobs : importJob[j].status = "SUCCEEDED" =>
        /\ importJob[j].inserted = {r \in Rows : origin[r] = j}
        /\ importJob[j].done = Cardinality({r \in Rows :
               origin[r] = j /\ \E i \in 1..Len(history[r]) : history[r][i].type = "REGISTRATION"})

\* FinishImport comes last: a finished import has brought in every row of its
\* file that was not there, and left no asset without a movement.
FinishedIsComplete ==
    \A j \in Jobs : importJob[j].status = "SUCCEEDED" =>
        /\ \A r \in FileRows[j] : origin[r] # NoJob
        /\ PendingMovements(j) = {}

\* What the runs of an import keep, whichever of them dies or is overtaken:
\* nothing is registered twice, and the result is complete and counts right.
ImportInv == ImportTypeOK /\ RegisteredOnce /\ ResultCounts /\ FinishedIsComplete

\* hold and fail: nothing takes a finished import back or adds to it, however
\* late a run that lost its lease wakes up.
FinishedIsFinal ==
    [][\A j \in Jobs : importJob[j].status = "SUCCEEDED" => importJob'[j] = importJob[j]]_importVars
=============================================================================
