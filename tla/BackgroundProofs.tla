-------------------------- MODULE BackgroundProofs --------------------------
(***************************************************************************)
(* What the work behind the requests keeps: the runs of an import, for any *)
(* number of imports, rows, workers, attempts and movements; the           *)
(* dispatches of the outbox, for any number of mails, dispatchers,         *)
(* attempts and faults; and the switch of a module that may be off, for    *)
(* any number of instances, requests and reloads: no reload takes an       *)
(* instance back behind its own writes, and what was switched off by hand  *)
(* is not switched on by a circuit.                                        *)
(***************************************************************************)
EXTENDS BackgroundJobs, FeatureFlags, FiniteSetTheorems, SequenceTheorems, TLAPS

Active(w) == importWorker[w].pc # "idle"

\* A lease belongs to one run: each claim has a number of its own.
LeaseOfRun ==
    /\ \A w \in ImportWorkers : Active(w) =>
          /\ importWorker[w].job \in Jobs
          /\ importWorker[w].lease \in 1..importJob[importWorker[w].job].attempts
    /\ \A u, v \in ImportWorkers :
          /\ u # v
          /\ Active(u) /\ Active(v) /\ importWorker[u].pc # "fail" /\ importWorker[v].pc # "fail"
          /\ importWorker[u].job = importWorker[v].job
          => importWorker[u].lease # importWorker[v].lease

LeaseOfJob ==
    \A j \in Jobs :
        /\ importJob[j].status = "RUNNING" => importJob[j].lease \in 1..importJob[j].attempts
        /\ importJob[j].status # "RUNNING" => importJob[j].lease = 0
        /\ importJob[j].status = "SUCCEEDED" => importJob[j].fresh

\* The row lock of the job keeps the lease of who has it.
LockedHolds == \A w \in ImportWorkers : importWorker[w].pc \in {"rows", "chunk"} => Holds(w)

\* How far a run is tells how far its job is.
RunMatches(w, j) ==
    /\ importWorker[w].pc \in {"begin", "rows"} /\ Holds(w) => ~importJob[j].written
    /\ importWorker[w].pc \in {"movements", "chunk", "finalizing", "final"} => importJob[j].written
    /\ importWorker[w].pc = "rows" =>
         /\ importWorker[w].new \subseteq FileRows[j]
         /\ \A r \in FileRows[j] \ importWorker[w].new : origin[r] # NoJob
    /\ importWorker[w].pc = "chunk" => \E r \in Rows : importWorker[w].new = {r} /\ origin[r] = j
    /\ importWorker[w].pc \in {"finalizing", "final"} => PendingMovements(j) = {}

RunMatchesJob == \A w \in ImportWorkers : RunMatches(w, importWorker[w].job)

BroughtIn(j) == {r \in Rows : origin[r] = j}

\* What a job says it has written is there.
JobMatchesRows ==
    \A j \in Jobs :
        /\ ~importJob[j].written => BroughtIn(j) = {}
        /\ importJob[j].written => importJob[j].inserted = BroughtIn(j) /\ \A r \in FileRows[j] : origin[r] # NoJob
        /\ importJob[j].status = "SUCCEEDED" => importJob[j].written /\ PendingMovements(j) = {}

\* Each movement follows the one before it.
Linked == \A r \in Rows : \A i \in 1..Len(history[r]) : history[r][i].previous = i - 1

IsRegistered(r) == \E i \in 1..Len(history[r]) : history[r][i].type = "REGISTRATION"

RegisteredOf(j) == {r \in Rows : origin[r] = j /\ IsRegistered(r)}

\* The count of a job is the number of its assets that are registered.
CountMatches == \A j \in Jobs : IsFiniteSet(RegisteredOf(j)) /\ importJob[j].done = Cardinality(RegisteredOf(j))

IInv ==
    /\ ImportTypeOK /\ LeaseOfRun /\ LeaseOfJob /\ LockedHolds /\ RunMatchesJob /\ JobMatchesRows
    /\ Linked /\ RegisteredOnce /\ CountMatches

-----------------------------------------------------------------------------
(* The steps that leave the assets and their movements alone.              *)

\* They keep the movements as they are.
LEMMA MovementsKept ==
    ASSUME IInv, UNCHANGED <<origin, history>>, \A j \in Jobs : importJob'[j].done = importJob[j].done
    PROVE  Linked' /\ RegisteredOnce' /\ CountMatches'
  <1>1. Linked' /\ RegisteredOnce'
    BY DEF IInv, Linked, RegisteredOnce
  <1>2. \A j \in Jobs : RegisteredOf(j)' = RegisteredOf(j)
    BY DEF RegisteredOf, IsRegistered
  <1>3. CountMatches'
    BY <1>2 DEF IInv, CountMatches
  <1> QED BY <1>1, <1>3

\* A run that nothing happens to stays as far as it is.
LEMMA OtherRunMatches ==
    ASSUME IInv, NEW u \in ImportWorkers, importWorker'[u] = importWorker[u], UNCHANGED <<importJob, origin, history>>
    PROVE  RunMatches(u, importWorker[u].job)'
  <1>1. RunMatches(u, importWorker[u].job)
    BY DEF IInv, RunMatchesJob
  <1> QED BY <1>1 DEF RunMatches, Holds, PendingMovements

\* enqueue
LEMMA EnqueueKeeps ==
    ASSUME IInv, NEW j \in Jobs, EnqueueImport(j)
    PROVE  IInv'
  <1> USE ImportAssumption DEF EnqueueImport
  <1>1. ImportTypeOK'
    <2>1. importJob' \in [Jobs -> JobRecord]
      BY DEF IInv, ImportTypeOK, JobRecord, RunRecord
    <2>2. importWorker' \in [ImportWorkers -> RunRecord]
      BY DEF IInv, ImportTypeOK, RunRecord, Off
    <2> QED BY <2>1, <2>2 DEF IInv, ImportTypeOK, HistoryTypeOK
  <1>2. LeaseOfRun'
    BY DEF IInv, ImportTypeOK, JobRecord, RunRecord, LeaseOfRun, LeaseOfJob, LockedHolds, Off, Active
  <1>3. LeaseOfJob'
    BY DEF IInv, ImportTypeOK, JobRecord, RunRecord, LeaseOfRun, LeaseOfJob, Off, Active
  <1>4. LockedHolds'
    BY DEF IInv, ImportTypeOK, JobRecord, RunRecord, LeaseOfRun, LeaseOfJob, LockedHolds, Off, Active, Holds, JobLocked
  <1>5. RunMatchesJob'
    BY DEF IInv, ImportTypeOK, JobRecord, RunRecord, LeaseOfRun, LeaseOfJob, RunMatchesJob, RunMatches, JobMatchesRows, Off, Active, Holds, PendingMovements
  <1>6. JobMatchesRows'
    BY DEF IInv, ImportTypeOK, JobRecord, RunRecord, JobMatchesRows, RunMatchesJob, RunMatches, LeaseOfRun, Active, BroughtIn, PendingMovements
  <1>7. Linked' /\ RegisteredOnce' /\ CountMatches'
    BY MovementsKept DEF IInv, ImportTypeOK, JobRecord, RunRecord
  <1> QED BY <1>1, <1>2, <1>3, <1>4, <1>5, <1>6, <1>7 DEF IInv

\* retry
LEMMA RetryKeeps ==
    ASSUME IInv, NEW j \in Jobs, RetryImport(j)
    PROVE  IInv'
  <1> USE ImportAssumption DEF RetryImport
  <1>1. ImportTypeOK'
    <2>1. importJob' \in [Jobs -> JobRecord]
      <3>1. importJob[j] \in JobRecord /\ 0 \in 0..MaxClaims
        BY DEF IInv, ImportTypeOK, LeaseOfRun, Active
      <3>2. [importJob[j] EXCEPT !.status = "QUEUED", !.lease = 0, !.fresh = FALSE] \in JobRecord
        BY <3>1 DEF JobRecord
      <3> QED BY <3>2 DEF IInv, ImportTypeOK
    <2>2. importWorker' \in [ImportWorkers -> RunRecord]
      BY DEF IInv, ImportTypeOK, RunRecord, Off
    <2> QED BY <2>1, <2>2 DEF IInv, ImportTypeOK, HistoryTypeOK
  <1>2. LeaseOfRun'
    BY DEF IInv, ImportTypeOK, JobRecord, RunRecord, LeaseOfRun, LeaseOfJob, LockedHolds, Off, Active
  <1>3. LeaseOfJob'
    BY DEF IInv, ImportTypeOK, JobRecord, RunRecord, LeaseOfRun, LeaseOfJob, Off, Active
  <1>4. LockedHolds'
    BY DEF IInv, ImportTypeOK, JobRecord, RunRecord, LeaseOfRun, LeaseOfJob, LockedHolds, Off, Active, Holds, JobLocked
  <1>5. RunMatchesJob'
    BY DEF IInv, ImportTypeOK, JobRecord, RunRecord, LeaseOfRun, LeaseOfJob, RunMatchesJob, RunMatches, JobMatchesRows, Off, Active, Holds, PendingMovements
  <1>6. JobMatchesRows'
    BY DEF IInv, ImportTypeOK, JobRecord, RunRecord, JobMatchesRows, RunMatchesJob, RunMatches, LeaseOfRun, Active, BroughtIn, PendingMovements
  <1>7. Linked' /\ RegisteredOnce' /\ CountMatches'
    BY MovementsKept DEF IInv, ImportTypeOK, JobRecord, RunRecord
  <1> QED BY <1>1, <1>2, <1>3, <1>4, <1>5, <1>6, <1>7 DEF IInv

\* A heartbeat that is late.
LEMMA LapseKeeps ==
    ASSUME IInv, NEW j \in Jobs, HeartbeatLapses(j)
    PROVE  IInv'
  <1> USE ImportAssumption DEF HeartbeatLapses
  <1>1. ImportTypeOK'
    <2>1. importJob' \in [Jobs -> JobRecord]
      <3>1. importJob[j] \in JobRecord
        BY DEF IInv, ImportTypeOK, LeaseOfRun, Active
      <3>2. [importJob[j] EXCEPT !.fresh = FALSE] \in JobRecord
        BY <3>1 DEF JobRecord
      <3> QED BY <3>2 DEF IInv, ImportTypeOK
    <2>2. importWorker' \in [ImportWorkers -> RunRecord]
      BY DEF IInv, ImportTypeOK, RunRecord, Off
    <2> QED BY <2>1, <2>2 DEF IInv, ImportTypeOK, HistoryTypeOK
  <1>2. LeaseOfRun'
    BY DEF IInv, ImportTypeOK, JobRecord, RunRecord, LeaseOfRun, LeaseOfJob, LockedHolds, Off, Active
  <1>3. LeaseOfJob'
    BY DEF IInv, ImportTypeOK, JobRecord, RunRecord, LeaseOfRun, LeaseOfJob, Off, Active
  <1>4. LockedHolds'
    BY DEF IInv, ImportTypeOK, JobRecord, RunRecord, LeaseOfRun, LeaseOfJob, LockedHolds, Off, Active, Holds, JobLocked
  <1>5. RunMatchesJob'
    BY DEF IInv, ImportTypeOK, JobRecord, RunRecord, LeaseOfRun, LeaseOfJob, RunMatchesJob, RunMatches, JobMatchesRows, Off, Active, Holds, PendingMovements
  <1>6. JobMatchesRows'
    BY DEF IInv, ImportTypeOK, JobRecord, RunRecord, JobMatchesRows, RunMatchesJob, RunMatches, LeaseOfRun, Active, BroughtIn, PendingMovements
  <1>7. Linked' /\ RegisteredOnce' /\ CountMatches'
    BY MovementsKept DEF IInv, ImportTypeOK, JobRecord, RunRecord
  <1> QED BY <1>1, <1>2, <1>3, <1>4, <1>5, <1>6, <1>7 DEF IInv

\* claim
LEMMA ClaimKeeps ==
    ASSUME IInv, NEW w \in ImportWorkers, NEW j \in Jobs, ClaimJob(w, j)
    PROVE  IInv'
  <1> USE ImportAssumption DEF ClaimJob, Claimable, Claimed, ResumesAt
  <1>1. ImportTypeOK'
    <2>1. importJob' \in [Jobs -> JobRecord]
      <3>1. importJob[j] \in JobRecord /\ importJob[j].attempts + 1 \in 0..MaxClaims
        BY DEF IInv, ImportTypeOK, JobRecord
      <3>2. [importJob[j] EXCEPT !.status = "RUNNING", !.attempts = @ + 1, !.lease = importJob[j].attempts + 1, !.fresh = TRUE] \in JobRecord
        BY <3>1 DEF JobRecord
      <3> QED BY <3>2 DEF IInv, ImportTypeOK
    <2>2. importWorker' \in [ImportWorkers -> RunRecord]
      <3>1. [pc |-> ResumesAt(j), job |-> j, lease |-> importJob[j].attempts + 1, new |-> {}] \in RunRecord
        BY DEF IInv, ImportTypeOK, JobRecord, RunRecord
      <3> QED BY <3>1 DEF IInv, ImportTypeOK
    <2> QED BY <2>1, <2>2 DEF IInv, ImportTypeOK, HistoryTypeOK
  <1>2. LeaseOfRun'
    BY DEF IInv, ImportTypeOK, JobRecord, RunRecord, LeaseOfRun, LeaseOfJob, LockedHolds, Off, Active
  <1>3. LeaseOfJob'
    BY DEF IInv, ImportTypeOK, JobRecord, RunRecord, LeaseOfRun, LeaseOfJob, Off, Active
  <1>4. LockedHolds'
    BY DEF IInv, ImportTypeOK, JobRecord, RunRecord, LeaseOfRun, LeaseOfJob, LockedHolds, Off, Active, Holds, JobLocked
  <1>5. RunMatchesJob'
    BY DEF IInv, ImportTypeOK, JobRecord, RunRecord, LeaseOfRun, LeaseOfJob, RunMatchesJob, RunMatches, JobMatchesRows, Off, Active, Holds, PendingMovements
  <1>6. JobMatchesRows'
    BY DEF IInv, ImportTypeOK, JobRecord, RunRecord, JobMatchesRows, RunMatchesJob, RunMatches, LeaseOfRun, Active, BroughtIn, PendingMovements
  <1>7. Linked' /\ RegisteredOnce' /\ CountMatches'
    BY MovementsKept DEF IInv, ImportTypeOK, JobRecord, RunRecord
  <1> QED BY <1>1, <1>2, <1>3, <1>4, <1>5, <1>6, <1>7 DEF IInv

\* A run that finds its lease gone.
LEMMA LeaseLostKeeps ==
    ASSUME IInv, NEW w \in ImportWorkers, LeaseLost(w)
    PROVE  IInv'
  <1> USE ImportAssumption DEF LeaseLost
  <1>1. ImportTypeOK'
    <2>1. importJob' \in [Jobs -> JobRecord]
      BY DEF IInv, ImportTypeOK, JobRecord, RunRecord
    <2>2. importWorker' \in [ImportWorkers -> RunRecord]
      BY DEF IInv, ImportTypeOK, RunRecord, Off
    <2> QED BY <2>1, <2>2 DEF IInv, ImportTypeOK, HistoryTypeOK
  <1>2. LeaseOfRun'
    BY DEF IInv, ImportTypeOK, JobRecord, RunRecord, LeaseOfRun, LeaseOfJob, LockedHolds, Off, Active
  <1>3. LeaseOfJob'
    BY DEF IInv, ImportTypeOK, JobRecord, RunRecord, LeaseOfRun, LeaseOfJob, Off, Active
  <1>4. LockedHolds'
    BY DEF IInv, ImportTypeOK, JobRecord, RunRecord, LeaseOfRun, LeaseOfJob, LockedHolds, Off, Active, Holds, JobLocked
  <1>5. RunMatchesJob'
    BY DEF IInv, ImportTypeOK, JobRecord, RunRecord, LeaseOfRun, LeaseOfJob, RunMatchesJob, RunMatches, JobMatchesRows, Off, Active, Holds, PendingMovements
  <1>6. JobMatchesRows'
    BY DEF IInv, ImportTypeOK, JobRecord, RunRecord, JobMatchesRows, RunMatchesJob, RunMatches, LeaseOfRun, Active, BroughtIn, PendingMovements
  <1>7. Linked' /\ RegisteredOnce' /\ CountMatches'
    BY MovementsKept DEF IInv, ImportTypeOK, JobRecord, RunRecord
  <1> QED BY <1>1, <1>2, <1>3, <1>4, <1>5, <1>6, <1>7 DEF IInv

\* writeRows, up to the insertion.
LEMMA BeginRowsKeeps ==
    ASSUME IInv, NEW w \in ImportWorkers, BeginRows(w)
    PROVE  IInv'
  <1> USE ImportAssumption DEF BeginRows, Holds, JobLocked
  <1>1. ImportTypeOK'
    <2>1. importJob' \in [Jobs -> JobRecord]
      BY DEF IInv, ImportTypeOK, JobRecord, RunRecord
    <2>2. importWorker' \in [ImportWorkers -> RunRecord]
      <3>. DEFINE new == {r \in FileRows[importWorker[w].job] : origin[r] = NoJob}
      <3>0. new \in SUBSET Rows
        BY DEF IInv, LeaseOfRun, Active
      <3>. HIDE DEF new
      <3>1. [importWorker[w] EXCEPT !.pc = "rows", !.new = new] \in RunRecord
        BY <3>0 DEF IInv, ImportTypeOK, JobRecord, RunRecord
      <3> QED BY <3>1 DEF new, IInv, ImportTypeOK
    <2> QED BY <2>1, <2>2 DEF IInv, ImportTypeOK, HistoryTypeOK
  <1>2. LeaseOfRun'
    BY DEF IInv, ImportTypeOK, JobRecord, RunRecord, LeaseOfRun, LeaseOfJob, LockedHolds, Off, Active
  <1>3. LeaseOfJob'
    BY DEF IInv, ImportTypeOK, JobRecord, RunRecord, LeaseOfRun, LeaseOfJob, Off, Active
  <1>4. LockedHolds'
    BY DEF IInv, ImportTypeOK, JobRecord, RunRecord, LeaseOfRun, LeaseOfJob, LockedHolds, Off, Active, Holds, JobLocked
  <1>5. RunMatchesJob'
    <2>1. \A u \in ImportWorkers \ {w} : importWorker'[u] = importWorker[u]
      BY DEF IInv, ImportTypeOK
    <2>2. /\ importWorker'[w].pc = "rows" /\ importWorker'[w].job = importWorker[w].job
          /\ importWorker'[w].lease = importWorker[w].lease
          /\ importWorker'[w].new = {r \in FileRows[importWorker[w].job] : origin[r] = NoJob}
      BY DEF IInv, ImportTypeOK, RunRecord
    <2>3. SUFFICES ASSUME NEW u \in ImportWorkers PROVE RunMatches(u, importWorker[u].job)'
      BY DEF RunMatchesJob
    <2>4. CASE u = w
      BY <2>2, <2>4 DEF IInv, RunMatchesJob, RunMatches, LeaseOfRun, Active
    <2>5. CASE u # w
      BY <2>1, <2>5, OtherRunMatches
    <2> QED BY <2>4, <2>5
  <1>6. JobMatchesRows'
    BY DEF IInv, ImportTypeOK, JobRecord, RunRecord, JobMatchesRows, RunMatchesJob, RunMatches, LeaseOfRun, Active, BroughtIn, PendingMovements
  <1>7. Linked' /\ RegisteredOnce' /\ CountMatches'
    BY MovementsKept DEF IInv, ImportTypeOK, JobRecord, RunRecord
  <1> QED BY <1>1, <1>2, <1>3, <1>4, <1>5, <1>6, <1>7 DEF IInv

\* registerMovements, up to the lock of the asset.
LEMMA SelectKeeps ==
    ASSUME IInv, NEW w \in ImportWorkers, NEW q \in Rows, SelectChunk(w, q)
    PROVE  IInv'
  <1> USE ImportAssumption DEF SelectChunk, Holds, JobLocked, PendingMovements
  <1>1. ImportTypeOK'
    <2>1. importJob' \in [Jobs -> JobRecord]
      BY DEF IInv, ImportTypeOK, JobRecord, RunRecord
    <2>2. importWorker' \in [ImportWorkers -> RunRecord]
      <3>1. [importWorker[w] EXCEPT !.pc = "chunk", !.new = {q}] \in RunRecord
        BY DEF IInv, ImportTypeOK, JobRecord, RunRecord
      <3> QED BY <3>1 DEF IInv, ImportTypeOK
    <2> QED BY <2>1, <2>2 DEF IInv, ImportTypeOK, HistoryTypeOK
  <1>0. \A u \in ImportWorkers \ {w} : importWorker'[u] = importWorker[u]
    BY DEF IInv, ImportTypeOK
  <1>a. /\ importWorker'[w].pc = "chunk" /\ importWorker'[w].job = importWorker[w].job
        /\ importWorker'[w].lease = importWorker[w].lease /\ importWorker'[w].new = {q}
    BY DEF IInv, ImportTypeOK, RunRecord
  <1>2. LeaseOfRun'
    <2>1. \A u \in ImportWorkers :
             /\ importWorker'[u].job = importWorker[u].job /\ importWorker'[u].lease = importWorker[u].lease
             /\ importWorker'[u].pc # "fail" => importWorker[u].pc # "fail"
             /\ importWorker'[u].pc # "idle" => importWorker[u].pc # "idle"
      <3> SUFFICES ASSUME NEW u \in ImportWorkers
                   PROVE  /\ importWorker'[u].job = importWorker[u].job /\ importWorker'[u].lease = importWorker[u].lease
                          /\ importWorker'[u].pc # "fail" => importWorker[u].pc # "fail"
                          /\ importWorker'[u].pc # "idle" => importWorker[u].pc # "idle"
        OBVIOUS
      <3>1. CASE u = w
        BY <1>a, <3>1
      <3>2. CASE u # w
        BY <1>0, <3>2
      <3> QED BY <3>1, <3>2
    <2>2. LeaseOfRun /\ importJob' = importJob
      BY DEF IInv
    <2> HIDE DEF SelectChunk
    <2> QED BY <2>1, <2>2 DEF LeaseOfRun, Active
  <1>3. LeaseOfJob'
    BY DEF IInv, ImportTypeOK, JobRecord, RunRecord, LeaseOfRun, LeaseOfJob, Off, Active
  <1>4. LockedHolds'
    BY DEF IInv, ImportTypeOK, JobRecord, RunRecord, LeaseOfRun, LeaseOfJob, LockedHolds, Off, Active, Holds, JobLocked
  <1>5. RunMatchesJob'
    <2>3. SUFFICES ASSUME NEW u \in ImportWorkers PROVE RunMatches(u, importWorker[u].job)'
      BY DEF RunMatchesJob
    <2>4. CASE u = w
      BY <1>a, <2>4 DEF IInv, RunMatchesJob, RunMatches, LeaseOfRun, Active
    <2>5. CASE u # w
      BY <1>0, <2>5, OtherRunMatches
    <2> QED BY <2>4, <2>5
  <1>6. JobMatchesRows'
    BY DEF IInv, ImportTypeOK, JobRecord, RunRecord, JobMatchesRows, RunMatchesJob, RunMatches, LeaseOfRun, Active, BroughtIn, PendingMovements
  <1>7. Linked' /\ RegisteredOnce' /\ CountMatches'
    BY MovementsKept DEF IInv, ImportTypeOK, JobRecord, RunRecord
  <1> QED BY <1>1, <1>2, <1>3, <1>4, <1>5, <1>6, <1>7 DEF IInv

\* registerMovements, when nothing is left.
LEMMA MovementsEndKeeps ==
    ASSUME IInv, NEW w \in ImportWorkers, MovementsEnd(w)
    PROVE  IInv'
  <1> USE ImportAssumption DEF MovementsEnd
  <1>1. ImportTypeOK'
    <2>1. importJob' \in [Jobs -> JobRecord]
      BY DEF IInv, ImportTypeOK, JobRecord, RunRecord
    <2>2. importWorker' \in [ImportWorkers -> RunRecord]
      BY DEF IInv, ImportTypeOK, RunRecord, Off
    <2> QED BY <2>1, <2>2 DEF IInv, ImportTypeOK, HistoryTypeOK
  <1>2. LeaseOfRun'
    BY DEF IInv, ImportTypeOK, JobRecord, RunRecord, LeaseOfRun, LeaseOfJob, LockedHolds, Off, Active
  <1>3. LeaseOfJob'
    BY DEF IInv, ImportTypeOK, JobRecord, RunRecord, LeaseOfRun, LeaseOfJob, Off, Active
  <1>4. LockedHolds'
    BY DEF IInv, ImportTypeOK, JobRecord, RunRecord, LeaseOfRun, LeaseOfJob, LockedHolds, Off, Active, Holds, JobLocked
  <1>5. RunMatchesJob'
    BY DEF IInv, ImportTypeOK, JobRecord, RunRecord, LeaseOfRun, LeaseOfJob, RunMatchesJob, RunMatches, JobMatchesRows, Off, Active, Holds, PendingMovements
  <1>6. JobMatchesRows'
    BY DEF IInv, ImportTypeOK, JobRecord, RunRecord, JobMatchesRows, RunMatchesJob, RunMatches, LeaseOfRun, Active, BroughtIn, PendingMovements
  <1>7. Linked' /\ RegisteredOnce' /\ CountMatches'
    BY MovementsKept DEF IInv, ImportTypeOK, JobRecord, RunRecord
  <1> QED BY <1>1, <1>2, <1>3, <1>4, <1>5, <1>6, <1>7 DEF IInv

\* FINALIZING
LEMMA FinalizingKeeps ==
    ASSUME IInv, NEW w \in ImportWorkers, Finalizing(w)
    PROVE  IInv'
  <1> USE ImportAssumption DEF Finalizing, JobLocked
  <1>1. ImportTypeOK'
    <2>1. importJob' \in [Jobs -> JobRecord]
      <3>1. importJob[importWorker[w].job] \in JobRecord
        BY DEF IInv, ImportTypeOK, LeaseOfRun, Active
      <3>2. [importJob[importWorker[w].job] EXCEPT !.fresh = @ \/ importJob[importWorker[w].job].lease = importWorker[w].lease] \in JobRecord
        BY <3>1 DEF JobRecord
      <3> QED BY <3>2 DEF IInv, ImportTypeOK
    <2>2. importWorker' \in [ImportWorkers -> RunRecord]
      BY DEF IInv, ImportTypeOK, RunRecord, Off
    <2> QED BY <2>1, <2>2 DEF IInv, ImportTypeOK, HistoryTypeOK
  <1>2. LeaseOfRun'
    BY DEF IInv, ImportTypeOK, JobRecord, RunRecord, LeaseOfRun, LeaseOfJob, LockedHolds, Off, Active
  <1>3. LeaseOfJob'
    BY DEF IInv, ImportTypeOK, JobRecord, RunRecord, LeaseOfRun, LeaseOfJob, Off, Active
  <1>4. LockedHolds'
    BY DEF IInv, ImportTypeOK, JobRecord, RunRecord, LeaseOfRun, LeaseOfJob, LockedHolds, Off, Active, Holds, JobLocked
  <1>5. RunMatchesJob'
    BY DEF IInv, ImportTypeOK, JobRecord, RunRecord, LeaseOfRun, LeaseOfJob, RunMatchesJob, RunMatches, JobMatchesRows, Off, Active, Holds, PendingMovements
  <1>6. JobMatchesRows'
    BY DEF IInv, ImportTypeOK, JobRecord, RunRecord, JobMatchesRows, RunMatchesJob, RunMatches, LeaseOfRun, Active, BroughtIn, PendingMovements
  <1>7. Linked' /\ RegisteredOnce' /\ CountMatches'
    BY MovementsKept DEF IInv, ImportTypeOK, JobRecord, RunRecord
  <1> QED BY <1>1, <1>2, <1>3, <1>4, <1>5, <1>6, <1>7 DEF IInv

\* The end of an import.
LEMMA FinishKeeps ==
    ASSUME IInv, NEW w \in ImportWorkers, FinishImport(w)
    PROVE  IInv'
  <1> USE ImportAssumption DEF FinishImport, Holds
  <1>1. ImportTypeOK'
    <2>1. importJob' \in [Jobs -> JobRecord]
      <3>1. importJob[importWorker[w].job] \in JobRecord /\ 0 \in 0..MaxClaims
        BY DEF IInv, ImportTypeOK, LeaseOfRun, Active
      <3>2. [importJob[importWorker[w].job] EXCEPT !.status = "SUCCEEDED", !.lease = 0, !.fresh = TRUE] \in JobRecord
        BY <3>1 DEF JobRecord
      <3> QED BY <3>2 DEF IInv, ImportTypeOK
    <2>2. importWorker' \in [ImportWorkers -> RunRecord]
      BY DEF IInv, ImportTypeOK, RunRecord, Off
    <2> QED BY <2>1, <2>2 DEF IInv, ImportTypeOK, HistoryTypeOK
  <1>2. LeaseOfRun'
    BY DEF IInv, ImportTypeOK, JobRecord, RunRecord, LeaseOfRun, LeaseOfJob, LockedHolds, Off, Active
  <1>3. LeaseOfJob'
    BY DEF IInv, ImportTypeOK, JobRecord, RunRecord, LeaseOfRun, LeaseOfJob, Off, Active
  <1>4. LockedHolds'
    BY DEF IInv, ImportTypeOK, JobRecord, RunRecord, LeaseOfRun, LeaseOfJob, LockedHolds, Off, Active, Holds, JobLocked
  <1>5. RunMatchesJob'
    BY DEF IInv, ImportTypeOK, JobRecord, RunRecord, LeaseOfRun, LeaseOfJob, RunMatchesJob, RunMatches, JobMatchesRows, Off, Active, Holds, PendingMovements
  <1>6. JobMatchesRows'
    BY DEF IInv, ImportTypeOK, JobRecord, RunRecord, JobMatchesRows, RunMatchesJob, RunMatches, LeaseOfRun, Active, BroughtIn, PendingMovements
  <1>7. Linked' /\ RegisteredOnce' /\ CountMatches'
    BY MovementsKept DEF IInv, ImportTypeOK, JobRecord, RunRecord
  <1> QED BY <1>1, <1>2, <1>3, <1>4, <1>5, <1>6, <1>7 DEF IInv

\* An error of a run.
LEMMA RunFailsKeeps ==
    ASSUME IInv, NEW w \in ImportWorkers, RunFails(w)
    PROVE  IInv'
  <1> USE ImportAssumption DEF RunFails
  <1>1. ImportTypeOK'
    <2>1. importJob' \in [Jobs -> JobRecord]
      BY DEF IInv, ImportTypeOK, JobRecord, RunRecord
    <2>2. importWorker' \in [ImportWorkers -> RunRecord]
      <3>1. [importWorker[w] EXCEPT !.pc = "fail", !.new = {}] \in RunRecord
        BY DEF IInv, ImportTypeOK, RunRecord
      <3>2. importWorker' = [importWorker EXCEPT ![w] = [importWorker[w] EXCEPT !.pc = "fail", !.new = {}]]
        BY DEF IInv, ImportTypeOK
      <3> QED BY <3>1, <3>2 DEF IInv, ImportTypeOK
    <2> QED BY <2>1, <2>2 DEF IInv, ImportTypeOK, HistoryTypeOK
  <1>2. LeaseOfRun'
    BY DEF IInv, ImportTypeOK, JobRecord, RunRecord, LeaseOfRun, LeaseOfJob, LockedHolds, Off, Active
  <1>3. LeaseOfJob'
    BY DEF IInv, ImportTypeOK, JobRecord, RunRecord, LeaseOfRun, LeaseOfJob, Off, Active
  <1>4. LockedHolds'
    BY DEF IInv, ImportTypeOK, JobRecord, RunRecord, LeaseOfRun, LeaseOfJob, LockedHolds, Off, Active, Holds, JobLocked
  <1>5. RunMatchesJob'
    <2>1. \A u \in ImportWorkers \ {w} : importWorker'[u] = importWorker[u]
      BY DEF IInv, ImportTypeOK
    <2>2. importWorker'[w].pc = "fail"
      BY DEF IInv, ImportTypeOK, RunRecord
    <2>3. SUFFICES ASSUME NEW u \in ImportWorkers PROVE RunMatches(u, importWorker[u].job)'
      BY DEF RunMatchesJob
    <2>4. CASE u = w
      BY <2>2, <2>4 DEF IInv, RunMatches
    <2>5. CASE u # w
      BY <2>1, <2>5, OtherRunMatches
    <2> QED BY <2>4, <2>5
  <1>6. JobMatchesRows'
    BY DEF IInv, ImportTypeOK, JobRecord, RunRecord, JobMatchesRows, RunMatchesJob, RunMatches, LeaseOfRun, Active, BroughtIn, PendingMovements
  <1>7. Linked' /\ RegisteredOnce' /\ CountMatches'
    BY MovementsKept DEF IInv, ImportTypeOK, JobRecord, RunRecord
  <1> QED BY <1>1, <1>2, <1>3, <1>4, <1>5, <1>6, <1>7 DEF IInv

\* failAbandoned
LEMMA AbandonedKeeps ==
    ASSUME IInv, NEW w \in ImportWorkers, NEW j \in Jobs, FailAbandoned(w, j)
    PROVE  IInv'
  <1> USE ImportAssumption DEF FailAbandoned
  <1>1. ImportTypeOK'
    <2>1. importJob' \in [Jobs -> JobRecord]
      BY DEF IInv, ImportTypeOK, JobRecord, RunRecord
    <2>2. importWorker' \in [ImportWorkers -> RunRecord]
      <3>1. [pc |-> "fail", job |-> j, lease |-> importJob[j].lease, new |-> {}] \in RunRecord
        BY DEF IInv, ImportTypeOK, JobRecord, RunRecord
      <3> QED BY <3>1 DEF IInv, ImportTypeOK
    <2> QED BY <2>1, <2>2 DEF IInv, ImportTypeOK, HistoryTypeOK
  <1>2. LeaseOfRun'
    BY DEF IInv, ImportTypeOK, JobRecord, RunRecord, LeaseOfRun, LeaseOfJob, LockedHolds, Off, Active
  <1>3. LeaseOfJob'
    BY DEF IInv, ImportTypeOK, JobRecord, RunRecord, LeaseOfRun, LeaseOfJob, Off, Active
  <1>4. LockedHolds'
    BY DEF IInv, ImportTypeOK, JobRecord, RunRecord, LeaseOfRun, LeaseOfJob, LockedHolds, Off, Active, Holds, JobLocked
  <1>5. RunMatchesJob'
    BY DEF IInv, ImportTypeOK, JobRecord, RunRecord, LeaseOfRun, LeaseOfJob, RunMatchesJob, RunMatches, JobMatchesRows, Off, Active, Holds, PendingMovements
  <1>6. JobMatchesRows'
    BY DEF IInv, ImportTypeOK, JobRecord, RunRecord, JobMatchesRows, RunMatchesJob, RunMatches, LeaseOfRun, Active, BroughtIn, PendingMovements
  <1>7. Linked' /\ RegisteredOnce' /\ CountMatches'
    BY MovementsKept DEF IInv, ImportTypeOK, JobRecord, RunRecord
  <1> QED BY <1>1, <1>2, <1>3, <1>4, <1>5, <1>6, <1>7 DEF IInv

\* fail
LEMMA FailKeeps ==
    ASSUME IInv, NEW w \in ImportWorkers, FailJob(w)
    PROVE  IInv'
  <1> USE ImportAssumption DEF FailJob, FailsOwnLease, JobLocked
  <1>1. ImportTypeOK'
    <2>1. importJob' \in [Jobs -> JobRecord]
      <3>1. importJob[importWorker[w].job] \in JobRecord /\ 0 \in 0..MaxClaims
        BY DEF IInv, ImportTypeOK, LeaseOfRun, Active
      <3>2. [importJob[importWorker[w].job] EXCEPT !.status = "FAILED", !.lease = 0] \in JobRecord
        BY <3>1 DEF JobRecord
      <3> QED BY <3>2 DEF IInv, ImportTypeOK
    <2>2. importWorker' \in [ImportWorkers -> RunRecord]
      BY DEF IInv, ImportTypeOK, RunRecord, Off
    <2> QED BY <2>1, <2>2 DEF IInv, ImportTypeOK, HistoryTypeOK
  <1>2. LeaseOfRun'
    BY DEF IInv, ImportTypeOK, JobRecord, RunRecord, LeaseOfRun, LeaseOfJob, LockedHolds, Off, Active
  <1>3. LeaseOfJob'
    BY DEF IInv, ImportTypeOK, JobRecord, RunRecord, LeaseOfRun, LeaseOfJob, Off, Active
  <1>4. LockedHolds'
    BY DEF IInv, ImportTypeOK, JobRecord, RunRecord, LeaseOfRun, LeaseOfJob, LockedHolds, Off, Active, Holds, JobLocked
  <1>5. RunMatchesJob'
    BY DEF IInv, ImportTypeOK, JobRecord, RunRecord, LeaseOfRun, LeaseOfJob, RunMatchesJob, RunMatches, JobMatchesRows, Off, Active, Holds, PendingMovements
  <1>6. JobMatchesRows'
    BY DEF IInv, ImportTypeOK, JobRecord, RunRecord, JobMatchesRows, RunMatchesJob, RunMatches, LeaseOfRun, Active, BroughtIn, PendingMovements
  <1>7. Linked' /\ RegisteredOnce' /\ CountMatches'
    BY MovementsKept DEF IInv, ImportTypeOK, JobRecord, RunRecord
  <1> QED BY <1>1, <1>2, <1>3, <1>4, <1>5, <1>6, <1>7 DEF IInv

\* The death of a worker.
LEMMA DeathKeeps ==
    ASSUME IInv, NEW w \in ImportWorkers, WorkerDies(w)
    PROVE  IInv'
  <1> USE ImportAssumption DEF WorkerDies
  <1>1. ImportTypeOK'
    <2>1. importJob' \in [Jobs -> JobRecord]
      BY DEF IInv, ImportTypeOK, JobRecord, RunRecord
    <2>2. importWorker' \in [ImportWorkers -> RunRecord]
      BY DEF IInv, ImportTypeOK, RunRecord, Off
    <2> QED BY <2>1, <2>2 DEF IInv, ImportTypeOK, HistoryTypeOK
  <1>2. LeaseOfRun'
    BY DEF IInv, ImportTypeOK, JobRecord, RunRecord, LeaseOfRun, LeaseOfJob, LockedHolds, Off, Active
  <1>3. LeaseOfJob'
    BY DEF IInv, ImportTypeOK, JobRecord, RunRecord, LeaseOfRun, LeaseOfJob, Off, Active
  <1>4. LockedHolds'
    BY DEF IInv, ImportTypeOK, JobRecord, RunRecord, LeaseOfRun, LeaseOfJob, LockedHolds, Off, Active, Holds, JobLocked
  <1>5. RunMatchesJob'
    BY DEF IInv, ImportTypeOK, JobRecord, RunRecord, LeaseOfRun, LeaseOfJob, RunMatchesJob, RunMatches, JobMatchesRows, Off, Active, Holds, PendingMovements
  <1>6. JobMatchesRows'
    BY DEF IInv, ImportTypeOK, JobRecord, RunRecord, JobMatchesRows, RunMatchesJob, RunMatches, LeaseOfRun, Active, BroughtIn, PendingMovements
  <1>7. Linked' /\ RegisteredOnce' /\ CountMatches'
    BY MovementsKept DEF IInv, ImportTypeOK, JobRecord, RunRecord
  <1> QED BY <1>1, <1>2, <1>3, <1>4, <1>5, <1>6, <1>7 DEF IInv

-----------------------------------------------------------------------------
(* The steps that bring assets in and record movements.                    *)

\* The insertion of the rows.
LEMMA CommitKeeps ==
    ASSUME IInv, NEW w \in ImportWorkers, CommitRows(w)
    PROVE  IInv'
  <1> DEFINE j == importWorker[w].job
             new == {r \in importWorker[w].new : origin[r] = NoJob}
  <1>1. /\ j \in Jobs /\ j # NoJob /\ Holds(w) /\ ~importJob[j].written /\ BroughtIn(j) = {}
        /\ new \in SUBSET Rows /\ importWorker[w].pc = "rows"
        /\ \A r \in FileRows[j] \ new : origin[r] # NoJob
    BY ImportAssumption DEF CommitRows, IInv, LeaseOfRun, Active, LockedHolds, RunMatchesJob, RunMatches, JobMatchesRows
  <1>2. /\ importJob' = [importJob EXCEPT ![j].written = TRUE, ![j].inserted = new, ![j].fresh = TRUE]
        /\ importWorker' = [importWorker EXCEPT ![w].pc = "movements", ![w].new = {}]
        /\ origin' = [r \in Rows |-> IF r \in new THEN j ELSE origin[r]]
        /\ history' = history /\ deaths' = deaths
    BY DEF CommitRows
  <1> HIDE DEF j, new
  <1>3. ImportTypeOK'
    <2>1. [importJob[j] EXCEPT !.written = TRUE, !.inserted = new, !.fresh = TRUE] \in JobRecord
      BY <1>1 DEF IInv, ImportTypeOK, JobRecord
    <2>2. importJob' \in [Jobs -> JobRecord]
      BY <1>1, <1>2, <2>1 DEF IInv, ImportTypeOK
    <2>3. [importWorker[w] EXCEPT !.pc = "movements", !.new = {}] \in RunRecord
      BY DEF IInv, ImportTypeOK, RunRecord
    <2>4. importWorker' \in [ImportWorkers -> RunRecord]
      BY <1>2, <2>3 DEF IInv, ImportTypeOK
    <2>5. origin' \in [Rows -> Jobs \cup {NoJob}]
      BY <1>1, <1>2 DEF IInv, ImportTypeOK
    <2> QED BY <1>2, <2>2, <2>4, <2>5 DEF IInv, ImportTypeOK, HistoryTypeOK
  <1>4. /\ \A u \in ImportWorkers : importWorker'[u].job = importWorker[u].job /\ importWorker'[u].lease = importWorker[u].lease
        /\ \A u \in ImportWorkers \ {w} : importWorker'[u] = importWorker[u]
        /\ importWorker'[w].pc = "movements"
    BY <1>1, <1>2 DEF IInv, ImportTypeOK, RunRecord
  <1>5. /\ \A k \in Jobs : /\ importJob'[k].lease = importJob[k].lease /\ importJob'[k].status = importJob[k].status
                          /\ importJob'[k].attempts = importJob[k].attempts /\ importJob'[k].done = importJob[k].done
        /\ \A k \in Jobs \ {j} : importJob'[k] = importJob[k]
        /\ importJob'[j].written /\ importJob'[j].inserted = new /\ importJob'[j].fresh
    BY <1>1, <1>2 DEF IInv, ImportTypeOK, JobRecord
  <1>6. LeaseOfRun'
    BY <1>1, <1>4, <1>5 DEF IInv, LeaseOfRun, Active
  <1>7. LeaseOfJob'
    BY <1>1, <1>5 DEF IInv, LeaseOfJob
  <1>8. LockedHolds'
    BY <1>4, <1>5 DEF IInv, LockedHolds, Holds, LeaseOfRun, Active
  <1>9. \A k \in Jobs \ {j} : BroughtIn(k)' = BroughtIn(k) /\ PendingMovements(k)' = PendingMovements(k)
    BY <1>1, <1>2, ImportAssumption DEF IInv, ImportTypeOK, BroughtIn, PendingMovements, new
  <1>10. \A k \in Jobs : k = j => BroughtIn(k)' = new
    BY <1>1, <1>2 DEF BroughtIn
  <1>11. \A r \in Rows : origin[r] # NoJob => origin'[r] # NoJob
    BY <1>1, <1>2
  <1>12. RunMatchesJob'
    <2> SUFFICES ASSUME NEW u \in ImportWorkers PROVE RunMatches(u, importWorker[u].job)'
      BY DEF RunMatchesJob
    <2>1. CASE u = w
      BY <2>1, <1>4, <1>5 DEF RunMatches, j
    <2>2. CASE u # w /\ importWorker[u].job # j
      <3>1. importWorker[u].pc # "idle" => importWorker[u].job \in Jobs
        BY DEF IInv, LeaseOfRun, Active
      <3>2. RunMatches(u, importWorker[u].job)
        BY DEF IInv, RunMatchesJob
      <3>3. importWorker[u].pc = "idle" => RunMatches(u, importWorker[u].job)'
        BY <2>2, <1>4 DEF RunMatches
      <3>4. importWorker[u].pc # "idle" =>
              /\ Holds(u)' = Holds(u)
              /\ importJob'[importWorker[u].job] = importJob[importWorker[u].job]
              /\ PendingMovements(importWorker[u].job)' = PendingMovements(importWorker[u].job)
              /\ FileRows[importWorker[u].job] \subseteq Rows
        BY <3>1, <2>2, <1>4, <1>5, <1>9, ImportAssumption DEF Holds
      <3>5. \A r \in Rows : origin[r] = importWorker[u].job => origin'[r] = origin[r] \/ importWorker[u].pc = "idle"
        BY <3>1, <1>2, ImportAssumption DEF new
      <3> QED BY <3>2, <3>3, <3>4, <3>5, <2>2, <1>4, <1>11 DEF RunMatches
    <2>3. CASE u # w /\ importWorker[u].job = j
      <3>1. Holds(u) => importWorker[u].pc \in {"idle", "fail"}
        BY <2>3, <1>1 DEF IInv, LeaseOfRun, Active, Holds, j
      <3>2. importWorker[u].pc \notin {"rows", "movements", "chunk", "finalizing", "final"}
        BY <3>1, <2>3, <1>1 DEF IInv, LockedHolds, RunMatchesJob, RunMatches
      <3>3. Holds(u)' = Holds(u)
        BY <2>3, <1>1, <1>4, <1>5 DEF Holds
      <3> QED BY <3>1, <3>2, <3>3, <2>3, <1>4 DEF RunMatches
    <2> QED BY <2>1, <2>2, <2>3
  <1>13. JobMatchesRows'
    <2> SUFFICES ASSUME NEW k \in Jobs
                 PROVE  /\ ~importJob'[k].written => BroughtIn(k)' = {}
                        /\ importJob'[k].written => /\ importJob'[k].inserted = BroughtIn(k)'
                                                   /\ \A r \in FileRows[k] : origin'[r] # NoJob
                        /\ importJob'[k].status = "SUCCEEDED" => importJob'[k].written /\ PendingMovements(k)' = {}
      BY DEF JobMatchesRows
    <2>1. FileRows[k] \subseteq Rows
      BY ImportAssumption
    <2>2. CASE k = j
      <3>1. importJob'[k].status # "SUCCEEDED"
        BY <2>2, <1>1, <1>5 DEF Holds, j
      <3>2. ASSUME NEW r \in FileRows[k] PROVE origin'[r] # NoJob
        <4>1. CASE r \in new
          BY <4>1, <2>1, <1>1, <1>2
        <4>2. CASE r \notin new
          BY <4>2, <2>1, <2>2, <1>1, <1>11
        <4> QED BY <4>1, <4>2
      <3> QED BY <3>1, <3>2, <2>2, <1>5, <1>10
    <2>3. CASE k # j
      BY <2>1, <2>3, <1>5, <1>9, <1>11 DEF IInv, JobMatchesRows
    <2> QED BY <2>2, <2>3
  <1>14. Linked' /\ RegisteredOnce'
    BY <1>2, <1>11 DEF IInv, Linked, RegisteredOnce
  <1>15. \A k \in Jobs : RegisteredOf(k)' = RegisteredOf(k)
    <2>1. \A r \in new : ~IsRegistered(r)
      BY <1>1, <1>2 DEF IInv, RegisteredOnce, IsRegistered, new
    <2>2. \A r \in Rows : IsRegistered(r)' = IsRegistered(r)
      BY <1>2 DEF IsRegistered
    <2> QED BY <2>1, <2>2, <1>2 DEF RegisteredOf
  <1>16. CountMatches'
    BY <1>5, <1>15 DEF IInv, CountMatches
  <1> QED BY <1>3, <1>6, <1>7, <1>8, <1>12, <1>13, <1>14, <1>16 DEF IInv

\* What a step may do to the movements without disturbing a run: record one
\* for an asset that is there.
LEMMA RecordingKeeps ==
    ASSUME IInv, NEW S \in SUBSET Rows,
           \A r \in S : origin[r] # NoJob /\ Len(history'[r]) > 0,
           \A r \in Rows \ S : history'[r] = history[r]
    PROVE  \A j \in Jobs : PendingMovements(j) = {} => {r \in Rows : origin[r] = j /\ history'[r] = <<>>} = {}
  BY DEF PendingMovements

\* One movement more.
LEMMA Appended ==
    ASSUME NEW h \in Seq(Movement), NEW e \in Movement
    PROVE  /\ Append(h, e) \in Seq(Movement)
           /\ Len(Append(h, e)) = Len(h) + 1 /\ Len(h) \in Nat
           /\ \A i \in 1..Len(h) : Append(h, e)[i] = h[i]
           /\ Append(h, e)[Len(h) + 1] = e
  OBVIOUS

\* record: of a chain, it continues the last movement.
LEMMA LastOfChain ==
    ASSUME NEW h \in Seq(Movement), \A i \in 1..Len(h) : h[i].previous = i - 1
    PROVE  LastMovement(h) = Len(h)
  <1>1. Len(h) \in Nat
    OBVIOUS
  <1>2. CASE Len(h) = 0
    <2>1. Unfollowed(h) = {}
      BY <1>2 DEF Unfollowed
    <2> QED BY <2>1, <1>2 DEF LastMovement
  <1>3. CASE Len(h) # 0
    <2>1. Unfollowed(h) = {Len(h)}
      <3>1. \A i \in 1..Len(h) : i # Len(h) => i + 1 \in 1..Len(h) /\ h[i + 1].previous = i
        BY <1>1
      <3>2. Len(h) \in 1..Len(h) /\ \A k \in 1..Len(h) : h[k].previous # Len(h)
        BY <1>1, <1>3
      <3> QED BY <3>1, <3>2 DEF Unfollowed
    <2> QED BY <2>1, <1>1 DEF LastMovement
  <1> QED BY <1>2, <1>3

\* A change of an asset, which records a movement.
LEMMA MoveKeeps ==
    ASSUME IInv, NEW q \in Rows, AssetMoves(q)
    PROVE  IInv'
  <1> DEFINE e == [type |-> "CHANGE", previous |-> LastMovement(history[q])]
  <1>1. /\ origin[q] # NoJob
        /\ history' = [history EXCEPT ![q] = Append(history[q], e)]
        /\ UNCHANGED <<importJob, origin, importWorker, deaths>>
    BY DEF AssetMoves, RecordMovement
  <1>2. history \in [Rows -> Seq(Movement)] /\ history[q] \in Seq(Movement)
    BY DEF IInv, ImportTypeOK, HistoryTypeOK
  <1>3. e \in Movement /\ e.type = "CHANGE" /\ e.previous = Len(history[q])
    BY <1>2, LastOfChain DEF IInv, Linked, Movement
  <1> HIDE DEF e
  <1>4. /\ history'[q] \in Seq(Movement) /\ Len(history'[q]) = Len(history[q]) + 1 /\ Len(history[q]) \in Nat
        /\ \A i \in 1..Len(history[q]) : history'[q][i] = history[q][i]
        /\ history'[q][Len(history[q]) + 1] = e
        /\ \A r \in Rows \ {q} : history'[r] = history[r]
    BY <1>1, <1>2, <1>3, Appended
  <1>5. ImportTypeOK'
    BY <1>1, <1>2, <1>4 DEF IInv, ImportTypeOK, HistoryTypeOK
  <1>6. LeaseOfRun' /\ LeaseOfJob' /\ LockedHolds'
    BY <1>1 DEF IInv, LeaseOfRun, LeaseOfJob, LockedHolds, Holds, Active
  <1>7. \A j \in Jobs : PendingMovements(j) = {} => PendingMovements(j)' = {}
    BY <1>1, <1>4, RecordingKeeps DEF PendingMovements
  <1>8. RunMatchesJob'
    BY <1>1, <1>7 DEF IInv, RunMatchesJob, RunMatches, LeaseOfRun, Active, Holds
  <1>9. JobMatchesRows'
    BY <1>1, <1>7 DEF IInv, JobMatchesRows, BroughtIn
  <1>10. \A i \in 1..Len(history'[q]) : i \in 1..Len(history[q]) \/ i = Len(history[q]) + 1
    BY <1>4
  <1>11. Linked'
    <2>1. ASSUME NEW i \in 1..Len(history'[q]) PROVE history'[q][i].previous = i - 1
      <3>1. CASE i \in 1..Len(history[q])
        BY <3>1, <1>4 DEF IInv, Linked
      <3>2. CASE i = Len(history[q]) + 1
        BY <3>2, <1>3, <1>4
      <3> QED BY <3>1, <3>2, <1>10
    <2> QED BY <2>1, <1>4 DEF IInv, Linked
  <1>12. RegisteredOnce'
    <2>1. \A i \in 1..Len(history'[q]) : history'[q][i].type = "REGISTRATION" => i = 1
      BY <1>3, <1>4, <1>10 DEF IInv, RegisteredOnce
    <2> QED BY <2>1, <1>1, <1>4 DEF IInv, RegisteredOnce
  <1>13. CountMatches'
    <2>1. IsRegistered(q)' <=> IsRegistered(q)
      BY <1>3, <1>4, <1>10 DEF IsRegistered
    <2>2. \A r \in Rows \ {q} : IsRegistered(r)' <=> IsRegistered(r)
      BY <1>4 DEF IsRegistered
    <2>3. \A j \in Jobs : RegisteredOf(j)' = RegisteredOf(j)
      BY <2>1, <2>2, <1>1 DEF RegisteredOf
    <2> QED BY <2>3, <1>1 DEF IInv, CountMatches
  <1> QED BY <1>5, <1>6, <1>8, <1>9, <1>11, <1>12, <1>13 DEF IInv

\* The registration of a chunk.
LEMMA RegisterKeeps ==
    ASSUME IInv, NEW w \in ImportWorkers, RegisterChunk(w)
    PROVE  IInv'
  <1> DEFINE j == importWorker[w].job
             pending == StillUnmoved(importWorker[w].new)
             e == [type |-> "REGISTRATION", previous |-> 0]
  <1>1. /\ j \in Jobs /\ j # NoJob /\ Holds(w) /\ importJob[j].written /\ importWorker[w].pc = "chunk"
    BY ImportAssumption DEF RegisterChunk, IInv, LeaseOfRun, Active, LockedHolds, RunMatchesJob, RunMatches
  <1>2. PICK q \in Rows : importWorker[w].new = {q} /\ origin[q] = j
    BY <1>1 DEF IInv, RunMatchesJob, RunMatches
  <1>3. pending \in SUBSET {q} /\ \A r \in pending : history[r] = <<>>
    BY <1>2 DEF StillUnmoved
  <1>4. IsFiniteSet(pending) /\ Cardinality(pending) = IF pending = {} THEN 0 ELSE 1
    <2>1. pending = {} \/ pending = {q}
      BY <1>3
    <2> QED BY <2>1, FS_EmptySet, FS_Singleton
  <1>5. /\ importJob' = [importJob EXCEPT ![j].done = @ + Cardinality(pending), ![j].fresh = TRUE]
        /\ importWorker' = [importWorker EXCEPT ![w].pc = "movements", ![w].new = {}]
        /\ history' = [r \in Rows |-> IF r \in pending THEN Append(history[r], e) ELSE history[r]]
        /\ UNCHANGED <<origin, deaths>>
    BY DEF RegisterChunk, RecordInitial
  <1>6. e \in Movement /\ e.type = "REGISTRATION" /\ e.previous = 0
    BY DEF Movement
  <1> HIDE DEF j, pending, e
  <1>7. /\ \A r \in pending : history'[r] \in Seq(Movement) /\ Len(history'[r]) = 1 /\ history'[r][1] = e
        /\ \A r \in Rows \ pending : history'[r] = history[r]
    <2>1. <<>> \in Seq(Movement) /\ Len(<<>>) = 0
      OBVIOUS
    <2>2. Append(<<>>, e) \in Seq(Movement) /\ Len(Append(<<>>, e)) = 1 /\ Append(<<>>, e)[1] = e
      BY <1>6
    <2> QED BY <2>2, <1>3, <1>5
  <1>8. ImportTypeOK'
    <2>1. importJob[j].done + Cardinality(pending) \in Nat /\ importJob[j] \in JobRecord
      BY <1>1, <1>4 DEF IInv, ImportTypeOK, JobRecord
    <2>2. [importJob[j] EXCEPT !.done = @ + Cardinality(pending), !.fresh = TRUE] \in JobRecord
      BY <2>1 DEF JobRecord
    <2>3. importJob' \in [Jobs -> JobRecord]
      BY <1>1, <1>5, <2>2 DEF IInv, ImportTypeOK
    <2>4. [importWorker[w] EXCEPT !.pc = "movements", !.new = {}] \in RunRecord
      BY DEF IInv, ImportTypeOK, RunRecord
    <2>5. importWorker' \in [ImportWorkers -> RunRecord]
      BY <1>5, <2>4 DEF IInv, ImportTypeOK
    <2>6. history' \in [Rows -> Seq(Movement)]
      BY <1>3, <1>5, <1>7 DEF IInv, ImportTypeOK, HistoryTypeOK
    <2> QED BY <1>5, <2>3, <2>5, <2>6 DEF IInv, ImportTypeOK, HistoryTypeOK
  <1>9. /\ \A u \in ImportWorkers : importWorker'[u].job = importWorker[u].job /\ importWorker'[u].lease = importWorker[u].lease
        /\ \A u \in ImportWorkers \ {w} : importWorker'[u] = importWorker[u]
        /\ importWorker'[w].pc = "movements"
    BY <1>1, <1>5 DEF IInv, ImportTypeOK, RunRecord
  <1>10. /\ \A k \in Jobs : /\ importJob'[k].lease = importJob[k].lease /\ importJob'[k].status = importJob[k].status
                           /\ importJob'[k].attempts = importJob[k].attempts
                           /\ importJob'[k].written = importJob[k].written
                           /\ importJob'[k].inserted = importJob[k].inserted
         /\ \A k \in Jobs \ {j} : importJob'[k] = importJob[k]
         /\ importJob'[j].fresh /\ importJob'[j].done = importJob[j].done + Cardinality(pending)
    BY <1>1, <1>5 DEF IInv, ImportTypeOK, JobRecord
  <1>11. LeaseOfRun'
    BY <1>1, <1>9, <1>10 DEF IInv, LeaseOfRun, Active
  <1>12. LeaseOfJob'
    BY <1>1, <1>10 DEF IInv, LeaseOfJob
  <1>13. LockedHolds'
    BY <1>9, <1>10 DEF IInv, LockedHolds, Holds, LeaseOfRun, Active
  <1>14. \A k \in Jobs : PendingMovements(k) = {} => PendingMovements(k)' = {}
    <2>1. pending \in SUBSET Rows /\ \A r \in pending : origin[r] # NoJob /\ Len(history'[r]) > 0
      BY <1>1, <1>2, <1>3, <1>7
    <2> QED BY <2>1, <1>5, <1>7, RecordingKeeps DEF PendingMovements
  <1>15. RunMatchesJob'
    <2> SUFFICES ASSUME NEW u \in ImportWorkers PROVE RunMatches(u, importWorker[u].job)'
      BY DEF RunMatchesJob
    <2>1. CASE u = w
      BY <2>1, <1>1, <1>9, <1>10 DEF RunMatches, j
    <2>2. CASE u # w
      <3>1. RunMatches(u, importWorker[u].job) /\ (importWorker[u].pc # "idle" => importWorker[u].job \in Jobs)
        BY DEF IInv, RunMatchesJob, LeaseOfRun, Active
      <3>2. importWorker[u].pc # "idle" => Holds(u)' = Holds(u)
        BY <3>1, <2>2, <1>9, <1>10 DEF Holds
      <3>3. /\ importWorker'[u] = importWorker[u] /\ origin' = origin
            /\ importWorker[u].pc # "idle" => importJob'[importWorker[u].job].written = importJob[importWorker[u].job].written
            /\ importWorker[u].pc # "idle" /\ PendingMovements(importWorker[u].job) = {} => PendingMovements(importWorker[u].job)' = {}
        BY <3>1, <2>2, <1>5, <1>9, <1>10, <1>14
      <3> QED BY <3>1, <3>2, <3>3 DEF RunMatches
    <2> QED BY <2>1, <2>2
  <1>16. JobMatchesRows'
    <2>1. \A k \in Jobs : BroughtIn(k)' = BroughtIn(k)
      BY <1>5 DEF BroughtIn
    <2> QED BY <2>1, <1>5, <1>10, <1>14 DEF IInv, JobMatchesRows
  <1>17. Linked' /\ RegisteredOnce'
    <2>1. \A r \in pending : \A i \in 1..Len(history'[r]) : i = 1 /\ history'[r][i].previous = i - 1
      <3> SUFFICES ASSUME NEW r \in pending, NEW i \in 1..Len(history'[r])
                   PROVE  i = 1 /\ history'[r][i].previous = i - 1
        OBVIOUS
      <3>0. Len(history'[r]) = 1
        BY <1>7
      <3>1. i = 1
        BY <3>0
      <3> QED BY <3>1, <1>6, <1>7
    <2>2. \A r \in pending : origin[r] # NoJob
      BY <1>1, <1>2, <1>3
    <2> QED BY <2>1, <2>2, <1>5, <1>7 DEF IInv, Linked, RegisteredOnce
  <1>18. CountMatches'
    <2>1. /\ \A r \in pending : ~IsRegistered(r) /\ IsRegistered(r)'
          /\ \A r \in Rows \ pending : IsRegistered(r)' <=> IsRegistered(r)
      BY <1>3, <1>6, <1>7 DEF IsRegistered
    <2>2. \A k \in Jobs \ {j} : RegisteredOf(k)' = RegisteredOf(k)
      BY <2>1, <1>2, <1>3, <1>5 DEF RegisteredOf
    <2>3. \A k \in Jobs : k = j => RegisteredOf(k)' = RegisteredOf(k) \cup pending /\ RegisteredOf(k) \cap pending = {}
      BY <2>1, <1>2, <1>3, <1>5 DEF RegisteredOf
    <2>4. ASSUME NEW k \in Jobs PROVE IsFiniteSet(RegisteredOf(k)') /\ importJob'[k].done = Cardinality(RegisteredOf(k)')
      <3>1. IsFiniteSet(RegisteredOf(k)) /\ importJob[k].done = Cardinality(RegisteredOf(k))
        BY DEF IInv, CountMatches
      <3>2. CASE k # j
        BY <3>1, <3>2, <2>2, <1>10
      <3>3. CASE k = j /\ pending = {}
        <4>1. RegisteredOf(k)' = RegisteredOf(k)
          BY <3>3, <2>3
        <4>2. importJob'[k].done = importJob[k].done
          BY <3>3, <1>4, <1>10 DEF IInv, ImportTypeOK, JobRecord
        <4> QED BY <3>1, <4>1, <4>2
      <3>4. CASE k = j /\ pending # {}
        <4>1. pending = {q} /\ q \notin RegisteredOf(k) /\ RegisteredOf(k)' = RegisteredOf(k) \cup {q}
          BY <3>4, <2>3, <1>3
        <4>2. importJob'[k].done = importJob[k].done + 1
          BY <3>4, <1>4, <1>10
        <4> QED BY <3>1, <4>1, <4>2, FS_AddElement
      <3> QED BY <3>2, <3>3, <3>4
    <2> QED BY <2>4 DEF CountMatches
  <1> QED BY <1>8, <1>11, <1>12, <1>13, <1>15, <1>16, <1>17, <1>18 DEF IInv

-----------------------------------------------------------------------------
(* The theorems.                                                           *)

LEMMA InitIInv == ImportInit => IInv
  <1> SUFFICES ASSUME ImportInit PROVE IInv
    OBVIOUS
  <1> USE ImportAssumption DEF ImportInit, HistoryInit
  <1>1. ImportTypeOK
    BY DEF ImportTypeOK, HistoryTypeOK, JobRecord, RunRecord, Off
  <1>2. LeaseOfRun /\ LeaseOfJob /\ LockedHolds /\ RunMatchesJob
    BY DEF LeaseOfRun, LeaseOfJob, LockedHolds, RunMatchesJob, RunMatches, Active, Off
  <1>3. JobMatchesRows
    BY DEF JobMatchesRows, BroughtIn
  <1>4. Linked /\ RegisteredOnce
    BY DEF Linked, RegisteredOnce
  <1>5. \A j \in Jobs : RegisteredOf(j) = {}
    BY DEF RegisteredOf
  <1>6. CountMatches
    BY <1>5, FS_EmptySet DEF CountMatches
  <1> QED BY <1>1, <1>2, <1>3, <1>4, <1>6 DEF IInv

LEMMA NextKeepsIInv == IInv /\ [ImportNext]_importVars => IInv'
  <1> SUFFICES ASSUME IInv, [ImportNext]_importVars PROVE IInv'
    OBVIOUS
  <1>1. CASE UNCHANGED importVars
    <2>1. UNCHANGED <<importJob, origin, history, importWorker, deaths>>
      BY <1>1 DEF importVars
    <2>2. Linked' /\ RegisteredOnce' /\ CountMatches'
      BY <2>1, MovementsKept
    <2>3. ImportTypeOK' /\ LeaseOfRun' /\ LeaseOfJob' /\ LockedHolds'
      BY <2>1 DEF IInv, ImportTypeOK, HistoryTypeOK, LeaseOfRun, LeaseOfJob, LockedHolds, Holds, Active
    <2>4. RunMatchesJob'
      BY <2>1, OtherRunMatches DEF RunMatchesJob
    <2>5. JobMatchesRows'
      BY <2>1 DEF IInv, JobMatchesRows, BroughtIn, PendingMovements
    <2> QED BY <2>2, <2>3, <2>4, <2>5 DEF IInv
  <1>2. ASSUME NEW j \in Jobs, EnqueueImport(j) \/ RetryImport(j) \/ HeartbeatLapses(j) PROVE IInv'
    BY <1>2, EnqueueKeeps, RetryKeeps, LapseKeeps
  <1>3. ASSUME NEW w \in ImportWorkers,
               \/ LeaseLost(w) \/ BeginRows(w) \/ CommitRows(w) \/ RegisterChunk(w) \/ MovementsEnd(w)
               \/ Finalizing(w) \/ FinishImport(w) \/ RunFails(w) \/ FailJob(w) \/ WorkerDies(w)
        PROVE  IInv'
    BY <1>3, LeaseLostKeeps, BeginRowsKeeps, CommitKeeps, RegisterKeeps, MovementsEndKeeps, FinalizingKeeps,
       FinishKeeps, RunFailsKeeps, FailKeeps, DeathKeeps
  <1>4. ASSUME NEW w \in ImportWorkers, NEW j \in Jobs, ClaimJob(w, j) \/ FailAbandoned(w, j) PROVE IInv'
    BY <1>4, ClaimKeeps, AbandonedKeeps
  <1>5. ASSUME NEW w \in ImportWorkers, NEW r \in Rows, SelectChunk(w, r) PROVE IInv'
    BY <1>5, SelectKeeps
  <1>6. ASSUME NEW r \in Rows, AssetMoves(r) PROVE IInv'
    BY <1>6, MoveKeeps
  <1> QED BY <1>1, <1>2, <1>3, <1>4, <1>5, <1>6 DEF ImportNext

LEMMA InductiveInv == ImportSpec => []IInv
  BY InitIInv, NextKeepsIInv, PTL DEF ImportSpec

\* ImportInv: no run, whichever of them dies, is overtaken or resumed, repeats
\* a registration; the result of a finished import is complete and counts what
\* is there.
THEOREM ImportIsSound == ImportSpec => []ImportInv
  <1>1. IInv => ImportInv
    BY DEF IInv, ImportInv, ResultCounts, FinishedIsComplete, JobMatchesRows, BroughtIn, CountMatches, RegisteredOf,
       IsRegistered
  <1> QED BY <1>1, InductiveInv, PTL

\* HistoryIsOneChain: verifyAssetChain never finds a fork or a second head.
THEOREM OneChain == ImportSpec => []HistoryIsOneChain
  <1>1. IInv => HistoryIsOneChain
    <2> SUFFICES ASSUME IInv, NEW r \in Rows
                 PROVE  /\ \A i \in 1..Len(history[r]) : history[r][i].previous < i
                        /\ \A i, k \in 1..Len(history[r]) : history[r][i].previous = history[r][k].previous => i = k
      BY DEF HistoryIsOneChain
    <2>1. \A i \in 1..Len(history[r]) : i \in Nat \ {0} /\ history[r][i].previous = i - 1
      BY DEF IInv, Linked, ImportTypeOK, HistoryTypeOK
    <2> QED BY <2>1
  <1> QED BY <1>1, InductiveInv, PTL

\* FinishedIsFinal: a run that lost its lease changes nothing of an import that
\* another one has finished.
THEOREM FinishedStays == ImportSpec => FinishedIsFinal
  <1>1. IInv /\ [ImportNext]_importVars =>
          [\A j \in Jobs : importJob[j].status = "SUCCEEDED" => importJob'[j] = importJob[j]]_importVars
    <2> SUFFICES ASSUME IInv, ImportNext, NEW k \in Jobs, importJob[k].status = "SUCCEEDED"
                 PROVE  importJob'[k] = importJob[k]
      BY DEF importVars
    <2>1. importJob[k] \in JobRecord /\ importJob[k].lease = 0 /\ importJob[k].fresh = TRUE
      BY DEF IInv, ImportTypeOK, LeaseOfJob, JobRecord
    <2>2. importJob \in [Jobs -> JobRecord]
      BY DEF IInv, ImportTypeOK
    <2>3. ASSUME NEW j \in Jobs, EnqueueImport(j) \/ RetryImport(j) \/ HeartbeatLapses(j) PROVE importJob'[k] = importJob[k]
      BY <2>2, <2>3 DEF EnqueueImport, RetryImport, HeartbeatLapses
    <2>4. ASSUME NEW w \in ImportWorkers, NEW j \in Jobs, ClaimJob(w, j) PROVE importJob'[k] = importJob[k]
      BY <2>2, <2>4 DEF ClaimJob, Claimable
    <2>5. ASSUME NEW w \in ImportWorkers, CommitRows(w) \/ RegisterChunk(w) \/ FinishImport(w) PROVE importJob'[k] = importJob[k]
      <3>1. Holds(w)
        BY <2>5 DEF IInv, LockedHolds, CommitRows, RegisterChunk, FinishImport
      <3> QED BY <3>1, <2>2, <2>5 DEF Holds, CommitRows, RegisterChunk, FinishImport
    <2>6. ASSUME NEW w \in ImportWorkers, Finalizing(w) \/ FailJob(w) PROVE importJob'[k] = importJob[k]
      <3>1. importWorker[w].lease # 0 /\ importWorker[w].job \in Jobs
        BY <2>6 DEF IInv, LeaseOfRun, Active, Finalizing, FailJob
      <3>2. CASE FailJob(w)
        BY <3>1, <3>2, <2>1, <2>2 DEF FailJob, FailsOwnLease
      <3>3. CASE Finalizing(w)
        <4>1. importWorker[w].job = k => importJob'[k] = [importJob[k] EXCEPT !.fresh = TRUE]
          BY <3>1, <3>3, <2>1, <2>2 DEF Finalizing
        <4>2. [importJob[k] EXCEPT !.fresh = TRUE] = importJob[k]
          BY <2>1 DEF JobRecord
        <4>3. importWorker[w].job # k => importJob'[k] = importJob[k]
          BY <3>1, <3>3, <2>2 DEF Finalizing
        <4> QED BY <4>1, <4>2, <4>3
      <3> QED BY <2>6, <3>2, <3>3
    <2> QED BY <2>3, <2>4, <2>5, <2>6 DEF ImportNext, LeaseLost, BeginRows, MovementsEnd, RunFails, WorkerDies,
               FailAbandoned, SelectChunk, AssetMoves
  <1> QED BY <1>1, InductiveInv, PTL DEF ImportSpec, FinishedIsFinal

\* ImportJobsJob: the worker that also sends mails, and the notices that go with
\* the end of a run, leave what the imports promise as it is.
THEOREM WorkerImplementsImports == BackgroundSpec => ImportSpec
  <1>1. BackgroundInit => ImportInit
    BY DEF BackgroundInit
  <1>2. [BackgroundNext]_jobVars => [ImportNext]_importVars
    BY DEF BackgroundNext, jobVars, importVars, WorkerStep, TimePasses, Disturbance, Imports, FinishAndNotify, FailAndNotify,
       ImportNext
  <1> QED BY <1>1, <1>2, PTL DEF BackgroundSpec, ImportSpec

-----------------------------------------------------------------------------
(* The outbox that the worker dispatches.                                  *)

\* A dispatch has a mail; what it says it sent was delivered.
DispatchesOneMail ==
    \A d \in Dispatchers :
        /\ dispatcher[d].pc \in {"idle", "hung"} <=> dispatcher[d].mail = NoMail
        /\ dispatcher[d].pc = "sent" => delivered[dispatcher[d].mail] > 0

\* A mail that was never recorded was claimed once for each fault, and once
\* more while its claim lasts and somebody has it.
ClaimsAreCounted ==
    \A m \in Mails :
        /\ mail[m].status = "NONE" => mail[m].attempts = 0 /\ ~mail[m].claimed /\ Sending(m) = {}
        /\ mail[m].status = "PENDING_SEND" =>
              /\ mail[m].attempts <= mailFaults + 1
              /\ ~mail[m].claimed \/ Sending(m) = {} => mail[m].attempts <= mailFaults

\* Where no attempt went otherwise than the outbox took it to go, one dispatcher
\* has the mail, and what was delivered is what was recorded or is about to be.
ClaimedOnce ==
    \A m \in Mails \ doubtful :
        /\ \A d, e \in Sending(m) : d = e
        /\ \A d \in Sending(m) :
              /\ mail[m].claimed /\ mail[m].status # "SENT"
              /\ delivered[m] = IF dispatcher[d].pc = "sent" THEN 1 ELSE 0
        /\ Sending(m) = {} => delivered[m] = IF mail[m].status = "SENT" THEN 1 ELSE 0

MailIInv == MailTypeOK /\ SentIsDelivered /\ DispatchesOneMail /\ ClaimsAreCounted /\ ClaimedOnce

LEMMA MailStarts == MailInit => MailIInv
  <1> SUFFICES ASSUME MailInit PROVE MailIInv
    OBVIOUS
  <1> USE MailAssumption DEF MailInit, Resting
  <1>1. MailTypeOK
    <2>1. mail \in [Mails -> MailRecord]
      BY DEF MailRecord
    <2> QED BY <2>1 DEF MailTypeOK
  <1>2. SentIsDelivered /\ DispatchesOneMail /\ ClaimsAreCounted /\ ClaimedOnce
    BY DEF SentIsDelivered, DispatchesOneMail, ClaimsAreCounted, ClaimedOnce, Sending
  <1> QED BY <1>1, <1>2 DEF MailIInv

\* enqueue, for a mail that is not there yet.
LEMMA EnqueueMailKeeps ==
    ASSUME MailIInv, NEW m \in Mails, EnqueueMail(m)
    PROVE  MailIInv'
  <1> DEFINE x == [mail[m] EXCEPT !.status = "PENDING_SEND"]
  <1>1. mail[m] \in MailRecord /\ mail[m].status = "NONE" /\ mail' = [mail EXCEPT ![m] = x]
    BY DEF MailIInv, MailTypeOK, EnqueueMail
  <1>2. x \in MailRecord /\ x.status = "PENDING_SEND" /\ x.attempts = mail[m].attempts /\ x.claimed = mail[m].claimed
    BY <1>1 DEF MailRecord
  <1>3. UNCHANGED <<delivered, doubtful, dispatcher, mailFaults>> /\ \A p \in Mails : Sending(p)' = Sending(p)
    BY DEF EnqueueMail, Sending
  <1>4. MailTypeOK'
    BY <1>1, <1>2, <1>3 DEF MailIInv, MailTypeOK
  <1>5. SentIsDelivered' /\ DispatchesOneMail'
    BY <1>1, <1>2, <1>3 DEF MailIInv, MailTypeOK, SentIsDelivered, DispatchesOneMail
  <1>6. ClaimsAreCounted'
    BY <1>1, <1>2, <1>3 DEF MailIInv, MailTypeOK, ClaimsAreCounted
  <1>7. ClaimedOnce'
    BY <1>1, <1>2, <1>3 DEF MailIInv, MailTypeOK, ClaimedOnce, ClaimsAreCounted
  <1> QED BY <1>4, <1>5, <1>6, <1>7 DEF MailIInv

\* The claim lapses: nobody has the mail, or it counts as a fault.
LEMMA MailLapseKeeps ==
    ASSUME MailIInv, NEW m \in Mails, MailClaimLapses(m) \/ MailClaimOutlived(m)
    PROVE  MailIInv'
  <1> USE MailAssumption
  <1> DEFINE x == [mail[m] EXCEPT !.claimed = FALSE]
  <1>1. mail[m] \in MailRecord /\ mail[m].claimed /\ mail' = [mail EXCEPT ![m] = x]
    BY DEF MailIInv, MailTypeOK, MailClaimLapses, MailClaimOutlived
  <1>2. x \in MailRecord /\ x.status = mail[m].status /\ x.attempts = mail[m].attempts /\ x.claimed = FALSE
    BY <1>1 DEF MailRecord
  <1>3. /\ UNCHANGED <<delivered, dispatcher>> /\ \A p \in Mails : Sending(p)' = Sending(p)
        /\ \/ Sending(m) = {} /\ UNCHANGED <<doubtful, mailFaults>>
           \/ Sending(m) # {} /\ doubtful' = doubtful \cup {m} /\ mailFaults' = mailFaults + 1 /\ mailFaults < MaxMailFaults
    BY DEF MailClaimLapses, MailClaimOutlived, Sending
  <1>4. MailTypeOK'
    BY <1>1, <1>2, <1>3 DEF MailIInv, MailTypeOK
  <1>5. SentIsDelivered' /\ DispatchesOneMail'
    BY <1>1, <1>2, <1>3 DEF MailIInv, MailTypeOK, SentIsDelivered, DispatchesOneMail
  <1>6. ClaimsAreCounted'
    BY <1>1, <1>2, <1>3 DEF MailIInv, MailTypeOK, MailRecord, ClaimsAreCounted
  <1>7. ClaimedOnce'
    BY <1>1, <1>2, <1>3 DEF MailIInv, MailTypeOK, ClaimedOnce
  <1> QED BY <1>4, <1>5, <1>6, <1>7 DEF MailIInv

\* dispatchOne claims: a mail that is due and unclaimed has no dispatcher, if
\* no claim on it was outlived.
LEMMA ClaimMailKeeps ==
    ASSUME MailIInv, NEW d \in Dispatchers, NEW m \in Mails, ClaimMail(d, m)
    PROVE  MailIInv'
  <1> USE MailAssumption
  <1> DEFINE x == [mail[m] EXCEPT !.claimed = TRUE, !.attempts = @ + 1]
             y == [pc |-> "send", mail |-> m]
  <1>1. /\ mail[m] \in MailRecord /\ mail[m].claimed = FALSE /\ mail[m].status \in {"PENDING_SEND", "FAILED"}
        /\ mail[m].status = "FAILED" => mail[m].attempts < MaxMailAttempts
        /\ mail' = [mail EXCEPT ![m] = x] /\ dispatcher' = [dispatcher EXCEPT ![d] = y]
        /\ UNCHANGED <<delivered, doubtful, mailFaults>>
    BY DEF MailIInv, MailTypeOK, MailRecord, ClaimMail, MailDue, Unsent
  <1>2. mail[m].attempts + 1 \in 0..(MaxMailAttempts + MaxMailFaults) /\ mailFaults \in 0..MaxMailFaults
    <2>1. mailFaults \in 0..MaxMailFaults /\ mail[m].attempts \in Nat
      BY <1>1 DEF MailIInv, MailTypeOK, MailRecord
    <2>2. CASE mail[m].status = "PENDING_SEND"
      <3>1. mail[m].attempts <= mailFaults
        BY <1>1, <2>2 DEF MailIInv, ClaimsAreCounted
      <3> QED BY <2>1, <3>1
    <2>3. CASE mail[m].status = "FAILED"
      BY <1>1, <2>1, <2>3
    <2> QED BY <1>1, <2>1, <2>2, <2>3
  <1>3. /\ x \in MailRecord /\ x.status = mail[m].status /\ x.claimed = TRUE /\ x.attempts = mail[m].attempts + 1
        /\ y.pc = "send" /\ y.mail = m
    BY <1>1, <1>2 DEF MailRecord
  <1>4. dispatcher[d].mail = NoMail
    BY DEF MailIInv, DispatchesOneMail, ClaimMail
  <1>5. Sending(m)' = Sending(m) \cup {d} /\ \A p \in Mails : p # m => Sending(p)' = Sending(p)
    BY <1>1, <1>3, <1>4 DEF Sending, MailIInv, MailTypeOK
  <1>6. MailTypeOK'
    BY <1>1, <1>3 DEF MailIInv, MailTypeOK
  <1>7. SentIsDelivered' /\ DispatchesOneMail'
    BY <1>1, <1>3 DEF MailIInv, MailTypeOK, SentIsDelivered, DispatchesOneMail
  <1>8. ClaimsAreCounted'
    <2>1. /\ mail'[m] = x /\ Sending(m)' # {}
          /\ mail[m].status = "PENDING_SEND" => mail[m].attempts <= mailFaults
      BY <1>1, <1>5 DEF MailIInv, MailTypeOK, ClaimsAreCounted
    <2>2. mail[m].status = "PENDING_SEND" => x.attempts <= mailFaults + 1
      <3>1. mail[m].attempts \in Nat /\ mailFaults \in Nat
        BY <1>1, <1>2 DEF MailRecord
      <3> QED BY <1>3, <2>1, <3>1
    <2>3. \A p \in Mails : p # m => mail'[p] = mail[p] /\ Sending(p)' = Sending(p)
      BY <1>1, <1>5 DEF MailIInv, MailTypeOK
    <2> QED BY <1>1, <1>3, <2>1, <2>2, <2>3 DEF MailIInv, ClaimsAreCounted
  <1>9. ClaimedOnce'
    <2> SUFFICES ASSUME NEW p \in Mails \ doubtful
                 PROVE  /\ \A a, b \in Sending(p)' : a = b
                        /\ \A a \in Sending(p)' :
                              /\ mail'[p].claimed /\ mail'[p].status # "SENT"
                              /\ delivered[p] = IF dispatcher'[a].pc = "sent" THEN 1 ELSE 0
                        /\ Sending(p)' = {} => delivered[p] = IF mail'[p].status = "SENT" THEN 1 ELSE 0
      BY <1>1 DEF ClaimedOnce
    <2>1. CASE p = m
      <3>1. Sending(m) = {} /\ delivered[m] = 0
        BY <1>1, <2>1 DEF MailIInv, ClaimedOnce
      <3>2. mail'[m] = x /\ dispatcher'[d] = y /\ Sending(m)' = {d}
        BY <1>1, <1>5, <3>1 DEF MailIInv, MailTypeOK
      <3> QED BY <1>1, <1>3, <2>1, <3>1, <3>2
    <2>2. CASE p # m
      <3>1. mail'[p] = mail[p] /\ Sending(p)' = Sending(p) /\ \A a \in Sending(p) : dispatcher'[a] = dispatcher[a]
        BY <1>1, <1>4, <1>5, <2>2 DEF MailIInv, MailTypeOK, Sending
      <3> QED BY <3>1 DEF MailIInv, ClaimedOnce
    <2> QED BY <2>1, <2>2
  <1> QED BY <1>6, <1>7, <1>8, <1>9 DEF MailIInv

\* The mail server takes the mail, or does not, and the dispatcher knows which or
\* the mail is in doubt.
LEMMA MailSendKeeps ==
    ASSUME MailIInv, NEW d \in Dispatchers, NEW o \in {"sent", "failed"},
           dispatcher[d].pc = "send", dispatcher' = [dispatcher EXCEPT ![d].pc = o],
           delivered' \in {delivered, Taken(d)}, o = "sent" => delivered' = Taken(d),
           doubtful' \in {doubtful, doubtful \cup {dispatcher[d].mail}},
           o = "failed" /\ delivered' # delivered => dispatcher[d].mail \in doubtful',
           UNCHANGED <<mail, mailFaults>>
    PROVE  MailIInv'
  <1>1. PICK m \in Mails : m = dispatcher[d].mail /\ d \in Sending(m)
    BY MailAssumption DEF MailIInv, MailTypeOK, DispatchesOneMail, Sending
  <1>2. \A a \in Dispatchers : /\ dispatcher'[a].mail = dispatcher[a].mail
                               /\ dispatcher'[a].pc = IF a = d THEN o ELSE dispatcher[a].pc
    BY DEF MailIInv, MailTypeOK
  <1>3. \A p \in Mails : Sending(p)' = Sending(p)
    BY <1>2 DEF Sending
  <1>4. /\ delivered \in [Mails -> Nat] /\ delivered' \in [Mails -> Nat]
        /\ \A p \in Mails : p # m => delivered'[p] = delivered[p]
        /\ delivered'[m] \in {delivered[m], delivered[m] + 1}
        /\ o = "sent" => delivered'[m] = delivered[m] + 1
        /\ m \notin doubtful' /\ o = "failed" => delivered'[m] = delivered[m]
    BY <1>1 DEF MailIInv, MailTypeOK, Taken
  <1>5. MailTypeOK'
    BY <1>1, <1>4 DEF MailIInv, MailTypeOK
  <1>6. SentIsDelivered' /\ DispatchesOneMail'
    BY <1>1, <1>2, <1>4, MailAssumption DEF MailIInv, MailTypeOK, SentIsDelivered, DispatchesOneMail
  <1>7. ClaimsAreCounted'
    BY <1>3 DEF MailIInv, ClaimsAreCounted
  <1>8. ClaimedOnce'
    <2> SUFFICES ASSUME NEW p \in Mails \ doubtful'
                 PROVE  /\ \A a, b \in Sending(p) : a = b
                        /\ \A a \in Sending(p) :
                              /\ mail[p].claimed /\ mail[p].status # "SENT"
                              /\ delivered'[p] = IF dispatcher'[a].pc = "sent" THEN 1 ELSE 0
                        /\ Sending(p) = {} => delivered'[p] = IF mail[p].status = "SENT" THEN 1 ELSE 0
      BY <1>3 DEF ClaimedOnce
    <2>0. p \notin doubtful
      OBVIOUS
    <2>1. CASE p = m
      <3>1. /\ \A a \in Sending(m) : a = d
            /\ mail[m].claimed /\ mail[m].status # "SENT" /\ delivered[m] = 0
        BY <1>1, <2>0, <2>1 DEF MailIInv, ClaimedOnce
      <3>2. dispatcher'[d].pc = o /\ delivered'[m] = IF o = "sent" THEN 1 ELSE 0
        BY <1>2, <1>4, <2>1, <3>1
      <3> QED BY <1>1, <2>1, <3>1, <3>2
    <2>2. CASE p # m
      <3>1. delivered'[p] = delivered[p] /\ \A a \in Sending(p) : dispatcher'[a].pc = dispatcher[a].pc
        BY <1>1, <1>2, <1>4, <2>2 DEF Sending
      <3> QED BY <2>0, <3>1 DEF MailIInv, ClaimedOnce
    <2> QED BY <2>1, <2>2
  <1> QED BY <1>5, <1>6, <1>7, <1>8 DEF MailIInv

\* The last update of dispatchOne.
LEMMA OutcomeKeeps ==
    ASSUME MailIInv, NEW d \in Dispatchers, RecordOutcome(d)
    PROVE  MailIInv'
  <1> USE MailAssumption
  <1>1. PICK m \in Mails : /\ m = dispatcher[d].mail /\ d \in Sending(m) /\ mail[m] \in MailRecord
                           /\ dispatcher[d].pc \in {"sent", "failed"}
    BY DEF MailIInv, MailTypeOK, DispatchesOneMail, RecordOutcome, Sending
  <1> DEFINE x == [mail[m] EXCEPT !.status = Outcome(d)]
  <1>2. /\ mail' = [mail EXCEPT ![m] = x] /\ dispatcher' = [dispatcher EXCEPT ![d] = Resting]
        /\ UNCHANGED <<delivered, doubtful, mailFaults>>
    BY <1>1 DEF RecordOutcome
  <1>3. /\ x \in MailRecord /\ x.status = Outcome(d) /\ x.attempts = mail[m].attempts /\ x.claimed = mail[m].claimed
        /\ Outcome(d) \in {"SENT", "FAILED"} /\ (Outcome(d) = "SENT" <=> dispatcher[d].pc = "sent")
        /\ Resting.pc = "idle" /\ Resting.mail = NoMail
    BY <1>1 DEF MailRecord, Outcome, Resting
  <1>4. Sending(m)' = Sending(m) \ {d} /\ \A p \in Mails : p # m => Sending(p)' = Sending(p)
    <2>1. \A a \in Dispatchers : dispatcher'[a] = IF a = d THEN Resting ELSE dispatcher[a]
      BY <1>2 DEF MailIInv, MailTypeOK
    <2>2. \A p \in Mails : NoMail # p
      OBVIOUS
    <2> QED BY <1>1, <1>3, <2>1, <2>2 DEF Sending
  <1>5. MailTypeOK'
    BY <1>1, <1>2, <1>3 DEF MailIInv, MailTypeOK, Resting
  <1>6. SentIsDelivered' /\ DispatchesOneMail'
    BY <1>1, <1>2, <1>3 DEF MailIInv, MailTypeOK, SentIsDelivered, DispatchesOneMail
  <1>7. ClaimsAreCounted'
    BY <1>1, <1>2, <1>3, <1>4 DEF MailIInv, MailTypeOK, ClaimsAreCounted
  <1>8. ClaimedOnce'
    <2> SUFFICES ASSUME NEW p \in Mails \ doubtful
                 PROVE  /\ \A a, b \in Sending(p)' : a = b
                        /\ \A a \in Sending(p)' :
                              /\ mail'[p].claimed /\ mail'[p].status # "SENT"
                              /\ delivered[p] = IF dispatcher'[a].pc = "sent" THEN 1 ELSE 0
                        /\ Sending(p)' = {} => delivered[p] = IF mail'[p].status = "SENT" THEN 1 ELSE 0
      BY <1>2 DEF ClaimedOnce
    <2>1. CASE p = m
      <3>1. Sending(m) = {d} /\ delivered[m] = IF dispatcher[d].pc = "sent" THEN 1 ELSE 0
        BY <1>1, <2>1 DEF MailIInv, ClaimedOnce
      <3>2. Sending(m)' = {} /\ mail'[m] = x
        BY <1>1, <1>2, <1>4, <3>1 DEF MailIInv, MailTypeOK
      <3>3. mail'[m].status = "SENT" <=> dispatcher[d].pc = "sent"
        BY <1>3, <3>2
      <3> QED BY <1>2, <2>1, <3>1, <3>2, <3>3
    <2>2. CASE p # m
      <3>1. mail'[p] = mail[p] /\ Sending(p)' = Sending(p) /\ \A a \in Sending(p) : dispatcher'[a] = dispatcher[a]
        BY <1>1, <1>2, <1>4, <2>2 DEF MailIInv, MailTypeOK, Sending
      <3> QED BY <3>1 DEF MailIInv, ClaimedOnce
    <2> QED BY <2>1, <2>2
  <1> QED BY <1>5, <1>6, <1>7, <1>8 DEF MailIInv

\* A dispatcher dies or hangs with its mail, which counts as a fault.
LEMMA DispatcherLossKeeps ==
    ASSUME MailIInv, NEW d \in Dispatchers, DispatcherDies(d) \/ SendHangs(d)
    PROVE  MailIInv'
  <1> USE MailAssumption
  <1> DEFINE hung == [pc |-> "hung", mail |-> NoMail]
  <1>1. PICK m \in Mails : m = dispatcher[d].mail
    BY DEF MailIInv, MailTypeOK, DispatchesOneMail, DispatcherDies, SendHangs
  <1>2. PICK x \in {Resting, hung} :
           /\ dispatcher' = [dispatcher EXCEPT ![d] = x] /\ doubtful' = doubtful \cup {m}
           /\ mailFaults < MaxMailFaults /\ mailFaults' = mailFaults + 1 /\ UNCHANGED mail
           /\ delivered' \in {delivered, Taken(d)}
           /\ x.pc \in {"idle", "hung"} /\ x.mail = NoMail
    BY <1>1 DEF DispatcherDies, SendHangs, Resting
  <1>3. /\ delivered \in [Mails -> Nat] /\ delivered' \in [Mails -> Nat]
        /\ \A p \in Mails : p # m => delivered'[p] = delivered[p]
        /\ delivered'[m] >= delivered[m]
    BY <1>1, <1>2 DEF MailIInv, MailTypeOK, Taken
  <1>4. Sending(m)' = Sending(m) \ {d} /\ \A p \in Mails : p # m => Sending(p)' = Sending(p)
    <2>1. \A a \in Dispatchers : dispatcher'[a] = IF a = d THEN x ELSE dispatcher[a]
      BY <1>2 DEF MailIInv, MailTypeOK
    <2>2. \A p \in Mails : NoMail # p
      OBVIOUS
    <2> QED BY <1>1, <1>2, <2>1, <2>2 DEF Sending
  <1>5. MailTypeOK'
    BY <1>1, <1>2, <1>3 DEF MailIInv, MailTypeOK, Resting
  <1>6. SentIsDelivered' /\ DispatchesOneMail'
    BY <1>1, <1>2, <1>3 DEF MailIInv, MailTypeOK, SentIsDelivered, DispatchesOneMail
  <1>7. ClaimsAreCounted'
    <2>1. mailFaults \in Nat /\ \A p \in Mails : mail[p].attempts \in Nat
      BY DEF MailIInv, MailTypeOK, MailRecord
    <2> SUFFICES ASSUME NEW p \in Mails
                 PROVE  /\ mail[p].status = "NONE" => mail[p].attempts = 0 /\ ~mail[p].claimed /\ Sending(p)' = {}
                        /\ mail[p].status = "PENDING_SEND" => mail[p].attempts <= mailFaults + 1
      BY <1>2, <2>1 DEF ClaimsAreCounted
    <2>2. Sending(p) = {} => Sending(p)' = {}
      BY <1>4
    <2> QED BY <2>1, <2>2 DEF MailIInv, ClaimsAreCounted
  <1>8. ClaimedOnce'
    <2>1. ASSUME NEW p \in Mails \ doubtful, p # m
          PROVE  Sending(p)' = Sending(p) /\ \A a \in Sending(p) : dispatcher'[a] = dispatcher[a]
      BY <1>2, <1>4, <2>1 DEF MailIInv, MailTypeOK, Sending
    <2> QED BY <1>2, <1>3, <2>1 DEF MailIInv, ClaimedOnce
  <1> QED BY <1>5, <1>6, <1>7, <1>8 DEF MailIInv

\* The instance of a hung dispatcher restarts: it has no mail any more.
LEMMA RestartKeeps ==
    ASSUME MailIInv, NEW d \in Dispatchers, HungRestarts(d)
    PROVE  MailIInv'
  <1> USE MailAssumption
  <1>1. /\ dispatcher' = [dispatcher EXCEPT ![d] = Resting] /\ UNCHANGED <<mail, delivered, doubtful, mailFaults>>
        /\ dispatcher[d].mail = NoMail /\ Resting.pc = "idle" /\ Resting.mail = NoMail
    BY DEF HungRestarts, Resting, MailIInv, DispatchesOneMail
  <1>2. \A a \in Dispatchers : dispatcher'[a] = IF a = d THEN Resting ELSE dispatcher[a]
    BY <1>1 DEF MailIInv, MailTypeOK
  <1>3. \A p \in Mails : p # NoMail
    OBVIOUS
  <1>4. \A p \in Mails : /\ Sending(p)' = Sending(p)
                         /\ \A a \in Sending(p) : dispatcher'[a] = dispatcher[a]
    BY <1>1, <1>2, <1>3 DEF Sending
  <1>5. MailTypeOK'
    BY <1>1 DEF MailIInv, MailTypeOK, Resting
  <1>6. SentIsDelivered' /\ DispatchesOneMail'
    BY <1>1, <1>2 DEF MailIInv, SentIsDelivered, DispatchesOneMail
  <1>7. ClaimsAreCounted' /\ ClaimedOnce'
    BY <1>1, <1>4 DEF MailIInv, ClaimsAreCounted, ClaimedOnce
  <1> QED BY <1>5, <1>6, <1>7 DEF MailIInv

LEMMA MailNextKeeps == MailIInv /\ [MailNext]_mailVars => MailIInv'
  <1> SUFFICES ASSUME MailIInv, [MailNext]_mailVars PROVE MailIInv'
    OBVIOUS
  <1>1. CASE UNCHANGED mailVars
    BY <1>1 DEF mailVars, MailIInv, MailTypeOK, SentIsDelivered, DispatchesOneMail, ClaimsAreCounted, ClaimedOnce, Sending
  <1>2. ASSUME NEW m \in Mails, EnqueueMail(m) \/ MailClaimLapses(m) \/ MailClaimOutlived(m) PROVE MailIInv'
    BY <1>2, EnqueueMailKeeps, MailLapseKeeps
  <1>3. ASSUME NEW d \in Dispatchers,
               \/ Send(d) \/ SendFails(d) \/ SendFailsLate(d) \/ RecordOutcome(d)
               \/ SendHangs(d) \/ HungRestarts(d) \/ DispatcherDies(d)
        PROVE  MailIInv'
    <2>1. CASE Send(d)
      BY <2>1, MailSendKeeps DEF Send
    <2>2. CASE SendFails(d)
      BY <2>2, MailSendKeeps DEF SendFails
    <2>3. CASE SendFailsLate(d)
      BY <2>3, MailSendKeeps DEF SendFailsLate
    <2> QED BY <1>3, <2>1, <2>2, <2>3, OutcomeKeeps, DispatcherLossKeeps, RestartKeeps
  <1>4. ASSUME NEW d \in Dispatchers, NEW m \in Mails, ClaimMail(d, m) PROVE MailIInv'
    BY <1>4, ClaimMailKeeps
  <1> QED BY <1>1, <1>2, <1>3, <1>4 DEF MailNext

\* MailInv: whichever dispatchers die, hang or outlive their claims, and however
\* their sends fail, a mail that says SENT was delivered (dispatchOne records what
\* sendTemplated answered), and one that went out twice had such a failure, or a
\* send that failed after the server had taken it.
THEOREM OutboxIsSound == MailSpec => []MailInv
  <1>1. MailIInv => MailInv
    <2> SUFFICES ASSUME MailIInv PROVE TwiceOnlyIfDoubtful
      BY DEF MailIInv, MailInv
    <2>1. ASSUME NEW m \in Mails, m \notin doubtful PROVE ~(delivered[m] > 1)
      <3>1. CASE Sending(m) = {}
        BY <2>1, <3>1 DEF MailIInv, ClaimedOnce
      <3>2. CASE Sending(m) # {}
        BY <2>1, <3>2 DEF MailIInv, ClaimedOnce
      <3> QED BY <3>1, <3>2
    <2> QED BY <2>1 DEF TwiceOnlyIfDoubtful
  <1> QED BY <1>1, MailStarts, MailNextKeeps, PTL DEF MailSpec

\* notify: the worker that runs imports and dispatches in turn, and queues the
\* notice in the transaction that ends a run, uses the outbox as it is meant;
\* the notice of a run is one nobody has queued.
THEOREM WorkerImplementsOutbox == BackgroundSpec => MailSpec
  <1>1. BackgroundInit => MailInit
    BY DEF BackgroundInit
  <1>2. IInv /\ [BackgroundNext]_jobVars => [MailNext]_mailVars
    <2> SUFFICES ASSUME IInv, [BackgroundNext]_jobVars PROVE [MailNext]_mailVars
      OBVIOUS
    <2>1. CASE UNCHANGED jobVars
      BY <2>1 DEF jobVars, mailVars
    <2>2. ASSUME NEW w \in ImportWorkers, FinishAndNotify(w) \/ FailAndNotify(w) PROVE [MailNext]_mailVars
      <3>1. /\ importWorker[w].job \in Jobs
            /\ importWorker[w].lease \in 1..importJob[importWorker[w].job].attempts
        BY <2>2 DEF IInv, LeaseOfRun, Active, FinishAndNotify, FailAndNotify, FinishImport, FailJob
      <3>2. importJob[importWorker[w].job].attempts \in 0..MaxClaims
        BY <3>1 DEF IInv, ImportTypeOK, JobRecord
      <3>3. NoticeOf(w) \in Mails
        BY <3>1, <3>2, NoticeAssumption, ImportAssumption DEF NoticeOf
      <3> QED BY <2>2, <3>3 DEF FinishAndNotify, FailAndNotify, MailNext
    <2>3. ASSUME NEW w \in ImportWorkers,
                 DispatchesMail(w) \/ DispatcherDies(w) \/ SendHangs(w) \/ HungRestarts(w)
          PROVE  [MailNext]_mailVars
      BY <2>3, NoticeAssumption DEF DispatchesMail, MailNext
    <2>4. ASSUME NEW m \in Mails, MailClaimLapses(m) \/ MailClaimOutlived(m) PROVE [MailNext]_mailVars
      BY <2>4 DEF MailNext
    <2> QED BY <2>1, <2>2, <2>3, <2>4 DEF BackgroundNext, WorkerStep, TimePasses, Disturbance
  <1> QED BY <1>1, <1>2, WorkerImplementsImports, InductiveInv, PTL DEF BackgroundSpec, MailSpec

\* ImportJobsJob and MailOutboxService in one worker: what each promises holds of
\* the process that runs both.
THEOREM WorkerIsSound == BackgroundSpec => [](ImportInv /\ HistoryIsOneChain /\ MailInv) /\ FinishedIsFinal
  BY WorkerImplementsImports, WorkerImplementsOutbox, ImportIsSound, OneChain, FinishedStays, OutboxIsSound, PTL

-----------------------------------------------------------------------------
(* The switch of a module: FeatureFlags.                                   *)

\* The writes each writer makes.
OpsOf(k) == IF k = "circuit" THEN {"trip", "recover", "rearm"} ELSE {"enable", "disable"}

\* What an instance knows is not newer than version v, and its reloads are not
\* older than its own writes.
NodeIsSound(n, v) ==
    /\ n \in NodeRecord
    /\ n.own <= v
    /\ \A k \in Writers :
          /\ n.write[k].read.version <= v
          /\ n.write[k].pc # "idle" => n.write[k].op \in OpsOf(k)
    /\ \A s \in ReloadSlots : n.reload[s].pc = "read" => n.reload[s].row.version >= n.own

FlagIInv ==
    /\ flag \in FlagRow
    /\ node \in [FlagInstances -> NodeRecord]
    /\ \A i \in FlagInstances : NodeIsSound(node[i], flag.version)
    /\ switchoff \in [taken : Nat, waited : Nat]
    /\ upsets \in 0..MaxUpsets

-----------------------------------------------------------------------------
(* Rows and records.                                                       *)

LEMMA FlagRows ==
    /\ \A v \in Nat : Enabled(v) \in FlagRow /\ Enabled(v).version = v
    /\ \A row \in FlagRow : Override(row) \in FlagRow /\ Override(row).version = row.version
    /\ NoWrite \in FlagWrite /\ NoWrite.pc = "idle" /\ NoWrite.read.version = 0
    /\ NoReload \in [pc : {"idle", "read"}, row : FlagRow] /\ NoReload.pc = "idle"
BY DEF Enabled, Override, FlagRow, NoWrite, FlagWrite, NoReload

\* Rows are only written with a newer version.
LEMMA Grows ==
    ASSUME NEW n, NEW v \in Nat, NEW u \in Nat, v <= u, NodeIsSound(n, v)
    PROVE  NodeIsSound(n, u)
BY DEF NodeIsSound, NodeRecord, FlagWrite, FlagRow

LEMMA StartedIsSound ==
    ASSUME NEW row \in FlagRow
    PROVE  NodeIsSound(Started(row), row.version)
<1>1. /\ row.version \in Nat /\ 0 <= row.version
      /\ Override(row) \in FlagRow
      /\ 0 \in 0..CircuitThreshold /\ 0 \in 0..MaxInFlight
    BY FlagRows, FlagsAssumption DEF FlagRow
<1>2. /\ [k \in Writers |-> NoWrite] \in [Writers -> FlagWrite]
      /\ [s \in ReloadSlots |-> NoReload] \in [ReloadSlots -> [pc : {"idle", "read"}, row : FlagRow]]
    BY FlagRows
<1>3. Started(row) \in NodeRecord
    BY <1>1, <1>2 DEF Started, NodeRecord
<1> QED
    BY <1>1, <1>3, FlagRows DEF NodeIsSound, Started

LEMMA MutatedIsSound ==
    ASSUME NEW n, NEW v \in Nat, NodeIsSound(n, v)
    PROVE  /\ NodeIsSound(Mutates(n), v)
           /\ \A s \in ReloadSlots : Mutates(n).reload[s].pc = "idle"
           /\ Mutates(n).write = n.write
<1>1. [s \in ReloadSlots |-> NoReload] \in [ReloadSlots -> [pc : {"idle", "read"}, row : FlagRow]]
    BY FlagRows
<1>2. Mutates(n) \in NodeRecord
    BY <1>1 DEF Mutates, NodeRecord, NodeIsSound
<1>3. /\ Mutates(n).own = n.own /\ Mutates(n).write = n.write
      /\ Mutates(n).reload = [s \in ReloadSlots |-> NoReload]
    BY DEF Mutates, NodeRecord, NodeIsSound
<1> QED
    BY <1>2, <1>3, FlagRows DEF NodeIsSound

\* An update of one write of an instance.
LEMMA WriteIsSound ==
    ASSUME NEW n, NEW v \in Nat, NodeIsSound(n, v), NEW k \in Writers, NEW w \in FlagWrite,
           w.read.version <= v, w.pc # "idle" => w.op \in OpsOf(k)
    PROVE  /\ NodeIsSound([n EXCEPT !.write[k] = w], v)
           /\ [n EXCEPT !.write[k] = w].reload = n.reload
<1>1. [n EXCEPT !.write[k] = w] \in NodeRecord
    BY DEF NodeIsSound, NodeRecord
<1>2. /\ [n EXCEPT !.write[k] = w].own = n.own
      /\ [n EXCEPT !.write[k] = w].reload = n.reload
      /\ \A j \in Writers : [n EXCEPT !.write[k] = w].write[j] = IF j = k THEN w ELSE n.write[j]
    BY DEF NodeIsSound, NodeRecord
<1> QED
    BY <1>1, <1>2 DEF NodeIsSound

LEMMA BegunIsSound ==
    ASSUME NEW n, flag \in FlagRow, NodeIsSound(n, flag.version), NEW k \in Writers, NEW op \in OpsOf(k), NEW at \in Nat
    PROVE  NodeIsSound(Begins(n, k, op, at), flag.version)
<1> DEFINE w == [op |-> op, pc |-> "db", at |-> at, read |-> flag]
<1>1. w \in FlagWrite /\ w.read.version <= flag.version /\ w.op \in OpsOf(k) /\ flag.version \in Nat
    BY DEF FlagWrite, OpsOf, FlagRow
<1>2. NodeIsSound(Mutates(n), flag.version)
    BY <1>1, MutatedIsSound
<1> QED
    BY <1>1, <1>2, WriteIsSound DEF Begins

LEMMA EndedIsSound ==
    ASSUME NEW n, NEW v \in Nat, NodeIsSound(n, v), NEW k \in Writers
    PROVE  /\ NodeIsSound(Ended(n, k), v)
           /\ \A s \in ReloadSlots : Ended(n, k).reload[s].pc = "idle"
<1>1. NoWrite \in FlagWrite /\ NoWrite.read.version <= v /\ NoWrite.pc = "idle"
    BY FlagRows
<1>2. NodeIsSound(Mutates(n), v) /\ \A s \in ReloadSlots : Mutates(n).reload[s].pc = "idle"
    BY MutatedIsSound
<1> QED
    BY <1>1, <1>2, WriteIsSound DEF Ended

\* The fields the invariant does not relate to anything.
LEMMA PlainIsSound ==
    ASSUME NEW n, NEW v \in Nat, NodeIsSound(n, v), NEW f \in 0..CircuitThreshold,
           NEW p \in {"none", "out", "lapsed"}, NEW q \in 0..MaxInFlight, NEW row \in FlagRow
    PROVE  NodeIsSound([n EXCEPT !.failures = f, !.probe = p, !.inFlight = q, !.stored = row], v)
<1> DEFINE m == [n EXCEPT !.failures = f, !.probe = p, !.inFlight = q, !.stored = row]
<1>1. m \in NodeRecord
    BY DEF NodeIsSound, NodeRecord
<1>2. m.own = n.own /\ m.write = n.write /\ m.reload = n.reload
    BY DEF NodeIsSound, NodeRecord
<1> QED
    BY <1>1, <1>2 DEF NodeIsSound

-----------------------------------------------------------------------------
(* Steps.                                                                  *)

\* A step changes one instance, and the row only forward.
LEMMA NodeStep ==
    ASSUME FlagIInv, NEW i \in FlagInstances, NEW n,
           flag' \in FlagRow, flag'.version >= flag.version,
           node' = [node EXCEPT ![i] = n], NodeIsSound(n, flag'.version),
           switchoff' \in [taken : Nat, waited : Nat], upsets' \in 0..MaxUpsets
    PROVE  FlagIInv'
<1>1. flag.version \in Nat /\ flag'.version \in Nat
    BY DEF FlagIInv, FlagRow
<1>2. ASSUME NEW j \in FlagInstances PROVE NodeIsSound(node'[j], flag'.version)
    <2>1. CASE j = i
        BY <2>1 DEF FlagIInv
    <2>2. CASE j # i
        BY <1>1, <2>2, Grows DEF FlagIInv
    <2> QED
        BY <2>1, <2>2
<1>3. node' \in [FlagInstances -> NodeRecord]
    BY <1>2 DEF FlagIInv, NodeIsSound
<1> QED
    BY <1>2, <1>3 DEF FlagIInv, NodeIsSound

\* A step that leaves the row alone.
LEMMA MemoryStep ==
    ASSUME FlagIInv, NEW i \in FlagInstances, NEW n,
           UNCHANGED flag, node' = [node EXCEPT ![i] = n], NodeIsSound(n, flag.version),
           switchoff' \in [taken : Nat, waited : Nat], upsets' \in 0..MaxUpsets
    PROVE  FlagIInv'
<1>1. flag' \in FlagRow /\ flag'.version >= flag.version /\ flag'.version = flag.version
    BY DEF FlagIInv, FlagRow
<1> QED
    BY <1>1, NodeStep

LEMMA UpsetsAreBounded == ASSUME FlagIInv, Upset PROVE upsets' \in 0..MaxUpsets
BY FlagsAssumption DEF FlagIInv, Upset

\* The new content of a field, or the old one.
LEMMA Facts ==
    ASSUME FlagIInv, NEW i \in FlagInstances
    PROVE  /\ node[i] \in NodeRecord /\ NodeIsSound(node[i], flag.version)
           /\ flag \in FlagRow /\ flag.version \in Nat
           /\ node[i].failures \in 0..CircuitThreshold /\ node[i].probe \in {"none", "out", "lapsed"}
           /\ node[i].inFlight \in 0..MaxInFlight /\ node[i].stored \in FlagRow
           /\ node[i].write \in [Writers -> FlagWrite]
           /\ node[i].reload \in [ReloadSlots -> [pc : {"idle", "read"}, row : FlagRow]]
           /\ node \in [FlagInstances -> NodeRecord]
BY DEF FlagIInv, NodeRecord, FlagRow

LEMMA RequestSteps ==
    ASSUME FlagIInv, NEW i \in FlagInstances, Admit(i) \/ RequestIsRefused(i) \/ RequestHangs(i) \/ ProbeLapses(i) \/ FailureAges(i)
    PROVE  FlagIInv'
<1> DEFINE N(f, p, q) == [node[i] EXCEPT !.failures = f, !.probe = p, !.inFlight = q, !.stored = node[i].stored]
<1>1. PICK f \in 0..CircuitThreshold, p \in {"none", "out", "lapsed"}, q \in 0..MaxInFlight :
          node' = [node EXCEPT ![i] = N(f, p, q)]
    <2>1. CASE Admit(i)
        <3>1. node[i].inFlight + 1 \in 0..MaxInFlight
            BY <2>1, Facts, FlagsAssumption DEF Admit
        <3>2. \/ node' = [node EXCEPT ![i] = N(node[i].failures, node[i].probe, node[i].inFlight + 1)]
              \/ node' = [node EXCEPT ![i] = N(node[i].failures, "out", node[i].inFlight + 1)]
            BY <2>1, Facts DEF Admit, NodeRecord
        <3> QED
            BY <3>1, <3>2, Facts
    <2>2. CASE RequestIsRefused(i) \/ RequestHangs(i)
        <3>1. node[i].inFlight - 1 \in 0..MaxInFlight
            BY <2>2, Facts, FlagsAssumption DEF RequestIsRefused, RequestHangs
        <3>2. \/ node' = [node EXCEPT ![i] = N(node[i].failures, node[i].probe, node[i].inFlight - 1)]
              \/ node' = [node EXCEPT ![i] = N(node[i].failures, "none", node[i].inFlight - 1)]
            BY <2>2, Facts DEF RequestIsRefused, RequestHangs, Answered, NodeRecord
        <3> QED
            BY <3>1, <3>2, Facts
    <2>3. CASE ProbeLapses(i)
        <3>1. node' = [node EXCEPT ![i] = N(node[i].failures, "lapsed", node[i].inFlight)]
            BY <2>3, Facts DEF ProbeLapses, NodeRecord
        <3> QED
            BY <3>1, Facts
    <2>4. CASE FailureAges(i)
        <3>1. node[i].failures - 1 \in 0..CircuitThreshold
            BY <2>4, Facts, FlagsAssumption DEF FailureAges
        <3>2. node' = [node EXCEPT ![i] = N(node[i].failures - 1, node[i].probe, node[i].inFlight)]
            BY <2>4, Facts DEF FailureAges, NodeRecord
        <3> QED
            BY <3>1, <3>2, Facts
    <2> QED
        BY <2>1, <2>2, <2>3, <2>4
<1>2. NodeIsSound(N(f, p, q), flag.version)
    BY Facts, PlainIsSound
<1>3. UNCHANGED <<flag, switchoff>> /\ upsets' \in 0..MaxUpsets
    BY UpsetsAreBounded DEF Admit, RequestIsRefused, RequestHangs, ProbeLapses, FailureAges, FlagIInv
<1>4. switchoff' \in [taken : Nat, waited : Nat]
    BY <1>3 DEF FlagIInv
<1> HIDE DEF N
<1> QED
    BY <1>1, <1>2, <1>3, <1>4, MemoryStep

LEMMA AnsweredIsSound ==
    ASSUME FlagIInv, NEW i \in FlagInstances, node[i].inFlight > 0, NEW f \in 0..CircuitThreshold
    PROVE  /\ NodeIsSound(Answered(i), flag.version)
           /\ NodeIsSound([Answered(i) EXCEPT !.probe = "none"], flag.version)
           /\ NodeIsSound([Answered(i) EXCEPT !.failures = f], flag.version)
<1> DEFINE N(g, p) == [node[i] EXCEPT !.failures = g, !.probe = p, !.inFlight = node[i].inFlight - 1, !.stored = node[i].stored]
<1>1. node[i].inFlight - 1 \in 0..MaxInFlight
    BY Facts, FlagsAssumption
<1>2. \A g \in 0..CircuitThreshold, p \in {"none", "out", "lapsed"} : NodeIsSound(N(g, p), flag.version)
    BY <1>1, Facts, PlainIsSound
<1>3. /\ Answered(i) = N(node[i].failures, node[i].probe)
      /\ [Answered(i) EXCEPT !.probe = "none"] = N(node[i].failures, "none")
      /\ [Answered(i) EXCEPT !.failures = f] = N(f, node[i].probe)
    BY Facts DEF Answered, NodeRecord
<1> HIDE DEF N
<1> QED
    BY <1>2, <1>3, Facts

LEMMA SwitchoffTaken ==
    ASSUME FlagIInv
    PROVE  /\ switchoff \in [taken : Nat, waited : Nat]
           /\ switchoff.taken + 1 \in Nat
           /\ [switchoff EXCEPT !.taken = switchoff.taken + 1] \in [taken : Nat, waited : Nat]
BY DEF FlagIInv

\* recordSuccess and recordFailure.
LEMMA AnswerSteps ==
    ASSUME FlagIInv, NEW i \in FlagInstances, RequestSucceeds(i) \/ ProbeFails(i) \/ RequestFails(i)
    PROVE  FlagIInv'
<1> DEFINE now   == switchoff.taken + 1
           after == [Answered(i) EXCEPT !.probe = "none"]
<1>1. "circuit" \in Writers /\ {"trip", "recover", "rearm"} \subseteq OpsOf("circuit") /\ 0 \in Nat
      /\ 0 \in 0..CircuitThreshold /\ flag \in FlagRow
    BY Facts, FlagsAssumption DEF Writers, OpsOf
<1>2. CASE RequestSucceeds(i)
    <2>1. NodeIsSound(after, flag.version)
        BY <1>1, <1>2, AnsweredIsSound DEF RequestSucceeds
    <2>2. NodeIsSound(Begins(after, "circuit", "recover", 0), flag.version)
        BY <1>1, <2>1, BegunIsSound
    <2>3. \/ node' = [node EXCEPT ![i] = Begins(after, "circuit", "recover", 0)]
          \/ node' = [node EXCEPT ![i] = after]
        BY <1>2 DEF RequestSucceeds
    <2>4. UNCHANGED <<flag, switchoff, upsets>>
        BY <1>2 DEF RequestSucceeds
    <2>5. switchoff' \in [taken : Nat, waited : Nat] /\ upsets' \in 0..MaxUpsets
        BY <2>4 DEF FlagIInv
    <2> QED
        BY <2>1, <2>2, <2>3, <2>4, <2>5, MemoryStep
<1>3. CASE ProbeFails(i)
    <2>1. NodeIsSound(after, flag.version)
        BY <1>1, <1>3, AnsweredIsSound DEF ProbeFails
    <2>2. NodeIsSound(Begins(after, "circuit", "rearm", now), flag.version)
        BY <1>1, <2>1, BegunIsSound, SwitchoffTaken
    <2>3. \/ node' = [node EXCEPT ![i] = Begins(after, "circuit", "rearm", now)]
          \/ node' = [node EXCEPT ![i] = after]
        BY <1>3 DEF ProbeFails
    <2>4. UNCHANGED flag /\ switchoff' \in [taken : Nat, waited : Nat] /\ upsets' \in 0..MaxUpsets
        BY <1>3, SwitchoffTaken, UpsetsAreBounded DEF ProbeFails
    <2> QED
        BY <2>1, <2>2, <2>3, <2>4, MemoryStep
<1>4. CASE RequestFails(i)
    <2> DEFINE counted == node[i].failures + 1
    <2>1. NodeIsSound([Answered(i) EXCEPT !.failures = 0], flag.version) /\ NodeIsSound(Answered(i), flag.version)
        BY <1>1, <1>4, AnsweredIsSound DEF RequestFails
    <2>2. counted <= CircuitThreshold => NodeIsSound([Answered(i) EXCEPT !.failures = counted], flag.version)
        <3>1. counted <= CircuitThreshold => counted \in 0..CircuitThreshold
            BY Facts, FlagsAssumption
        <3> QED
            BY <3>1, <1>4, AnsweredIsSound DEF RequestFails
    <2>3. NodeIsSound(Begins([Answered(i) EXCEPT !.failures = 0], "circuit", "trip", now), flag.version)
        BY <1>1, <2>1, BegunIsSound, SwitchoffTaken
    <2>4. \/ node' = [node EXCEPT ![i] = Begins([Answered(i) EXCEPT !.failures = 0], "circuit", "trip", now)]
          \/ counted <= CircuitThreshold /\ node' = [node EXCEPT ![i] = [Answered(i) EXCEPT !.failures = counted]]
          \/ node' = [node EXCEPT ![i] = Answered(i)]
        BY <1>4 DEF RequestFails
    <2>5. UNCHANGED flag /\ switchoff' \in [taken : Nat, waited : Nat] /\ upsets' \in 0..MaxUpsets
        BY <1>4, SwitchoffTaken, UpsetsAreBounded DEF RequestFails
    <2> QED
        BY <2>1, <2>2, <2>3, <2>4, <2>5, MemoryStep
<1> QED
    BY <1>2, <1>3, <1>4

LEMMA AdminStep ==
    ASSUME FlagIInv, NEW i \in FlagInstances, NEW op \in {"enable", "disable"}, AdminSets(i, op)
    PROVE  FlagIInv'
<1>1. "admin" \in Writers /\ op \in OpsOf("admin") /\ 0 \in Nat
    BY DEF Writers, OpsOf
<1>2. NodeIsSound(Begins(node[i], "admin", op, 0), flag.version)
    BY <1>1, Facts, BegunIsSound
<1>3. /\ node' = [node EXCEPT ![i] = Begins(node[i], "admin", op, 0)] /\ UNCHANGED flag
      /\ switchoff' \in [taken : Nat, waited : Nat] /\ upsets' \in 0..MaxUpsets
    BY UpsetsAreBounded DEF AdminSets, FlagIInv
<1> QED
    BY <1>2, <1>3, MemoryStep

\* The row after a write.
LEMMA WrittenIsRow ==
    ASSUME flag \in FlagRow, NEW w \in FlagWrite
    PROVE  /\ [Written(w) EXCEPT !.version = flag.version + 1] \in FlagRow
           /\ [Written(w) EXCEPT !.version = flag.version + 1].version = flag.version + 1
           /\ flag.version + 1 \in Nat
<1>1. w.at \in Nat /\ w.read \in FlagRow /\ flag.version + 1 \in Nat
    BY DEF FlagWrite, FlagRow
<1>2. Saved(w) \in FlagRow
    BY <1>1 DEF Saved, FlagRow
<1>3. [flag EXCEPT !.enabled = FALSE, !.reason = "CIRCUIT", !.at = w.at] \in FlagRow
    BY <1>1 DEF FlagRow
<1>4. [flag EXCEPT !.enabled = TRUE, !.reason = "NONE", !.at = 0] \in FlagRow
    BY DEF FlagRow
<1>5. Written(w) \in FlagRow
    BY <1>2, <1>3, <1>4 DEF Written
<1> QED
    BY <1>1, <1>5 DEF FlagRow

LEMMA WriteRunsStep ==
    ASSUME FlagIInv, NEW i \in FlagInstances, NEW k \in Writers, WriteRuns(i, k)
    PROVE  FlagIInv'
<1>1. PICK w : w = node[i].write[k]
    OBVIOUS
<1>2. PICK row : row = [Written(w) EXCEPT !.version = flag.version + 1]
    OBVIOUS
<1>3. w \in FlagWrite /\ w.pc = "db" /\ w.op \in OpsOf(k) /\ w.read.version <= flag.version /\ flag \in FlagRow
    BY <1>1, Facts DEF WriteRuns, NodeIsSound
<1>4. row \in FlagRow /\ row.version = flag.version + 1 /\ flag.version \in Nat
    BY <1>2, <1>3, WrittenIsRow, Facts
<1>5. /\ flag' = IF Applies(w) THEN row ELSE flag
      /\ node' = [node EXCEPT ![i].write[k] = IF Applies(w) THEN [w EXCEPT !.pc = "done", !.read = row]
                                              ELSE [w EXCEPT !.pc = "missed"]]
      /\ UNCHANGED <<switchoff, upsets>>
    BY <1>1, <1>2 DEF WriteRuns
<1>6. switchoff' \in [taken : Nat, waited : Nat] /\ upsets' \in 0..MaxUpsets
    BY <1>5 DEF FlagIInv
<1>7. CASE Applies(w)
    <2>1. PICK done : done = [w EXCEPT !.pc = "done", !.read = row]
        OBVIOUS
    <2>2. flag' = row /\ node' = [node EXCEPT ![i].write[k] = done]
        BY <1>5, <1>7, <2>1
    <2>3. node' = [node EXCEPT ![i] = [node[i] EXCEPT !.write[k] = done]]
        BY <2>2, Facts DEF NodeRecord
    <2>4. done \in FlagWrite /\ done.read = row /\ done.op \in OpsOf(k)
        BY <1>3, <1>4, <2>1 DEF FlagWrite
    <2>5. flag.version + 1 \in Nat /\ flag.version <= flag.version + 1 /\ done.read.version <= flag.version + 1
        BY <1>4, <2>4
    <2>6. NodeIsSound(node[i], flag.version + 1)
        BY <1>4, <2>5, Facts, Grows
    <2>7. NodeIsSound([node[i] EXCEPT !.write[k] = done], flag.version + 1)
        BY <2>4, <2>5, <2>6, WriteIsSound
    <2>8. flag' \in FlagRow /\ flag'.version >= flag.version /\ flag'.version = flag.version + 1
        BY <1>4, <2>2
    <2> QED
        BY <1>6, <2>3, <2>7, <2>8, NodeStep
<1>8. CASE ~Applies(w)
    <2>1. PICK missed : missed = [w EXCEPT !.pc = "missed"]
        OBVIOUS
    <2>2. flag' = flag /\ node' = [node EXCEPT ![i].write[k] = missed]
        BY <1>5, <1>8, <2>1
    <2>3. node' = [node EXCEPT ![i] = [node[i] EXCEPT !.write[k] = missed]]
        BY <2>2, Facts DEF NodeRecord
    <2>4. missed \in FlagWrite /\ missed.read.version <= flag.version /\ missed.op \in OpsOf(k)
        BY <1>3, <2>1 DEF FlagWrite
    <2>5. NodeIsSound([node[i] EXCEPT !.write[k] = missed], flag.version)
        BY <2>4, Facts, WriteIsSound
    <2> QED
        BY <1>6, <2>2, <2>3, <2>5, MemoryStep
<1> QED
    BY <1>7, <1>8

LEMMA WriteFailsStep ==
    ASSUME FlagIInv, NEW i \in FlagInstances, NEW k \in Writers, WriteFails(i, k)
    PROVE  FlagIInv'
<1>1. PICK w : w = node[i].write[k]
    OBVIOUS
<1>2. PICK failed : failed = [w EXCEPT !.pc = "failed"]
    OBVIOUS
<1>3. w \in FlagWrite /\ w.pc = "db" /\ w.op \in OpsOf(k) /\ w.read.version <= flag.version
    BY <1>1, Facts DEF WriteFails, NodeIsSound
<1>4. failed \in FlagWrite /\ failed.read.version <= flag.version /\ failed.op \in OpsOf(k)
    BY <1>2, <1>3 DEF FlagWrite
<1>5. node' = [node EXCEPT ![i] = [node[i] EXCEPT !.write[k] = failed]]
    BY <1>1, <1>2, <1>3, Facts DEF WriteFails, NodeRecord, FlagWrite
<1>6. NodeIsSound([node[i] EXCEPT !.write[k] = failed], flag.version)
    BY <1>4, Facts, WriteIsSound
<1>7. UNCHANGED flag /\ switchoff' \in [taken : Nat, waited : Nat] /\ upsets' \in 0..MaxUpsets
    BY UpsetsAreBounded DEF WriteFails, FlagIInv
<1> QED
    BY <1>5, <1>6, <1>7, MemoryStep

\* What an instance believes after its write is a state of the module.
LEMMA BelievedIsRow ==
    ASSUME NEW w \in FlagWrite, w.op # "none", NEW s \in FlagRow
    PROVE  Believed(w, s) \in FlagRow
<1>1. /\ w.op \in {"trip", "recover", "rearm", "enable", "disable"}
      /\ w.at \in Nat /\ w.read.version \in Nat /\ s.version \in Nat
    BY DEF FlagWrite, FlagRow
<1>2. Enabled(w.read.version) \in FlagRow
    BY <1>1, FlagRows
<1>3. CASE w.op \in {"trip", "rearm"}
    BY <1>1, <1>3 DEF Believed, FlagRow
<1>4. CASE w.op \in {"recover", "enable"}
    BY <1>2, <1>4 DEF Believed
<1>5. CASE w.op = "disable"
    BY <1>1, <1>5 DEF Believed, FlagRow
<1> QED
    BY <1>1, <1>3, <1>4, <1>5

LEMMA WriteEndsStep ==
    ASSUME FlagIInv, NEW i \in FlagInstances, NEW k \in Writers, WriteEnds(i, k)
    PROVE  FlagIInv'
<1>1. PICK w : w = node[i].write[k]
    OBVIOUS
<1>2. PICK n : n = Ended(node[i], k)
    OBVIOUS
<1>3. /\ w \in FlagWrite /\ w.pc # "idle" /\ w.op \in OpsOf(k)
      /\ w.read.version <= flag.version /\ w.read.version \in Nat
    BY <1>1, Facts DEF WriteEnds, NodeIsSound, FlagWrite, FlagRow
<1>4. NodeIsSound(n, flag.version) /\ \A s \in ReloadSlots : n.reload[s].pc = "idle"
    BY <1>2, Facts, EndedIsSound
<1>5. PICK own : own = IF w.pc = "done" THEN w.read.version ELSE n.own
    OBVIOUS
<1>6. PICK f : f = IF w.op \in {"recover", "enable", "disable"} THEN 0 ELSE n.failures
    OBVIOUS
<1>7. PICK p : p = IF k = "admin" THEN "none" ELSE n.probe
    OBVIOUS
<1>8. PICK row : row = Believed(w, node[i].stored)
    OBVIOUS
<1>9. row \in FlagRow
    BY <1>3, <1>8, Facts, BelievedIsRow DEF OpsOf
<1>10. own \in Nat /\ own <= flag.version
    BY <1>3, <1>4, <1>5 DEF NodeIsSound, NodeRecord
<1>11. f \in 0..CircuitThreshold /\ p \in {"none", "out", "lapsed"}
    BY <1>4, <1>6, <1>7, FlagsAssumption DEF NodeIsSound, NodeRecord
<1>12. node' = [node EXCEPT ![i] = [n EXCEPT !.stored = row, !.own = own, !.failures = f, !.probe = p]]
    BY <1>1, <1>2, <1>5, <1>6, <1>7, <1>8 DEF WriteEnds
<1>13. PICK m : m = [n EXCEPT !.stored = row, !.own = own, !.failures = f, !.probe = p]
    OBVIOUS
<1>14. m \in NodeRecord
    BY <1>4, <1>9, <1>10, <1>11, <1>13 DEF NodeIsSound, NodeRecord
<1>15. m.own = own /\ m.write = n.write /\ m.reload = n.reload
    BY <1>4, <1>13 DEF NodeIsSound, NodeRecord
<1>16. NodeIsSound(m, flag.version)
    BY <1>4, <1>10, <1>14, <1>15 DEF NodeIsSound
<1>17. UNCHANGED <<flag, switchoff, upsets>>
    BY DEF WriteEnds
<1>18. switchoff' \in [taken : Nat, waited : Nat] /\ upsets' \in 0..MaxUpsets
    BY <1>17 DEF FlagIInv
<1> QED
    BY <1>12, <1>13, <1>16, <1>17, <1>18, MemoryStep

LEMMA WriteGivesUpStep ==
    ASSUME FlagIInv, NEW i \in FlagInstances, NEW k \in Writers, WriteMissed(i, k) \/ WriteIsLost(i, k)
    PROVE  FlagIInv'
<1>1. node' = [node EXCEPT ![i] = Ended(node[i], k)] /\ UNCHANGED <<flag, switchoff, upsets>>
    BY DEF WriteMissed, WriteIsLost
<1>2. NodeIsSound(Ended(node[i], k), flag.version)
    BY Facts, EndedIsSound
<1>3. switchoff' \in [taken : Nat, waited : Nat] /\ upsets' \in 0..MaxUpsets
    BY <1>1 DEF FlagIInv
<1> QED
    BY <1>1, <1>2, <1>3, MemoryStep

\* An update of one reload of an instance.
LEMMA ReloadSlotIsSound ==
    ASSUME NEW n, NEW v \in Nat, NodeIsSound(n, v), NEW s \in ReloadSlots,
           NEW x \in [pc : {"idle", "read"}, row : FlagRow],
           x.pc = "read" => x.row.version >= n.own
    PROVE  NodeIsSound([n EXCEPT !.reload[s] = x], v)
<1>1. [n EXCEPT !.reload[s] = x] \in NodeRecord
    BY DEF NodeIsSound, NodeRecord
<1>2. /\ [n EXCEPT !.reload[s] = x].own = n.own
      /\ [n EXCEPT !.reload[s] = x].write = n.write
      /\ \A t \in ReloadSlots : [n EXCEPT !.reload[s] = x].reload[t] = IF t = s THEN x ELSE n.reload[t]
    BY DEF NodeIsSound, NodeRecord
<1> QED
    BY <1>1, <1>2 DEF NodeIsSound

\* reloadOne reads the row as it is, which is not older than what the instance
\* wrote; apply takes what it read.
LEMMA ReloadSteps ==
    ASSUME FlagIInv, NEW i \in FlagInstances, NEW s \in ReloadSlots, ReloadReads(i, s) \/ ReloadApplies(i, s)
    PROVE  FlagIInv'
<1>1. UNCHANGED <<flag, switchoff, upsets>>
    BY DEF ReloadReads, ReloadApplies
<1>2. switchoff' \in [taken : Nat, waited : Nat] /\ upsets' \in 0..MaxUpsets
    BY <1>1 DEF FlagIInv
<1>3. CASE ReloadReads(i, s)
    <2>1. PICK x : x = [pc |-> "read", row |-> Override(flag)]
        OBVIOUS
    <2>2. x \in [pc : {"idle", "read"}, row : FlagRow] /\ x.row.version = flag.version
        BY <2>1, Facts, FlagRows
    <2>3. x.row.version >= node[i].own
        BY <2>2, Facts DEF NodeIsSound, NodeRecord
    <2>4. node' = [node EXCEPT ![i] = [node[i] EXCEPT !.reload[s] = x]]
        BY <1>3, <2>1, Facts DEF ReloadReads, NodeRecord
    <2>5. NodeIsSound([node[i] EXCEPT !.reload[s] = x], flag.version)
        BY <2>2, <2>3, Facts, ReloadSlotIsSound
    <2> QED
        BY <1>1, <1>2, <2>4, <2>5, MemoryStep
<1>4. CASE ReloadApplies(i, s)
    <2>1. PICK row : row = node[i].reload[s].row
        OBVIOUS
    <2>2. PICK p : p = IF row.reason = "CIRCUIT" THEN node[i].probe ELSE "none"
        OBVIOUS
    <2>3. PICK n : n = [node[i] EXCEPT !.failures = node[i].failures, !.probe = p, !.inFlight = node[i].inFlight, !.stored = row]
        OBVIOUS
    <2>4. row \in FlagRow /\ p \in {"none", "out", "lapsed"}
        BY <2>1, <2>2, Facts
    <2>5. NodeIsSound(n, flag.version)
        BY <2>3, <2>4, Facts, PlainIsSound
    <2>6. NodeIsSound([n EXCEPT !.reload[s] = NoReload], flag.version)
        BY <2>5, Facts, FlagRows, ReloadSlotIsSound
    <2>7. node' = [node EXCEPT ![i] = [n EXCEPT !.reload[s] = NoReload]]
        BY <1>4, <2>1, <2>2, <2>3, Facts DEF ReloadApplies, NodeRecord
    <2> QED
        BY <1>1, <1>2, <2>6, <2>7, MemoryStep
<1> QED
    BY <1>3, <1>4

LEMMA RestartStep ==
    ASSUME FlagIInv, NEW i \in FlagInstances, Restart(i)
    PROVE  FlagIInv'
<1>1. NodeIsSound(Started(flag), flag.version)
    BY Facts, StartedIsSound
<1>2. /\ UNCHANGED flag /\ node' = [node EXCEPT ![i] = Started(flag)]
      /\ switchoff' \in [taken : Nat, waited : Nat] /\ upsets' \in 0..MaxUpsets
    BY UpsetsAreBounded DEF Restart, FlagIInv
<1> QED
    BY <1>1, <1>2, MemoryStep

\* No instance takes part in these.
LEMMA OutsideSteps ==
    ASSUME FlagIInv, CooldownEnds \/ SqlEnables
    PROVE  FlagIInv'
<1>1. CASE CooldownEnds
    BY <1>1 DEF CooldownEnds, FlagIInv
<1>2. CASE SqlEnables
    <2>1. flag.version \in Nat /\ flag.version + 1 \in Nat
        BY DEF FlagIInv, FlagRow
    <2>2. flag' \in FlagRow /\ flag'.version = flag.version + 1
        BY <1>2, <2>1, FlagRows DEF SqlEnables
    <2>3. UNCHANGED <<node, switchoff>> /\ upsets' \in 0..MaxUpsets
        BY <1>2, UpsetsAreBounded DEF SqlEnables
    <2>4. \A i \in FlagInstances : NodeIsSound(node[i], flag'.version)
        BY <2>1, <2>2, Grows DEF FlagIInv
    <2> QED
        BY <2>2, <2>3, <2>4 DEF FlagIInv
<1> QED
    BY <1>1, <1>2

LEMMA FlagInitIInv == FlagInit => FlagIInv
<1> SUFFICES ASSUME FlagInit PROVE FlagIInv
    OBVIOUS
<1>1. Enabled(0) \in FlagRow /\ Enabled(0).version = 0
    BY FlagRows
<1>2. NodeIsSound(Started(Enabled(0)), 0)
    BY <1>1, StartedIsSound
<1>3. /\ flag \in FlagRow /\ flag.version = 0
      /\ switchoff \in [taken : Nat, waited : Nat] /\ upsets \in 0..MaxUpsets
    BY <1>1, FlagsAssumption DEF FlagInit
<1>4. node \in [FlagInstances -> NodeRecord] /\ \A i \in FlagInstances : NodeIsSound(node[i], 0)
    BY <1>2 DEF FlagInit, NodeIsSound
<1> QED
    BY <1>3, <1>4 DEF FlagIInv

LEMMA FlagNextIInv == FlagIInv /\ [FlagNext]_flagVars => FlagIInv'
<1> SUFFICES ASSUME FlagIInv, [FlagNext]_flagVars PROVE FlagIInv'
    OBVIOUS
<1>1. CASE UNCHANGED flagVars
    BY <1>1 DEF flagVars, FlagIInv
<1>2. CASE CooldownEnds \/ SqlEnables
    BY <1>2, OutsideSteps
<1>3. ASSUME NEW i \in FlagInstances, Serves(i) PROVE FlagIInv'
    BY <1>3, RequestSteps, AnswerSteps, WriteRunsStep, WriteEndsStep, WriteGivesUpStep, ReloadSteps
       DEF Serves, Answers, Writes, Reloads
<1>4. ASSUME NEW i \in FlagInstances, Upsets(i) PROVE FlagIInv'
    BY <1>4, AnswerSteps, RequestSteps, RestartStep, AdminStep, WriteFailsStep DEF Upsets
<1>5. ASSUME NEW i \in FlagInstances, FailureAges(i) PROVE FlagIInv'
    BY <1>5, RequestSteps
<1> QED
    BY <1>1, <1>2, <1>3, <1>4, <1>5 DEF FlagNext

-----------------------------------------------------------------------------
(* Results.                                                                *)

\* The invariant that the results rest on.
THEOREM FlagsInvariance == FlagSpec => []FlagIInv
BY FlagInitIInv, FlagNextIInv, PTL DEF FlagSpec

\* writeSeq: whatever reloads an instance has under way, and however late they
\* come back, none that still counts is older than the instance's last write.
THEOREM ReloadsAreNewer == FlagSpec => []FlagInv
<1>1. FlagIInv => FlagInv
    BY DEF FlagIInv, FlagInv, FlagTypeOK, ReloadIsNewer, NodeIsSound
<1> QED
    BY <1>1, FlagsInvariance, PTL

\* TRIP_SQL and the conditions of recover and rearm: no circuit of any instance,
\* however old what it believes, switches on or takes over a module that was
\* switched off by hand.
THEOREM ManualStaysOff == FlagSpec => ManualStays
<1> DEFINE Kept == ~flag.enabled /\ flag.reason = "MANUAL" /\ flag' # flag =>
                       SqlEnables \/ \E i \in FlagInstances : WriteRuns(i, "admin")
<1>1. FlagIInv /\ [FlagNext]_flagVars => [Kept]_flagVars
    <2> SUFFICES ASSUME FlagIInv, FlagNext, ~flag.enabled, flag.reason = "MANUAL", flag' # flag
                 PROVE  SqlEnables \/ \E i \in FlagInstances : WriteRuns(i, "admin")
        OBVIOUS
    <2>1. SqlEnables \/ \E i \in FlagInstances, k \in Writers : WriteRuns(i, k)
        <3>1. ASSUME NEW i \in FlagInstances, Answers(i) PROVE UNCHANGED flag
            BY <3>1 DEF Answers, Admit, RequestSucceeds, ProbeLapses
        <3>2. ASSUME NEW i \in FlagInstances, NEW k \in Writers, Writes(i, k) PROVE WriteRuns(i, k) \/ UNCHANGED flag
            BY <3>2 DEF Writes, WriteEnds, WriteMissed, WriteIsLost
        <3>3. ASSUME NEW i \in FlagInstances, NEW s \in ReloadSlots, Reloads(i, s) PROVE UNCHANGED flag
            BY <3>3 DEF Reloads, ReloadReads, ReloadApplies
        <3>4. ASSUME NEW i \in FlagInstances, Upsets(i) PROVE UNCHANGED flag
            <4>1. ASSUME ProbeFails(i) \/ RequestFails(i) PROVE UNCHANGED flag
                BY <4>1 DEF ProbeFails, RequestFails
            <4>2. ASSUME RequestIsRefused(i) \/ RequestHangs(i) \/ Restart(i) PROVE UNCHANGED flag
                BY <4>2 DEF RequestIsRefused, RequestHangs, Restart
            <4>3. ASSUME NEW op, AdminSets(i, op) PROVE UNCHANGED flag
                BY <4>3 DEF AdminSets
            <4>4. ASSUME NEW k, WriteFails(i, k) PROVE UNCHANGED flag
                BY <4>4 DEF WriteFails
            <4> QED
                BY <3>4, <4>1, <4>2, <4>3, <4>4 DEF Upsets
        <3>5. CooldownEnds \/ (\E i \in FlagInstances : FailureAges(i)) => UNCHANGED flag
            BY DEF CooldownEnds, FailureAges
        <3> QED
            BY <3>1, <3>2, <3>3, <3>4, <3>5 DEF FlagNext, Serves
    <2>2. ASSUME NEW i \in FlagInstances, WriteRuns(i, "circuit") PROVE FALSE
        <3>1. PICK w : w = node[i].write["circuit"]
            OBVIOUS
        <3>2. w.op \in {"trip", "recover", "rearm"}
            BY <2>2, <3>1, Facts DEF WriteRuns, NodeIsSound, Writers, OpsOf
        <3>3. ~Applies(w)
            BY <3>2 DEF Applies
        <3> QED
            BY <2>2, <3>1, <3>3 DEF WriteRuns
    <2> QED
        BY <2>1, <2>2 DEF Writers
<1> QED
    BY <1>1, FlagsInvariance, PTL DEF FlagSpec, ManualStays
=============================================================================
