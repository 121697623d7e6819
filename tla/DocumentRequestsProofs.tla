------------------------ MODULE DocumentRequestsProofs ------------------------
(***************************************************************************)
(* The queue of actas, for every number of requests, entities, generators  *)
(* and attempts: types, the files under the numbers, the limit of attempts *)
(* and the refinement of ActaLedger.                                       *)
(***************************************************************************)
EXTENDS DocumentRequests, FiniteSetTheorems, TLAPS

Numbered == {"numbered", "stored"}

\* The row of the sequence is held by whoever has a number, one generator at
\* most, and that number is the next one.
SequenceIsHeld ==
    /\ \A g \in Generators : g \in sequenceHolder <=> generator[g].pc \in Numbered
    /\ \A g, h \in sequenceHolder : g = h
    /\ \A g \in sequenceHolder : generator[g].number = counter + 1

\* A request that is being generated is queued, and in one generator only.
RequestIsLocked ==
    /\ \A g \in Generators : generator[g].pc \in Generating /\ generator[g].owner # Direct =>
                               docRequest[generator[g].owner].status \in Queued
    /\ \A g, h \in Generators :
         /\ generator[g].pc \in Generating
         /\ generator[h].pc \in Generating
         /\ generator[g].owner = generator[h].owner
         /\ generator[g].owner # Direct
         => g = h

\* A request that has an acta is GENERATED.
IssuedIsGenerated ==
    \A n \in 1..counter : issued[n].owner # Direct => docRequest[issued[n].owner].status = "GENERATED"

\* What a generator has stored is what it is about to issue.
StoredIsOwn == \A g \in Generators : generator[g].pc = "stored" => file[generator[g].number] = {generator[g].owner}

LockInv == SequenceIsHeld /\ RequestIsLocked

IInv == RequestTypeOK /\ LockInv /\ IssuedIsGenerated /\ StoredIsOwn /\ StoredIsIssued

USE RequestAssumption, TriesAssumption DEF Numbers, Owners, Queued, Generating, Numbered

-----------------------------------------------------------------------------
(* Initially.                                                              *)

LEMMA InitInv == RequestInit => IInv
<1> SUFFICES ASSUME RequestInit PROVE IInv
  OBVIOUS
<1> USE DEF RequestInit
<1>1. RequestTypeOK
  BY DEF RequestTypeOK, RequestRecord, ActaRecord, GeneratorRecord
<1>2. LockInv
  BY DEF LockInv, SequenceIsHeld, RequestIsLocked
<1>3. IssuedIsGenerated /\ StoredIsOwn /\ StoredIsIssued
  BY DEF IssuedIsGenerated, StoredIsOwn, StoredIsIssued
<1> QED
  BY <1>1, <1>2, <1>3 DEF IInv

-----------------------------------------------------------------------------
(* One generator moves to record j, and perhaps its request or its files   *)
(* change: what keeps the invariant.                                       *)

Moves(g, j) ==
    /\ j \in GeneratorRecord
    /\ generator' = [generator EXCEPT ![g] = j]
    /\ j.pc \in {"selected", "failing"} => j.owner # Direct
    /\ j.pc \notin Numbered => sequenceHolder' = sequenceHolder \ {g}
    /\ j.pc \in Numbered => /\ sequenceHolder \subseteq {g}
                            /\ sequenceHolder' = {g}
                            /\ j.number = counter + 1
    /\ j.pc \in Generating /\ j.owner # Direct =>
         /\ docRequest[j.owner].status \in Queued
         /\ \A h \in Generators \ {g} : ~LockedBy(h, j.owner)
    /\ j.pc = "stored" => file'[j.number] = {j.owner}

\* What the step may do to the requests and the files.
RequestsKept ==
    /\ docRequest' \in [DocRequests -> RequestRecord]
    /\ \A r \in DocRequests :
         /\ docRequest[r].status \in Queued => docRequest'[r].status \in Queued
         /\ docRequest[r].status \notin Queued => docRequest'[r] = docRequest[r]

FilesKept(g) ==
    /\ file' \in [Numbers -> SUBSET Owners]
    /\ \A n \in Numbers : file'[n] = file[n] \/ (g \in sequenceHolder /\ n = counter + 1)

LEMMA MovesInv ==
    ASSUME IInv, NEW g \in Generators, NEW j, Moves(g, j),
           issued' = issued, counter' = counter,
           RequestsKept, FilesKept(g),
           cancelling' \in SUBSET Entities, events' \in Nat
    PROVE  IInv'
<1>0. /\ generator' \in [Generators -> GeneratorRecord]
      /\ generator'[g] = j
      /\ \A h \in Generators \ {g} : generator'[h] = generator[h]
  BY DEF IInv, RequestTypeOK, Moves
<1>1. RequestTypeOK'
  <2>1. sequenceHolder' \in SUBSET Generators
    BY DEF IInv, RequestTypeOK, Moves
  <2> QED
    BY <1>0, <2>1 DEF IInv, RequestTypeOK, Moves, RequestsKept, FilesKept
<1>2. SequenceIsHeld'
  BY <1>0 DEF IInv, LockInv, SequenceIsHeld, Moves
<1>3. RequestIsLocked'
  <2>1. ASSUME NEW h \in Generators, generator'[h].pc \in Generating, generator'[h].owner # Direct
        PROVE  docRequest'[generator'[h].owner].status \in Queued
    <3>1. generator'[h].owner \in DocRequests
      BY <1>0, <2>1 DEF GeneratorRecord
    <3>2. docRequest[generator'[h].owner].status \in Queued
      BY <1>0, <2>1 DEF IInv, LockInv, RequestIsLocked, Moves
    <3> QED
      BY <3>1, <3>2 DEF RequestsKept
  <2>2. ASSUME NEW h \in Generators, NEW k \in Generators,
               generator'[h].pc \in Generating, generator'[k].pc \in Generating,
               generator'[h].owner = generator'[k].owner, generator'[h].owner # Direct
        PROVE  h = k
    BY <1>0, <2>2 DEF IInv, LockInv, RequestIsLocked, Moves, LockedBy
  <2> QED
    BY <2>1, <2>2 DEF RequestIsLocked
<1>4. IssuedIsGenerated'
  BY DEF IInv, IssuedIsGenerated, RequestTypeOK, ActaRecord, RequestsKept
<1>5. StoredIsOwn'
  <2>1. ASSUME NEW h \in Generators \ {g}, generator[h].pc = "stored"
        PROVE  file'[generator[h].number] = {generator[h].owner}
    <3>1. h \in sequenceHolder /\ g \notin sequenceHolder
      BY <2>1 DEF IInv, LockInv, SequenceIsHeld
    <3>2. generator[h].number \in Numbers
      BY <2>1, <3>1 DEF IInv, LockInv, SequenceIsHeld, RequestTypeOK, GeneratorRecord
    <3> QED
      BY <2>1, <3>1, <3>2 DEF IInv, StoredIsOwn, FilesKept
  <2> QED
    BY <1>0, <2>1 DEF StoredIsOwn, Moves
<1>6. StoredIsIssued'
  BY DEF IInv, StoredIsIssued, RequestTypeOK, FilesKept
<1> QED
  BY <1>1, <1>2, <1>3, <1>4, <1>5, <1>6 DEF IInv, LockInv

\* The usual case: neither the requests nor the files change.
LEMMA OnlyMoves ==
    ASSUME IInv, NEW g \in Generators, NEW j, Moves(g, j), UNCHANGED <<docRequest, issued, counter, file>>,
           cancelling' \in SUBSET Entities, events' \in Nat
    PROVE  IInv'
<1>1. RequestsKept /\ FilesKept(g)
  BY DEF IInv, RequestTypeOK, RequestsKept, FilesKept
<1>2. issued' = issued /\ counter' = counter
  OBVIOUS
<1> QED
  BY <1>1, <1>2, MovesInv

\* What a generator's record says when it has a number or not.
LEMMA Records ==
    ASSUME IInv, NEW g \in Generators
    PROVE  /\ generator[g] \in GeneratorRecord
           /\ generator[g].pc \notin Numbered => sequenceHolder \ {g} = sequenceHolder
           /\ generator[g].pc \in Numbered => sequenceHolder = {g} /\ generator[g].number = counter + 1
BY DEF IInv, RequestTypeOK, LockInv, SequenceIsHeld

-----------------------------------------------------------------------------
(* One lemma per group of operations.                                      *)

\* enqueue, retry: the request changes, no generator has it.
LEMMA QueueInv ==
    ASSUME IInv, NEW r \in DocRequests,
           RetryRequest(r) \/ \E e \in Entities : EnqueueActa(r, e)
    PROVE  IInv'
<1>0. PICK q \in RequestRecord :
        /\ docRequest' = [docRequest EXCEPT ![r] = q]
        /\ q.status = "PENDING"
        /\ docRequest[r].status \in {"NONE", "FAILED"}
        /\ UNCHANGED <<issued, counter, sequenceHolder, file, generator, cancelling>>
        /\ events' \in Nat
        /\ \A g \in Generators : generator[g].pc \in Generating => generator[g].owner # r
  <2>1. docRequest[r] \in RequestRecord
    BY DEF IInv, RequestTypeOK
  <2>2. CASE RetryRequest(r)
    <3> DEFINE q == [docRequest[r] EXCEPT !.status = "PENDING", !.attempts = 0]
    <3>1. q \in RequestRecord /\ q.status = "PENDING"
      BY <2>1 DEF RequestRecord
    <3>2. docRequest' = [docRequest EXCEPT ![r] = q]
      BY <2>2 DEF RetryRequest
    <3>3. events' \in Nat
      BY <2>2 DEF RetryRequest, IInv, RequestTypeOK
    <3> QED
      BY <2>2, <3>1, <3>2, <3>3 DEF RetryRequest, Locked, LockedBy
  <2>3. ASSUME NEW e \in Entities, EnqueueActa(r, e)
        PROVE  \E q \in RequestRecord :
                 /\ docRequest' = [docRequest EXCEPT ![r] = q]
                 /\ q.status = "PENDING"
                 /\ docRequest[r].status \in {"NONE", "FAILED"}
                 /\ UNCHANGED <<issued, counter, sequenceHolder, file, generator, cancelling>>
                 /\ events' \in Nat
                 /\ \A g \in Generators : generator[g].pc \in Generating => generator[g].owner # r
    <3> DEFINE q == [docRequest[r] EXCEPT !.status = "PENDING", !.entity = e]
    <3>1. q \in RequestRecord /\ q.status = "PENDING"
      BY <2>1 DEF RequestRecord
    <3>2. docRequest' = [docRequest EXCEPT ![r] = q]
      BY <2>3 DEF EnqueueActa
    <3>3. events' \in Nat
      BY <2>3 DEF EnqueueActa, IInv, RequestTypeOK
    <3>4. \A g \in Generators : generator[g].pc \in Generating => generator[g].owner # r
      BY <2>3 DEF EnqueueActa, IInv, LockInv, RequestIsLocked
    <3> QED
      BY <2>3, <3>1, <3>2, <3>3, <3>4 DEF EnqueueActa
  <2> QED
    BY <2>2, <2>3
<1>1. /\ docRequest' \in [DocRequests -> RequestRecord]
      /\ docRequest'[r].status = "PENDING"
      /\ \A p \in DocRequests \ {r} : docRequest'[p] = docRequest[p]
  BY <1>0 DEF IInv, RequestTypeOK
<1>2. RequestTypeOK'
  BY <1>0, <1>1 DEF IInv, RequestTypeOK
<1>3. SequenceIsHeld' /\ StoredIsOwn' /\ StoredIsIssued'
  BY <1>0 DEF IInv, LockInv, SequenceIsHeld, StoredIsOwn, StoredIsIssued
<1>4. RequestIsLocked'
  BY <1>0, <1>1 DEF IInv, LockInv, RequestIsLocked, RequestTypeOK, GeneratorRecord
<1>5. IssuedIsGenerated'
  BY <1>0, <1>1 DEF IInv, IssuedIsGenerated, RequestTypeOK, ActaRecord
<1> QED
  BY <1>2, <1>3, <1>4, <1>5 DEF IInv, LockInv

\* processPending up to the lock of the request, and a direct acta.
LEMMA TakeInv ==
    ASSUME IInv, NEW g \in Generators,
           \/ TakeRequest(g) \/ SkipRequest(g)
           \/ \E r \in DocRequests : SelectPending(g, r)
           \/ \E e \in Entities : StartDirect(g, e)
    PROVE  IInv'
<1>0. cancelling' \in SUBSET Entities /\ events' \in Nat /\ UNCHANGED <<docRequest, issued, counter, file, sequenceHolder>>
  <2>1. cancelling \in SUBSET Entities /\ events \in Nat /\ events + 1 \in Nat
    BY DEF IInv, RequestTypeOK
  <2>2. CASE TakeRequest(g) \/ SkipRequest(g) \/ \E r \in DocRequests : SelectPending(g, r)
    BY <2>1, <2>2 DEF TakeRequest, SkipRequest, SelectPending
  <2>3. CASE \E e \in Entities : StartDirect(g, e)
    BY <2>1, <2>3 DEF StartDirect
  <2> QED
    BY <2>2, <2>3
<1>1. /\ generator[g] \in GeneratorRecord
      /\ generator[g].pc \notin Numbered
      /\ sequenceHolder \ {g} = sequenceHolder
  BY Records DEF TakeRequest, SkipRequest, SelectPending, StartDirect
<1>2. CASE TakeRequest(g)
  <2> DEFINE r == generator[g].owner
             j == [generator[g] EXCEPT !.pc = "generate", !.entity = docRequest[r].entity]
  <2>1. r \in DocRequests /\ docRequest[r].entity \in Entities
    BY <1>2 DEF TakeRequest, IInv, RequestTypeOK, GeneratorRecord, RequestRecord
  <2>2. j \in GeneratorRecord /\ j.pc = "generate" /\ j.owner = r
    BY <1>1, <2>1 DEF GeneratorRecord
  <2>3. generator' = [generator EXCEPT ![g] = j]
    BY <1>2 DEF TakeRequest
  <2> HIDE DEF j
  <2>4. Moves(g, j)
    BY <1>0, <1>1, <1>2, <2>2, <2>3 DEF Moves, TakeRequest, Locked
  <2> QED
    BY <1>0, <2>4, OnlyMoves
<1>3. CASE SkipRequest(g)
  <2> DEFINE j == [generator[g] EXCEPT !.pc = "idle", !.owner = Direct]
  <2>1. j \in GeneratorRecord /\ j.pc = "idle"
    BY <1>1 DEF GeneratorRecord
  <2>2. generator' = [generator EXCEPT ![g] = j]
    BY <1>3 DEF SkipRequest
  <2> HIDE DEF j
  <2>3. Moves(g, j)
    BY <1>0, <1>1, <2>1, <2>2 DEF Moves
  <2> QED
    BY <1>0, <2>3, OnlyMoves
<1>4. ASSUME NEW r \in DocRequests, SelectPending(g, r) PROVE IInv'
  <2> DEFINE j == [generator[g] EXCEPT !.pc = "selected", !.owner = r]
  <2>1. j \in GeneratorRecord /\ j.pc = "selected" /\ j.owner = r
    BY <1>1 DEF GeneratorRecord
  <2>2. generator' = [generator EXCEPT ![g] = j]
    BY <1>4 DEF SelectPending
  <2> HIDE DEF j
  <2>3. Moves(g, j)
    BY <1>0, <1>1, <2>1, <2>2 DEF Moves
  <2> QED
    BY <1>0, <2>3, OnlyMoves
<1>5. ASSUME NEW e \in Entities, StartDirect(g, e) PROVE IInv'
  <2> DEFINE j == [generator[g] EXCEPT !.pc = "generate", !.owner = Direct, !.entity = e]
  <2>1. j \in GeneratorRecord /\ j.pc = "generate" /\ j.owner = Direct
    BY <1>1 DEF GeneratorRecord
  <2>2. generator' = [generator EXCEPT ![g] = j]
    BY <1>5 DEF StartDirect
  <2> HIDE DEF j
  <2>3. Moves(g, j)
    BY <1>0, <1>1, <2>1, <2>2 DEF Moves
  <2> QED
    BY <1>0, <2>3, OnlyMoves
<1> QED
  BY <1>2, <1>3, <1>4, <1>5

\* The failure is recorded.
LEMMA FailInv ==
    ASSUME IInv, NEW g \in Generators, MarkFailed(g)
    PROVE  IInv'
<1> DEFINE r == generator[g].owner
           j == [generator[g] EXCEPT !.pc = "idle", !.owner = Direct]
           q == [docRequest[r] EXCEPT !.status = "FAILED", !.attempts = @ + 1]
<1>1. generator[g] \in GeneratorRecord /\ r \in DocRequests /\ docRequest[r] \in RequestRecord
  BY DEF MarkFailed, IInv, RequestTypeOK, GeneratorRecord
<1>2. j \in GeneratorRecord /\ j.pc = "idle"
  BY <1>1 DEF GeneratorRecord
<1>3. q \in RequestRecord /\ q.status = "FAILED"
  <2>1. docRequest[r].attempts + 1 \in Nat
    BY <1>1 DEF RequestRecord
  <2> QED
    BY <1>1, <2>1 DEF RequestRecord
<1>4. generator' = [generator EXCEPT ![g] = j]
  BY DEF MarkFailed
<1>5. (docRequest' = [docRequest EXCEPT ![r] = q] /\ docRequest[r].status \in Queued) \/ docRequest' = docRequest
  BY DEF MarkFailed, StillQueued
<1> HIDE DEF j, q
<1>6. sequenceHolder \ {g} = sequenceHolder
  BY Records DEF MarkFailed
<1>7. Moves(g, j)
  BY <1>2, <1>4, <1>6 DEF Moves, MarkFailed
<1>8. RequestsKept
  <2>1. docRequest \in [DocRequests -> RequestRecord]
    BY DEF IInv, RequestTypeOK
  <2> QED
    BY <1>1, <1>3, <1>5, <2>1 DEF RequestsKept
<1>9. issued' = issued /\ counter' = counter /\ file' = file /\ cancelling' = cancelling /\ events' = events
  BY DEF MarkFailed
<1>10. FilesKept(g) /\ cancelling \in SUBSET Entities /\ events \in Nat
  BY <1>9 DEF IInv, RequestTypeOK, FilesKept
<1> QED
  BY <1>7, <1>8, <1>9, <1>10, MovesInv

\* reserve and the files.
LEMMA StoreInv ==
    ASSUME IInv, NEW g \in Generators, Reserve(g) \/ StoreFiles(g)
    PROVE  IInv'
<1>0. generator[g] \in GeneratorRecord
  BY Records
<1>00. generator[g].owner # Direct /\ generator[g].pc \in Generating =>
         /\ docRequest[generator[g].owner].status \in Queued
         /\ \A h \in Generators \ {g} : ~LockedBy(h, generator[g].owner)
  BY DEF IInv, LockInv, RequestIsLocked, LockedBy
<1>1. CASE Reserve(g)
  <2> DEFINE j == [generator[g] EXCEPT !.pc = "numbered", !.number = counter + 1]
  <2>1. counter + 1 \in 0..MaxNumber
    BY <1>1 DEF Reserve, IInv, RequestTypeOK
  <2>2. j \in GeneratorRecord /\ j.pc = "numbered" /\ j.number = counter + 1 /\ j.owner = generator[g].owner
    BY <1>0, <2>1 DEF GeneratorRecord
  <2>3. generator' = [generator EXCEPT ![g] = j]
    BY <1>1 DEF Reserve
  <2> HIDE DEF j
  <2>4. Moves(g, j)
    BY <1>00, <1>1, <2>2, <2>3 DEF Moves, Reserve
  <2> QED
    BY <1>1, <2>4, OnlyMoves DEF Reserve, IInv, RequestTypeOK
<1>2. CASE StoreFiles(g)
  <2> DEFINE n == generator[g].number
             j == [generator[g] EXCEPT !.pc = "stored"]
  <2>1. sequenceHolder = {g} /\ n = counter + 1
    BY <1>2, Records DEF StoreFiles
  <2>2. n \in Numbers /\ generator[g].owner \in Owners
    BY <1>0, <2>1 DEF IInv, RequestTypeOK, GeneratorRecord
  <2>3. j \in GeneratorRecord /\ j.pc = "stored" /\ j.number = n /\ j.owner = generator[g].owner
    BY <1>0 DEF GeneratorRecord
  <2>4. generator' = [generator EXCEPT ![g] = j]
    BY <1>2 DEF StoreFiles
  <2>5. /\ file' \in [Numbers -> SUBSET Owners]
        /\ file'[n] = {generator[g].owner}
        /\ \A k \in Numbers : file'[k] = file[k] \/ k = n
    BY <1>2, <2>2 DEF StoreFiles, IInv, RequestTypeOK
  <2>6. /\ docRequest' = docRequest /\ issued' = issued /\ counter' = counter
        /\ sequenceHolder' = sequenceHolder /\ cancelling' = cancelling /\ events' = events
    BY <1>2 DEF StoreFiles
  <2>7. generator[g].pc \in Generating
    BY <1>2 DEF StoreFiles
  <2> HIDE DEF j, n
  <2>8. Moves(g, j)
    BY <1>00, <2>1, <2>3, <2>4, <2>5, <2>6, <2>7 DEF Moves
  <2>9. RequestsKept /\ cancelling \in SUBSET Entities /\ events \in Nat
    BY <2>6 DEF IInv, RequestTypeOK, RequestsKept
  <2>10. FilesKept(g)
    BY <2>1, <2>5 DEF FilesKept
  <2> QED
    BY <2>6, <2>8, <2>9, <2>10, MovesInv
<1> QED
  BY <1>1, <1>2

\* What the commit of a generation does.
LEMMA CommitFacts ==
    ASSUME IInv, NEW g \in Generators, CommitGeneration(g), NEW r, r = generator[g].owner
    PROVE  /\ sequenceHolder = {g} /\ r \in Owners
           /\ counter \in Nat /\ counter + 1 \in Numbers /\ counter' = counter + 1
           /\ r # Direct => docRequest[r].status \in Queued /\ \A h \in Generators \ {g} : ~LockedBy(h, r)
           /\ file[counter + 1] = {r}
           /\ issued' \in [Numbers -> ActaRecord] /\ issued'[counter + 1].owner = r
           /\ \A k \in 1..counter : issued'[k] = issued[k]
           /\ docRequest' \in [DocRequests -> RequestRecord]
           /\ r # Direct => docRequest'[r].status = "GENERATED"
           /\ \A q \in DocRequests \ {r} : docRequest'[q] = docRequest[q]
<1> DEFINE n == generator[g].number
           a == [status |-> "PENDING_SIGNATURE", owner |-> r, entity |-> generator[g].entity]
           done(q) == [docRequest[q] EXCEPT !.status = "GENERATED", !.acta = n, !.attempts = @ + 1]
<1>0. generator[g].pc = "stored" /\ counter' = n
  BY DEF CommitGeneration
<1>1. generator[g] \in GeneratorRecord /\ sequenceHolder = {g} /\ n = counter + 1
  BY <1>0, Records
<1>2. counter \in Nat /\ counter \in 0..MaxNumber
  BY DEF IInv, RequestTypeOK
<1>3. n \in Numbers /\ r \in Owners /\ generator[g].entity \in Entities
  BY <1>1, <1>2 DEF GeneratorRecord
<1>4. file[n] = {r}
  BY <1>0 DEF IInv, StoredIsOwn
<1>5. r # Direct => docRequest[r].status \in Queued /\ \A h \in Generators \ {g} : ~LockedBy(h, r)
  BY <1>0 DEF IInv, LockInv, RequestIsLocked, LockedBy
<1>6. a \in ActaRecord /\ a.owner = r
  BY <1>3 DEF ActaRecord
<1>7. issued' = [issued EXCEPT ![n] = a]
  BY DEF CommitGeneration
<1>8. \A q \in DocRequests : done(q) \in RequestRecord /\ done(q).status = "GENERATED"
  <2>1. TAKE q \in DocRequests
  <2>2. docRequest[q] \in RequestRecord
    BY DEF IInv, RequestTypeOK
  <2>3. docRequest[q].attempts + 1 \in Nat /\ n \in 0..MaxNumber
    BY <1>3, <2>2 DEF RequestRecord
  <2> QED
    BY <2>2, <2>3 DEF RequestRecord
<1>9. docRequest' = [q \in DocRequests |-> IF q = r THEN done(q) ELSE docRequest[q]]
  BY DEF CommitGeneration
<1>10. docRequest \in [DocRequests -> RequestRecord] /\ issued \in [Numbers -> ActaRecord]
  BY DEF IInv, RequestTypeOK
<1> HIDE DEF a, done
<1>11. /\ docRequest' \in [DocRequests -> RequestRecord]
       /\ r # Direct => docRequest'[r].status = "GENERATED"
       /\ \A q \in DocRequests \ {r} : docRequest'[q] = docRequest[q]
  BY <1>3, <1>8, <1>9, <1>10
<1>12. /\ issued' \in [Numbers -> ActaRecord] /\ issued'[n].owner = r
       /\ \A k \in Numbers \ {n} : issued'[k] = issued[k]
  BY <1>3, <1>6, <1>7, <1>10
<1>13. 1..counter \subseteq Numbers \ {n}
  BY <1>1, <1>2
<1> QED
  BY <1>0, <1>1, <1>2, <1>3, <1>4, <1>5, <1>11, <1>12, <1>13

LEMMA CommitInv ==
    ASSUME IInv, NEW g \in Generators, CommitGeneration(g)
    PROVE  IInv'
<1> DEFINE r == generator[g].owner
           j == [generator[g] EXCEPT !.pc = "idle", !.owner = Direct, !.number = 0]
<1>1. /\ sequenceHolder = {g} /\ r \in Owners
      /\ counter \in Nat /\ counter + 1 \in Numbers /\ counter' = counter + 1
      /\ r # Direct => docRequest[r].status \in Queued /\ \A h \in Generators \ {g} : ~LockedBy(h, r)
      /\ file[counter + 1] = {r}
      /\ issued' \in [Numbers -> ActaRecord] /\ issued'[counter + 1].owner = r
      /\ \A k \in 1..counter : issued'[k] = issued[k]
  BY CommitFacts
<1>2. /\ docRequest' \in [DocRequests -> RequestRecord]
      /\ r # Direct => docRequest'[r].status = "GENERATED"
      /\ \A q \in DocRequests \ {r} : docRequest'[q] = docRequest[q]
  BY CommitFacts
<1>3. j \in GeneratorRecord /\ j.pc = "idle"
  <2>1. generator[g] \in GeneratorRecord /\ 0 \in 0..MaxNumber
    BY Records
  <2> QED
    BY <2>1 DEF GeneratorRecord
<1>4. generator' = [generator EXCEPT ![g] = j]
  BY DEF CommitGeneration
<1>5. sequenceHolder' = {} /\ UNCHANGED <<file, cancelling, events>>
  BY DEF CommitGeneration
<1> HIDE DEF j
<1>6. /\ generator' \in [Generators -> GeneratorRecord]
      /\ generator'[g].pc = "idle"
      /\ \A h \in Generators \ {g} : generator'[h] = generator[h]
  BY <1>3, <1>4 DEF IInv, RequestTypeOK
<1>7. RequestTypeOK'
  BY <1>1, <1>2, <1>5, <1>6 DEF IInv, RequestTypeOK
<1>8. SequenceIsHeld'
  BY <1>1, <1>5, <1>6 DEF IInv, LockInv, SequenceIsHeld
<1>9. RequestIsLocked'
  <2>1. ASSUME NEW h \in Generators, generator'[h].pc \in Generating, generator'[h].owner # Direct
        PROVE  h # g /\ generator[h].owner \in DocRequests \ {r} /\ docRequest[generator[h].owner].status \in Queued
    <3>1. h # g /\ generator'[h] = generator[h]
      BY <1>6, <2>1
    <3>2. generator[h].owner # r
      BY <1>1, <2>1, <3>1 DEF LockedBy
    <3> QED
      BY <2>1, <3>1, <3>2 DEF IInv, LockInv, RequestIsLocked, RequestTypeOK, GeneratorRecord
  <2> QED
    BY <1>2, <1>6, <2>1 DEF IInv, LockInv, RequestIsLocked
<1>10. IssuedIsGenerated'
  <2>1. ASSUME NEW k \in 1..counter, issued[k].owner # Direct
        PROVE  docRequest'[issued[k].owner].status = "GENERATED"
    <3>1. issued[k].owner \in DocRequests /\ docRequest[issued[k].owner].status = "GENERATED"
      BY <1>1, <2>1 DEF IInv, IssuedIsGenerated, RequestTypeOK, ActaRecord
    <3> QED
      BY <1>1, <1>2, <3>1
  <2>2. \A k \in 1..(counter + 1) : k = counter + 1 \/ k \in 1..counter
    BY <1>1
  <2> QED
    BY <1>1, <1>2, <2>1, <2>2 DEF IssuedIsGenerated
<1>11. StoredIsOwn'
  BY <1>5, <1>6 DEF IInv, StoredIsOwn
<1>12. StoredIsIssued'
  BY <1>1, <1>5 DEF IInv, StoredIsIssued
<1> QED
  BY <1>7, <1>8, <1>9, <1>10, <1>11, <1>12 DEF IInv, LockInv

\* A transaction that is rolled back, by an error, a deadlock or a death.
LEMMA RollBackInv ==
    ASSUME IInv, NEW g \in Generators,
           UNCHANGED <<docRequest, issued, counter, file>>,
           cancelling' \in SUBSET Entities, events' \in Nat,
           \/ RollBack(g)
           \/ /\ sequenceHolder' = sequenceHolder \ {g}
              /\ generator' = [generator EXCEPT ![g] = [@ EXCEPT !.pc = "idle", !.owner = Direct, !.number = 0]]
    PROVE  IInv'
<1>1. generator[g] \in GeneratorRecord /\ 0 \in 0..MaxNumber
  BY Records
<1>2. \E j : Moves(g, j)
  <2>1. CASE RollBack(g) /\ generator[g].owner # Direct
    <3> DEFINE j == [generator[g] EXCEPT !.pc = "failing", !.number = 0]
    <3>1. j \in GeneratorRecord /\ j.pc = "failing" /\ j.owner # Direct
      BY <1>1, <2>1 DEF GeneratorRecord
    <3>2. generator' = [generator EXCEPT ![g] = j] /\ sequenceHolder' = sequenceHolder \ {g}
      BY <2>1 DEF RollBack
    <3> HIDE DEF j
    <3> QED
      BY <3>1, <3>2 DEF Moves
  <2>2. CASE RollBack(g) /\ generator[g].owner = Direct
    <3> DEFINE j == [generator[g] EXCEPT !.pc = "idle", !.number = 0]
    <3>1. j \in GeneratorRecord /\ j.pc = "idle"
      BY <1>1 DEF GeneratorRecord
    <3>2. generator' = [generator EXCEPT ![g] = j] /\ sequenceHolder' = sequenceHolder \ {g}
      BY <2>2 DEF RollBack
    <3> HIDE DEF j
    <3> QED
      BY <3>1, <3>2 DEF Moves
  <2>3. CASE ~RollBack(g)
    <3> DEFINE j == [generator[g] EXCEPT !.pc = "idle", !.owner = Direct, !.number = 0]
    <3>1. j \in GeneratorRecord /\ j.pc = "idle"
      BY <1>1 DEF GeneratorRecord
    <3>2. generator' = [generator EXCEPT ![g] = j] /\ sequenceHolder' = sequenceHolder \ {g}
      BY <2>3
    <3> HIDE DEF j
    <3> QED
      BY <3>1, <3>2 DEF Moves
  <2> QED
    BY <2>1, <2>2, <2>3
<1> QED
  BY <1>2, OnlyMoves

\* Cancellations and signatures leave the generators alone.
LEMMA CancelInv ==
    ASSUME IInv,
           \/ \E e \in Entities : StartCancel(e) \/ VoidForEntity(e) \/ CancelRefused(e)
           \/ \E n \in Numbers, status \in {"SIGNED", "REJECTED"} : ActaSettles(n, status)
    PROVE  IInv'
<1>1. /\ UNCHANGED <<counter, sequenceHolder, file, generator, events>>
      /\ cancelling' \in SUBSET Entities
  BY DEF IInv, RequestTypeOK, StartCancel, VoidForEntity, CancelRefused, ActaSettles
<1>2. /\ docRequest' \in [DocRequests -> RequestRecord]
      /\ \A r \in DocRequests : docRequest'[r] # docRequest[r] => docRequest[r].status \in Queued /\ ~Locked(r)
  <2>1. ASSUME NEW e \in Entities, VoidForEntity(e)
        PROVE  /\ docRequest' \in [DocRequests -> RequestRecord]
               /\ \A r \in DocRequests : docRequest'[r] # docRequest[r] => docRequest[r].status \in Queued /\ ~Locked(r)
    <3>1. \A r \in DocRequests : [docRequest[r] EXCEPT !.status = "CANCELLED"] \in RequestRecord
      <4>1. TAKE r \in DocRequests
      <4>2. docRequest[r] \in RequestRecord
        BY DEF IInv, RequestTypeOK
      <4> QED
        BY <4>2 DEF RequestRecord
    <3> QED
      BY <2>1, <3>1 DEF VoidForEntity, RequestsOf, IInv, RequestTypeOK
  <2>2. CASE UNCHANGED docRequest
    BY <2>2 DEF IInv, RequestTypeOK
  <2> QED
    BY <2>1, <2>2 DEF StartCancel, CancelRefused, ActaSettles
<1>3. /\ issued' \in [Numbers -> ActaRecord]
      /\ \A n \in Numbers : issued'[n].owner = issued[n].owner
  <2>1. ASSUME NEW n \in Numbers, NEW status \in {"SIGNED", "REJECTED", "VOIDED"}
        PROVE  /\ [issued[n] EXCEPT !.status = status] \in ActaRecord
               /\ [issued[n] EXCEPT !.status = status].owner = issued[n].owner
    <3>1. issued[n] \in ActaRecord
      BY DEF IInv, RequestTypeOK
    <3> QED
      BY <3>1 DEF ActaRecord
  <2>2. ASSUME NEW e \in Entities, VoidForEntity(e)
        PROVE  issued' \in [Numbers -> ActaRecord] /\ \A n \in Numbers : issued'[n].owner = issued[n].owner
    BY <2>1, <2>2 DEF VoidForEntity, IInv, RequestTypeOK
  <2>3. ASSUME NEW n \in Numbers, NEW status \in {"SIGNED", "REJECTED"}, ActaSettles(n, status)
        PROVE  issued' \in [Numbers -> ActaRecord] /\ \A k \in Numbers : issued'[k].owner = issued[k].owner
    <3>1. issued' = [issued EXCEPT ![n] = [issued[n] EXCEPT !.status = status]]
      BY <2>3 DEF ActaSettles
    <3> QED
      BY <2>1, <3>1 DEF IInv, RequestTypeOK
  <2>4. CASE UNCHANGED issued
    BY <2>4 DEF IInv, RequestTypeOK
  <2> QED
    BY <2>2, <2>3, <2>4 DEF StartCancel, CancelRefused
<1>4. RequestTypeOK'
  BY <1>1, <1>2, <1>3 DEF IInv, RequestTypeOK
<1>5. SequenceIsHeld' /\ StoredIsOwn'
  BY <1>1 DEF IInv, LockInv, SequenceIsHeld, StoredIsOwn
<1>6. RequestIsLocked'
  BY <1>1, <1>2 DEF IInv, LockInv, RequestIsLocked, Locked, LockedBy, RequestTypeOK, GeneratorRecord
<1>7. IssuedIsGenerated'
  <2>1. ASSUME NEW n \in 1..counter, issued[n].owner # Direct
        PROVE  docRequest'[issued[n].owner].status = "GENERATED" /\ n \in Numbers
    <3>1. n \in Numbers /\ issued[n].owner \in DocRequests /\ docRequest[issued[n].owner].status = "GENERATED"
      BY <2>1 DEF IInv, IssuedIsGenerated, RequestTypeOK, ActaRecord
    <3> QED
      BY <1>2, <3>1
  <2>2. 1..counter \subseteq Numbers
    BY DEF IInv, RequestTypeOK
  <2> QED
    BY <1>1, <1>3, <2>1, <2>2 DEF IssuedIsGenerated
<1>8. StoredIsIssued'
  <2>1. 1..counter \subseteq Numbers
    BY DEF IInv, RequestTypeOK
  <2> QED
    BY <1>1, <1>3, <2>1 DEF IInv, StoredIsIssued
<1> QED
  BY <1>4, <1>5, <1>6, <1>7, <1>8 DEF IInv, LockInv

LEMMA StepInv == IInv /\ [RequestNext]_requestVars => IInv'
<1> SUFFICES ASSUME IInv, [RequestNext]_requestVars PROVE IInv'
  OBVIOUS
<1>1. CASE \E r \in DocRequests : RetryRequest(r) \/ \E e \in Entities : EnqueueActa(r, e)
  BY <1>1, QueueInv
<1>2. ASSUME NEW g \in Generators,
             \/ TakeRequest(g) \/ SkipRequest(g) \/ MarkFailed(g)
             \/ \E r \in DocRequests : SelectPending(g, r)
             \/ \E e \in Entities : StartDirect(g, e)
      PROVE  IInv'
  BY <1>2, TakeInv, FailInv
<1>3. ASSUME NEW g \in Generators, Reserve(g) \/ StoreFiles(g) PROVE IInv'
  BY <1>3, StoreInv
<1>4. ASSUME NEW g \in Generators, CommitGeneration(g) PROVE IInv'
  BY <1>4, CommitInv
<1>5. ASSUME NEW g \in Generators, GenerationFails(g) PROVE IInv'
  <2>1. cancelling \in SUBSET Entities /\ events \in Nat
    BY DEF IInv, RequestTypeOK
  <2> QED
    BY <1>5, <2>1, RollBackInv DEF GenerationFails
<1>6. ASSUME NEW g \in Generators, GeneratorDies(g) PROVE IInv'
  <2>1. cancelling \in SUBSET Entities /\ events \in Nat /\ events + 1 \in Nat
    BY DEF IInv, RequestTypeOK
  <2> QED
    BY <1>6, <2>1, RollBackInv DEF GeneratorDies
<1>7. ASSUME NEW g \in Generators, NEW h \in Generators, NEW e \in Entities, DeadlockDetected(h, g, e)
      PROVE  IInv'
  <2>1. cancelling' \in SUBSET Entities /\ events' \in Nat
    BY <1>7 DEF DeadlockDetected, RollBack, IInv, RequestTypeOK
  <2>2. CASE RollBack(h)
    BY <1>7, <2>1, <2>2, RollBackInv DEF DeadlockDetected
  <2>3. CASE RollBack(g)
    BY <1>7, <2>1, <2>3, RollBackInv DEF DeadlockDetected
  <2>4. CASE UNCHANGED <<docRequest, issued, counter, sequenceHolder, file, generator, events>>
    BY <2>1, <2>4 DEF IInv, RequestTypeOK, LockInv, SequenceIsHeld, RequestIsLocked, IssuedIsGenerated,
                      StoredIsOwn, StoredIsIssued
  <2> QED
    BY <1>7, <2>2, <2>3, <2>4 DEF DeadlockDetected
<1>8. CASE \/ \E e \in Entities : StartCancel(e) \/ VoidForEntity(e) \/ CancelRefused(e)
           \/ \E n \in Numbers, status \in {"SIGNED", "REJECTED"} : ActaSettles(n, status)
  BY <1>8, CancelInv
<1>9. CASE UNCHANGED requestVars
  BY <1>9 DEF requestVars, IInv, RequestTypeOK, LockInv, SequenceIsHeld, RequestIsLocked, IssuedIsGenerated,
              StoredIsOwn, StoredIsIssued
<1> QED
  BY <1>1, <1>2, <1>3, <1>4, <1>5, <1>6, <1>7, <1>8, <1>9 DEF RequestNext

LEMMA Invariant == RequestSpec => []IInv
BY InitInv, StepInv, PTL DEF RequestSpec

\* Every variable keeps its type; a direct acta, which no request stands for,
\* never counts as a request that failed.
THEOREM RequestTypeCorrect == RequestSpec => []RequestTypeOK
BY Invariant, PTL DEF IInv

\* generateWithin: the file under an issued number is that acta's own.
THEOREM FilesAreOwn == RequestSpec => []StoredIsIssued
BY Invariant, PTL DEF IInv

-----------------------------------------------------------------------------
(* The ledger.                                                             *)

LEMMA LedgerStarts == RequestInit => Ledger!LedgerInit
BY DEF RequestInit, Ledger!LedgerInit

LEMMA LedgerSteps == IInv /\ IInv' /\ [RequestNext]_requestVars => [Ledger!LedgerNext]_Ledger!ledgerVars
<1> SUFFICES ASSUME IInv, IInv', [RequestNext]_requestVars PROVE [Ledger!LedgerNext]_Ledger!ledgerVars
  OBVIOUS
<1> USE DEF IInv
<1> DEFINE owner == [n \in 1..counter |-> issued[n].owner]
           asked == {r \in DocRequests : docRequest[r].status # "NONE"}
           withdrawn == {r \in DocRequests : docRequest[r].status = "CANCELLED"}
<1>1. ASSUME NEW r \in DocRequests, NEW e \in Entities, EnqueueActa(r, e) PROVE Ledger!Ask(r)
  <2>1. r \notin asked /\ asked' = asked \cup {r} /\ withdrawn' = withdrawn
    BY <1>1 DEF EnqueueActa, RequestTypeOK
  <2>2. counter' = counter /\ owner' = owner
    BY <1>1 DEF EnqueueActa
  <2> QED
    BY <2>1, <2>2 DEF Ledger!Ask
<1>2. ASSUME NEW g \in Generators, NEW r \in DocRequests \cup {Direct}, r = generator[g].owner, CommitGeneration(g)
      PROVE  Ledger!Enter(r)
  <2>0. /\ r \in Owners
        /\ counter \in Nat /\ counter + 1 \in Numbers /\ counter' = counter + 1
        /\ r # Direct => docRequest[r].status \in Queued
        /\ issued'[counter + 1].owner = r
        /\ \A k \in 1..counter : issued'[k] = issued[k]
        /\ r # Direct => docRequest'[r].status = "GENERATED"
        /\ \A q \in DocRequests \ {r} : docRequest'[q] = docRequest[q]
    BY <1>2, CommitFacts
  <2>1. r # Direct => r \in asked \ withdrawn
    BY <2>0
  <2>2. ASSUME r # Direct, NEW n \in 1..counter PROVE owner[n] # r
    BY <2>0, <2>2 DEF IInv, IssuedIsGenerated
  <2>4. owner' = [n \in 1..(counter + 1) |-> IF n = counter + 1 THEN r ELSE owner[n]]
    BY <2>0
  <2>5. asked' = asked /\ withdrawn' = withdrawn
    BY <2>0
  <2> QED
    BY <2>0, <2>1, <2>2, <2>4, <2>5 DEF Ledger!Enter
<1>3. ASSUME NEW e \in Entities, NEW S \in SUBSET DocRequests, S = RequestsOf(e), VoidForEntity(e)
      PROVE  Ledger!Withdraw(S)
  <2>1. S \subseteq asked /\ asked' = asked /\ withdrawn' = withdrawn \cup S
    BY <1>3 DEF VoidForEntity, RequestsOf, RequestTypeOK
  <2>2. \A n \in 1..counter : owner[n] \notin S
    BY <1>3 DEF RequestsOf, RequestTypeOK, IssuedIsGenerated
  <2>3. counter' = counter /\ owner' = owner
    BY <1>3 DEF VoidForEntity, RequestTypeOK
  <2> QED
    BY <2>1, <2>2, <2>3 DEF Ledger!Withdraw
<1>4. ASSUME counter' = counter, owner' = owner, asked' = asked, withdrawn' = withdrawn
      PROVE  UNCHANGED Ledger!ledgerVars
  BY <1>4 DEF Ledger!ledgerVars
<1>5. ASSUME UNCHANGED <<docRequest, counter, issued>> PROVE UNCHANGED Ledger!ledgerVars
  BY <1>4, <1>5
<1>6. ASSUME NEW r \in DocRequests, RetryRequest(r) PROVE UNCHANGED Ledger!ledgerVars
  <2>1. asked' = asked /\ withdrawn' = withdrawn
    BY <1>6 DEF RetryRequest, RequestTypeOK
  <2>2. counter' = counter /\ owner' = owner
    BY <1>6 DEF RetryRequest
  <2> QED
    BY <1>4, <2>1, <2>2
<1>7. ASSUME NEW g \in Generators, MarkFailed(g) PROVE UNCHANGED Ledger!ledgerVars
  <2>1. asked' = asked /\ withdrawn' = withdrawn
    BY <1>7 DEF MarkFailed, StillQueued, RequestTypeOK
  <2>2. counter' = counter /\ owner' = owner
    BY <1>7 DEF MarkFailed
  <2> QED
    BY <1>4, <2>1, <2>2
<1>8. ASSUME NEW n \in Numbers, NEW status \in {"SIGNED", "REJECTED"}, ActaSettles(n, status)
      PROVE  UNCHANGED Ledger!ledgerVars
  <2>1. asked' = asked /\ withdrawn' = withdrawn /\ counter' = counter
    BY <1>8 DEF ActaSettles
  <2>2. owner' = owner
    BY <1>8 DEF ActaSettles, RequestTypeOK
  <2> QED
    BY <1>4, <2>1, <2>2
<1> HIDE DEF owner, asked, withdrawn
<1>9. ASSUME NEW g \in Generators,
             \/ TakeRequest(g) \/ SkipRequest(g) \/ Reserve(g) \/ StoreFiles(g) \/ GenerationFails(g)
             \/ GeneratorDies(g)
             \/ \E r \in DocRequests : SelectPending(g, r)
             \/ \E e \in Entities : StartDirect(g, e) \/ \E h \in Generators : DeadlockDetected(h, g, e)
      PROVE  UNCHANGED Ledger!ledgerVars
  BY <1>5, <1>9 DEF TakeRequest, SkipRequest, Reserve, StoreFiles, GenerationFails, GeneratorDies, SelectPending,
                    StartDirect, DeadlockDetected
<1>10. ASSUME NEW e \in Entities, StartCancel(e) \/ CancelRefused(e) PROVE UNCHANGED Ledger!ledgerVars
  BY <1>5, <1>10 DEF StartCancel, CancelRefused
<1>11. CASE UNCHANGED requestVars
  BY <1>5, <1>11 DEF requestVars
<1>12. \A g \in Generators : generator[g].owner \in DocRequests \cup {Direct}
  BY DEF RequestTypeOK, GeneratorRecord
<1>13. \A e \in Entities : RequestsOf(e) \in SUBSET DocRequests
  BY DEF RequestsOf
<1>14. \/ \E r \in DocRequests : RetryRequest(r) \/ \E e \in Entities : EnqueueActa(r, e)
       \/ \E g \in Generators :
            \/ CommitGeneration(g) \/ MarkFailed(g)
            \/ \/ TakeRequest(g) \/ SkipRequest(g) \/ Reserve(g) \/ StoreFiles(g) \/ GenerationFails(g)
               \/ GeneratorDies(g)
               \/ \E r \in DocRequests : SelectPending(g, r)
               \/ \E e \in Entities : StartDirect(g, e) \/ \E h \in Generators : DeadlockDetected(h, g, e)
       \/ \E e \in Entities : VoidForEntity(e) \/ StartCancel(e) \/ CancelRefused(e)
       \/ \E n \in Numbers, status \in {"SIGNED", "REJECTED"} : ActaSettles(n, status)
       \/ UNCHANGED requestVars
  BY DEF RequestNext
<1>15. ASSUME NEW g \in Generators, CommitGeneration(g) PROVE Ledger!LedgerNext
  BY <1>2, <1>12, <1>15 DEF Ledger!LedgerNext
<1>16. ASSUME NEW e \in Entities, VoidForEntity(e) PROVE Ledger!LedgerNext
  BY <1>3, <1>13, <1>16 DEF Ledger!LedgerNext
<1>17. ASSUME NEW r \in DocRequests, NEW e \in Entities, EnqueueActa(r, e) PROVE Ledger!LedgerNext
  BY <1>1, <1>17 DEF Ledger!LedgerNext
<1> QED
  BY <1>6, <1>7, <1>8, <1>9, <1>10, <1>11, <1>14, <1>15, <1>16, <1>17

\* processPending, generate, retry and voidForEntity, interleaved in any way,
\* number the actas as ActaLedger does: no gap, one acta per request, none
\* after its cancellation.
THEOREM LedgerRefined == RequestSpec => LedgerIsKept
BY Invariant, LedgerStarts, LedgerSteps, PTL DEF RequestSpec, LedgerIsKept, Ledger!LedgerSpec

-----------------------------------------------------------------------------
(* The attempts.                                                           *)

\* The generators that have selected a request and are not through with it.
Working(r) == {g \in Generators : generator[g].owner = r}

\* A request that was never tried has no attempts, and every generator that
\* works on one may still add an attempt to it.
TriesLeft ==
    \A r \in DocRequests :
        /\ docRequest[r].status \in {"NONE", "PENDING"} => docRequest[r].attempts = 0
        /\ docRequest[r].attempts + Cardinality(Working(r)) < MaxTries + Cardinality(Generators)

TriesInv == IInv /\ TriesLeft

\* What a step may do to the attempts of a request: nothing, with no new
\* generator at work; one more, with one generator less; or few attempts.
Spends(r) ==
    /\ docRequest'[r].status \in {"NONE", "PENDING"} => docRequest'[r].attempts = 0
    /\ \/ /\ docRequest'[r].attempts = docRequest[r].attempts
          /\ \A g \in Generators : generator'[g].owner = r => generator[g].owner = r
       \/ /\ docRequest'[r].attempts = docRequest[r].attempts + 1
          /\ \E g \in Generators :
               /\ generator[g].owner = r
               /\ generator'[g].owner # r
               /\ \A h \in Generators : generator'[h].owner = r => generator[h].owner = r
       \/ docRequest'[r].attempts < MaxTries

LEMMA WorkingIsFinite ==
    ASSUME NEW r
    PROVE  /\ IsFiniteSet(Working(r)) /\ Cardinality(Working(r)) \in Nat
           /\ Cardinality(Generators) \in Nat /\ Cardinality(Working(r)) <= Cardinality(Generators)
<1>1. Working(r) \subseteq Generators
  BY DEF Working
<1>2. IsFiniteSet(Working(r)) /\ Cardinality(Working(r)) <= Cardinality(Generators)
  BY <1>1, GeneratorsAssumption, FS_Subset
<1> QED
  BY <1>2, GeneratorsAssumption, FS_CardinalityType

LEMMA SpendingIsLimited ==
    ASSUME TriesInv, IInv', \A r \in DocRequests : Spends(r)
    PROVE  TriesInv'
<1> SUFFICES ASSUME NEW r \in DocRequests
             PROVE  docRequest'[r].attempts + Cardinality(Working(r)') < MaxTries + Cardinality(Generators)
  BY DEF TriesInv, TriesLeft, Spends
<1> DEFINE W == Working(r)
           V == Working(r)'
<1>1. /\ IsFiniteSet(W) /\ Cardinality(W) \in Nat
      /\ Cardinality(Generators) \in Nat /\ Cardinality(W) <= Cardinality(Generators)
  BY WorkingIsFinite
<1>2. V \subseteq Generators /\ W \subseteq Generators
  BY DEF Working
<1>3. Cardinality(V) \in Nat /\ Cardinality(V) <= Cardinality(Generators)
  <2>1. IsFiniteSet(V) /\ Cardinality(V) <= Cardinality(Generators)
    BY <1>2, GeneratorsAssumption, FS_Subset
  <2> QED
    BY <2>1, FS_CardinalityType
<1>4. docRequest[r].attempts \in Nat /\ docRequest'[r].attempts \in Nat
  BY DEF TriesInv, IInv, RequestTypeOK, RequestRecord
<1>5. docRequest[r].attempts + Cardinality(W) < MaxTries + Cardinality(Generators)
  BY DEF TriesInv, TriesLeft
<1>6. CASE docRequest'[r].attempts = docRequest[r].attempts /\ V \subseteq W
  <2>1. Cardinality(V) <= Cardinality(W)
    BY <1>1, <1>6, FS_Subset
  <2> HIDE DEF V, W
  <2> QED
    BY <1>1, <1>3, <1>4, <1>5, <1>6, <2>1 DEF V
<1>7. CASE docRequest'[r].attempts = docRequest[r].attempts + 1 /\ \E g \in W : V \subseteq W \ {g}
  <2>1. PICK g \in W : V \subseteq W \ {g}
    BY <1>7
  <2>2. IsFiniteSet(W \ {g}) /\ Cardinality(W \ {g}) = Cardinality(W) - 1
    BY <1>1, <2>1, FS_RemoveElement
  <2>3. Cardinality(V) <= Cardinality(W \ {g})
    BY <2>1, <2>2, FS_Subset
  <2> HIDE DEF V, W
  <2> QED
    BY <1>1, <1>3, <1>4, <1>5, <1>7, <2>2, <2>3 DEF V
<1>8. CASE docRequest'[r].attempts < MaxTries
  <2> HIDE DEF V, W
  <2> QED
    BY <1>1, <1>3, <1>4, <1>8 DEF V
<1>9. Spends(r)
  OBVIOUS
<1>10. \/ docRequest'[r].attempts = docRequest[r].attempts /\ V \subseteq W
       \/ docRequest'[r].attempts = docRequest[r].attempts + 1 /\ \E g \in W : V \subseteq W \ {g}
       \/ docRequest'[r].attempts < MaxTries
  BY <1>9 DEF Spends, Working
<1> QED
  BY <1>6, <1>7, <1>8, <1>10

\* A step that leaves the requests alone and gives nobody a request.
LEMMA NothingSpent ==
    ASSUME TriesInv, docRequest' = docRequest,
           \A g \in Generators : generator'[g].owner \in {generator[g].owner, Direct}
    PROVE  \A r \in DocRequests : Spends(r)
BY DEF TriesInv, TriesLeft, Spends

LEMMA StepSpends ==
    ASSUME TriesInv, RequestNext
    PROVE  \A r \in DocRequests : Spends(r)
<1>0. /\ docRequest \in [DocRequests -> RequestRecord]
      /\ generator \in [Generators -> GeneratorRecord]
      /\ \A r \in DocRequests : docRequest[r].status \in {"NONE", "PENDING"} => docRequest[r].attempts = 0
  BY DEF TriesInv, IInv, RequestTypeOK, TriesLeft
<1>1. ASSUME NEW q \in DocRequests, NEW e \in Entities, EnqueueActa(q, e) \/ RetryRequest(q)
      PROVE  \A r \in DocRequests : Spends(r)
  <2>1. /\ generator' = generator
        /\ docRequest'[q].attempts = 0
        /\ \A r \in DocRequests \ {q} : docRequest'[r] = docRequest[r]
    <3>1. CASE EnqueueActa(q, e)
      BY <1>0, <3>1 DEF EnqueueActa, RequestRecord
    <3>2. CASE RetryRequest(q)
      BY <1>0, <3>2 DEF RetryRequest, RequestRecord
    <3> QED
      BY <1>1, <3>1, <3>2
  <2> QED
    BY <1>0, <2>1 DEF Spends
<1>2. ASSUME NEW g \in Generators, NEW q \in DocRequests, SelectPending(g, q)
      PROVE  \A r \in DocRequests : Spends(r)
  <2>1. docRequest' = docRequest /\ docRequest[q].attempts < MaxTries
    BY <1>0, <1>2 DEF SelectPending
  <2>2. \A h \in Generators : generator'[h].owner \in {generator[h].owner, q}
    BY <1>0, <1>2 DEF SelectPending, GeneratorRecord
  <2> QED
    BY <1>0, <2>1, <2>2 DEF Spends
<1>3. ASSUME NEW g \in Generators, CommitGeneration(g) PROVE \A r \in DocRequests : Spends(r)
  <2> DEFINE q == generator[g].owner
  <2>1. /\ generator'[g].owner = Direct
        /\ \A h \in Generators \ {g} : generator'[h].owner = generator[h].owner
    BY <1>0, <1>3 DEF CommitGeneration, GeneratorRecord
  <2>2. \A r \in DocRequests \ {q} : docRequest'[r] = docRequest[r]
    BY <1>3 DEF CommitGeneration
  <2>3. ASSUME q \in DocRequests
        PROVE  docRequest'[q].status = "GENERATED" /\ docRequest'[q].attempts = docRequest[q].attempts + 1
    <3>1. docRequest'[q] = [docRequest[q] EXCEPT !.status = "GENERATED", !.acta = generator[g].number, !.attempts = @ + 1]
      BY <1>3, <2>3 DEF CommitGeneration
    <3>2. docRequest[q] \in RequestRecord
      BY <1>0, <2>3
    <3> QED
      BY <3>1, <3>2 DEF RequestRecord
  <2> QED
    BY <1>0, <2>1, <2>2, <2>3 DEF Spends
<1>4. ASSUME NEW g \in Generators, MarkFailed(g) PROVE \A r \in DocRequests : Spends(r)
  <2> DEFINE q == generator[g].owner
             d == [docRequest[q] EXCEPT !.status = "FAILED", !.attempts = @ + 1]
  <2>1. /\ generator'[g].owner = Direct
        /\ \A h \in Generators \ {g} : generator'[h].owner = generator[h].owner
    BY <1>0, <1>4 DEF MarkFailed, GeneratorRecord
  <2>2. q \in DocRequests /\ docRequest[q] \in RequestRecord
    BY <1>0, <1>4 DEF MarkFailed, TriesInv, IInv, RequestTypeOK, GeneratorRecord
  <2>3. docRequest' = [docRequest EXCEPT ![q] = d] \/ docRequest' = docRequest
    BY <1>4 DEF MarkFailed
  <2>4. d.status = "FAILED" /\ d.attempts = docRequest[q].attempts + 1
    BY <2>2 DEF RequestRecord
  <2> HIDE DEF d, q
  <2>5. CASE docRequest' = docRequest
    BY <2>1, <2>5, NothingSpent
  <2>6. CASE docRequest' = [docRequest EXCEPT ![q] = d]
    <3>1. docRequest'[q] = d /\ \A r \in DocRequests \ {q} : docRequest'[r] = docRequest[r]
      BY <1>0, <2>2, <2>6
    <3>2. q = generator[g].owner
      BY DEF q
    <3> QED
      BY <1>0, <2>1, <2>2, <2>4, <3>1, <3>2 DEF Spends
  <2> QED
    BY <2>3, <2>5, <2>6
<1>5. ASSUME NEW g \in Generators, RollBack(g)
      PROVE  \A h \in Generators : generator'[h].owner \in {generator[h].owner, Direct}
  BY <1>0, <1>5 DEF RollBack, GeneratorRecord
<1>6. ASSUME NEW g \in Generators,
             \/ TakeRequest(g) \/ SkipRequest(g) \/ Reserve(g) \/ StoreFiles(g)
             \/ GeneratorDies(g)
             \/ \E e \in Entities : StartDirect(g, e)
      PROVE  docRequest' = docRequest /\ \A h \in Generators : generator'[h].owner \in {generator[h].owner, Direct}
  <2>1. CASE TakeRequest(g) \/ SkipRequest(g)
    BY <1>0, <2>1 DEF TakeRequest, SkipRequest, GeneratorRecord
  <2>2. CASE Reserve(g) \/ StoreFiles(g)
    BY <1>0, <2>2 DEF Reserve, StoreFiles, GeneratorRecord
  <2>3. CASE GeneratorDies(g) \/ \E e \in Entities : StartDirect(g, e)
    BY <1>0, <2>3 DEF GeneratorDies, StartDirect, GeneratorRecord
  <2> QED
    BY <1>6, <2>1, <2>2, <2>3
<1>7. ASSUME NEW g \in Generators,
             GenerationFails(g) \/ \E e \in Entities, h \in Generators : DeadlockDetected(h, g, e)
      PROVE  docRequest' = docRequest /\ \A h \in Generators : generator'[h].owner \in {generator[h].owner, Direct}
  BY <1>5, <1>7 DEF GenerationFails, DeadlockDetected
<1>8. ASSUME NEW e \in Entities, VoidForEntity(e) PROVE \A r \in DocRequests : Spends(r)
  <2>1. generator' = generator
    BY <1>8 DEF VoidForEntity
  <2>2. ASSUME NEW r \in DocRequests
        PROVE  /\ docRequest'[r].attempts = docRequest[r].attempts
               /\ docRequest'[r].status \in {docRequest[r].status, "CANCELLED"}
    <3>1. docRequest[r] \in RequestRecord
      BY <1>0
    <3>2. docRequest'[r] \in {docRequest[r], [docRequest[r] EXCEPT !.status = "CANCELLED"]}
      BY <1>8 DEF VoidForEntity
    <3> QED
      BY <3>1, <3>2 DEF RequestRecord
  <2> QED
    BY <1>0, <2>1, <2>2 DEF Spends
<1>9. CASE \/ \E e \in Entities : StartCancel(e) \/ CancelRefused(e)
           \/ \E n \in Numbers, status \in {"SIGNED", "REJECTED"} : ActaSettles(n, status)
  <2>1. docRequest' = docRequest /\ generator' = generator
    BY <1>9 DEF StartCancel, CancelRefused, ActaSettles
  <2> QED
    BY <2>1, NothingSpent
<1>10. ASSUME NEW g \in Generators,
              docRequest' = docRequest /\ \A h \in Generators : generator'[h].owner \in {generator[h].owner, Direct}
       PROVE  \A r \in DocRequests : Spends(r)
  BY <1>10, NothingSpent
<1>11. ASSUME NEW q \in DocRequests, RetryRequest(q) PROVE \A r \in DocRequests : Spends(r)
  <2>1. docRequest[q].entity \in Entities
    BY <1>0 DEF RequestRecord
  <2> QED
    BY <1>1, <1>11, <2>1
<1> QED
  BY <1>1, <1>2, <1>3, <1>4, <1>6, <1>7, <1>8, <1>9, <1>10, <1>11 DEF RequestNext

LEMMA TriesStep == TriesInv /\ [RequestNext]_requestVars => TriesInv'
<1>1. ASSUME TriesInv, RequestNext PROVE TriesInv'
  <2>1. IInv'
    BY <1>1, StepInv DEF TriesInv
  <2>2. \A r \in DocRequests : Spends(r)
    BY <1>1, StepSpends
  <2> QED
    BY <1>1, <2>1, <2>2, SpendingIsLimited
<1>2. ASSUME TriesInv, UNCHANGED requestVars PROVE TriesInv'
  <2>1. IInv'
    BY <1>2, StepInv DEF TriesInv
  <2>2. docRequest' = docRequest /\ generator' = generator
    BY <1>2 DEF requestVars
  <2> QED
    BY <1>2, <2>1, <2>2 DEF TriesInv, TriesLeft, Working
<1> QED
  BY <1>1, <1>2

LEMMA TriesInit == RequestInit => TriesInv
<1> SUFFICES ASSUME RequestInit PROVE TriesInv
  OBVIOUS
<1>1. ASSUME NEW r \in DocRequests
      PROVE  /\ docRequest[r].attempts = 0
             /\ docRequest[r].attempts + Cardinality(Working(r)) < MaxTries + Cardinality(Generators)
  <2>1. docRequest[r].attempts = 0
    BY DEF RequestInit
  <2>2. Cardinality(Working(r)) \in Nat /\ Cardinality(Generators) \in Nat /\ Cardinality(Working(r)) <= Cardinality(Generators)
    BY WorkingIsFinite
  <2> QED
    BY <2>1, <2>2
<1> QED
  BY <1>1, InitInv DEF TriesInv, TriesLeft

LEMMA TriesBound == TriesInv => TriesAreLimited
<1> SUFFICES ASSUME TriesInv, NEW r \in DocRequests
             PROVE  docRequest[r].attempts < MaxTries + Cardinality(Generators)
  BY DEF TriesAreLimited
<1>1. docRequest[r].attempts \in Nat
  BY DEF TriesInv, IInv, RequestTypeOK, RequestRecord
<1>2. Cardinality(Working(r)) \in Nat /\ Cardinality(Generators) \in Nat
  BY WorkingIsFinite
<1>3. docRequest[r].attempts + Cardinality(Working(r)) < MaxTries + Cardinality(Generators)
  BY DEF TriesInv, TriesLeft
<1> QED
  BY <1>1, <1>2, <1>3

\* processPending: a request is tried more often than the limit by at most the
\* generators that had selected it before the limit was reached.
THEOREM TriesLimited == RequestSpec => []TriesAreLimited
BY TriesInit, TriesStep, TriesBound, PTL DEF RequestSpec
=============================================================================
