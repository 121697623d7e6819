--------------------------- MODULE DocumentRequests ---------------------------
(***************************************************************************)
(* The queue of actas to generate and their numbers, for one format and    *)
(* period: DocumentEngineService.enqueue, processPending, generate,        *)
(* generateWithin, reserve and voidForEntity, and DocumentListService      *)
(* .retry.  A generator is a run of the minute job in some instance, or a  *)
(* user's direct request; its transaction locks the request, later the     *)
(* row of the sequence, and at the end (onGenerated) the row of the        *)
(* process the acta belongs to, and holds them until it commits, fails or  *)
(* dies.  A cancellation locks that process row first and the requests     *)
(* afterwards, so the two can wait for each other; PostgreSQL then aborts  *)
(* one of them.  An acta is named by its number.                           *)
(***************************************************************************)
EXTENDS Naturals, FiniteSets

CONSTANTS
    DocRequests,
    Entities,      \* the processes (loans, transfers, ...) that ask for actas
    Generators,
    Direct,        \* in place of a request: none, the acta is generated directly
    MaxTries,      \* attempts after which a FAILED request is left alone (5)
    MaxNumber,     \* bound: numbers the sequence may reach
    MaxEvents      \* bound: generators that die, retries and direct actas, together

ASSUME RequestAssumption == Direct \notin DocRequests
ASSUME GeneratorsAssumption == IsFiniteSet(Generators)
ASSUME TriesAssumption == MaxTries \in Nat \ {0} /\ MaxNumber \in Nat /\ MaxEvents \in Nat

VARIABLES
    docRequest,    \* document_request
    issued,        \* document, by number
    counter,       \* document_sequence.current_value, as committed
    sequenceHolder,\* the generator whose transaction has the row of the sequence
    file,          \* what is stored under the key of a number
    generator,     \* how far each generator is
    cancelling,    \* the entities whose cancellation has their process row
    events         \* how many deaths, retries and direct actas there were

requestVars == <<docRequest, issued, counter, sequenceHolder, file, generator, cancelling, events>>

Queued == {"PENDING", "FAILED"}
Numbers == 1..MaxNumber
Owners == DocRequests \cup {Direct}

\* The steps of a generator that hold the locks of its transaction.
Generating == {"generate", "numbered", "stored"}

RequestRecord == [status : {"NONE", "PENDING", "FAILED", "GENERATED", "CANCELLED"}, attempts : Nat,
                  entity : Entities, acta : 0..MaxNumber]
ActaRecord == [status : {"NONE", "PENDING_SIGNATURE", "SIGNED", "REJECTED", "VOIDED"}, owner : Owners,
               entity : Entities]
GeneratorRecord == [pc : {"idle", "selected", "failing"} \cup Generating, owner : Owners, entity : Entities,
                    number : 0..MaxNumber]

\* Types; a generator that selected a request or records a failure has one.
RequestTypeOK ==
    /\ docRequest \in [DocRequests -> RequestRecord]
    /\ issued \in [Numbers -> ActaRecord]
    /\ counter \in 0..MaxNumber
    /\ sequenceHolder \in SUBSET Generators
    /\ file \in [Numbers -> SUBSET Owners]
    /\ generator \in [Generators -> GeneratorRecord]
    /\ \A g \in Generators : generator[g].pc \in {"selected", "failing"} => generator[g].owner # Direct
    /\ cancelling \in SUBSET Entities
    /\ events \in Nat

RequestInit ==
    /\ \E e \in Entities :
         /\ docRequest = [r \in DocRequests |-> [status |-> "NONE", attempts |-> 0, entity |-> e, acta |-> 0]]
         /\ issued = [n \in Numbers |-> [status |-> "NONE", owner |-> Direct, entity |-> e]]
         /\ generator = [g \in Generators |-> [pc |-> "idle", owner |-> Direct, entity |-> e, number |-> 0]]
    /\ counter = 0
    /\ sequenceHolder = {}
    /\ file = [n \in Numbers |-> {}]
    /\ cancelling = {}
    /\ events = 0

LockedBy(g, r) == generator[g].pc \in Generating /\ generator[g].owner = r
Locked(r) == \E g \in Generators : LockedBy(g, r)

-----------------------------------------------------------------------------
(* The queue.                                                              *)

\* enqueue runs in the transaction of the process that asks for the acta.
EnqueueActa(r, e) ==
    /\ docRequest[r].status = "NONE"
    /\ e \notin cancelling
    /\ docRequest' = [docRequest EXCEPT ![r].status = "PENDING", ![r].entity = e]
    /\ UNCHANGED <<issued, counter, sequenceHolder, file, generator, cancelling, events>>

\* Mutation: the attempts are not looked at.
SelectQueued(g, r) ==
    /\ generator[g].pc = "idle"
    /\ docRequest[r].status \in Queued
    /\ generator' = [generator EXCEPT ![g].pc = "selected", ![g].owner = r]
    /\ UNCHANGED <<docRequest, issued, counter, sequenceHolder, file, cancelling, events>>

\* Mutation: failed requests are not selected again.
SelectPendingOnly(g, r) ==
    /\ generator[g].pc = "idle"
    /\ docRequest[r].status = "PENDING"
    /\ generator' = [generator EXCEPT ![g].pc = "selected", ![g].owner = r]
    /\ UNCHANGED <<docRequest, issued, counter, sequenceHolder, file, cancelling, events>>

\* processPending selects the due requests without locking them; of the list
\* it works through, one request at a time matters ...
SelectPending(g, r) ==
    /\ generator[g].pc = "idle"
    /\ \/ docRequest[r].status = "PENDING"
       \/ docRequest[r].status = "FAILED" /\ docRequest[r].attempts < MaxTries
    /\ generator' = [generator EXCEPT ![g].pc = "selected", ![g].owner = r]
    /\ UNCHANGED <<docRequest, issued, counter, sequenceHolder, file, cancelling, events>>

\* ... and takes it in a transaction of its own, ...
TakeRequest(g) ==
    LET r == generator[g].owner
    IN  /\ generator[g].pc = "selected"
        /\ docRequest[r].status \in Queued
        /\ ~Locked(r)
        /\ generator' = [generator EXCEPT ![g].pc = "generate", ![g].entity = docRequest[r].entity]
        /\ UNCHANGED <<docRequest, issued, counter, sequenceHolder, file, cancelling, events>>

\* ... unless it is locked or no longer queued.
SkipRequest(g) ==
    LET r == generator[g].owner
    IN  /\ generator[g].pc = "selected"
        /\ docRequest[r].status \notin Queued \/ Locked(r)
        /\ generator' = [generator EXCEPT ![g].pc = "idle", ![g].owner = Direct]
        /\ UNCHANGED <<docRequest, issued, counter, sequenceHolder, file, cancelling, events>>

\* generate: a user asks for an acta outside the queue.
StartDirect(g, e) ==
    /\ generator[g].pc = "idle"
    /\ events < MaxEvents
    /\ events' = events + 1
    /\ generator' = [generator EXCEPT ![g] = [@ EXCEPT !.pc = "generate", !.owner = Direct, !.entity = e]]
    /\ UNCHANGED <<docRequest, issued, counter, sequenceHolder, file, cancelling>>

-----------------------------------------------------------------------------
(* generateWithin.                                                         *)

\* Mutation: reserve does not wait for the row of the sequence.
ReserveUnlocked(g) ==
    /\ generator[g].pc = "generate"
    /\ counter < MaxNumber
    /\ sequenceHolder' = {g}
    /\ generator' = [generator EXCEPT ![g].pc = "numbered", ![g].number = counter + 1]
    /\ UNCHANGED <<docRequest, issued, counter, file, cancelling, events>>

\* reserve waits for the row of the sequence and keeps it to the end.
Reserve(g) ==
    /\ generator[g].pc = "generate"
    /\ sequenceHolder = {}
    /\ counter < MaxNumber
    /\ sequenceHolder' = {g}
    /\ generator' = [generator EXCEPT ![g].pc = "numbered", ![g].number = counter + 1]
    /\ UNCHANGED <<docRequest, issued, counter, file, cancelling, events>>

\* The files are stored, outside any transaction, under a key made of the number.
StoreFiles(g) ==
    /\ generator[g].pc = "numbered"
    /\ file' = [file EXCEPT ![generator[g].number] = {generator[g].owner}]
    /\ generator' = [generator EXCEPT ![g].pc = "stored"]
    /\ UNCHANGED <<docRequest, issued, counter, sequenceHolder, cancelling, events>>

\* The acta is inserted, onGenerated has had its process row, the request is
\* GENERATED: everything is committed together.
CommitGeneration(g) ==
    LET r == generator[g].owner
        n == generator[g].number
    IN  /\ generator[g].pc = "stored"
        /\ generator[g].entity \notin cancelling
        /\ issued' = [issued EXCEPT ![n] = [status |-> "PENDING_SIGNATURE", owner |-> r, entity |-> generator[g].entity]]
        /\ docRequest' = [q \in DocRequests |->
              IF q = r THEN [docRequest[q] EXCEPT !.status = "GENERATED", !.acta = n, !.attempts = @ + 1]
                       ELSE docRequest[q]]
        /\ counter' = n
        /\ sequenceHolder' = {}
        /\ generator' = [generator EXCEPT ![g].pc = "idle", ![g].owner = Direct, ![g].number = 0]
        /\ UNCHANGED <<file, cancelling, events>>

\* Mutation: an acta generated directly fails like a request.
RollBackAll(g) ==
    /\ generator[g].pc \in Generating
    /\ sequenceHolder' = sequenceHolder \ {g}
    /\ generator' = [generator EXCEPT ![g] = [@ EXCEPT !.pc = "failing", !.number = 0]]

\* An error anywhere rolls the transaction back: locks and number are returned,
\* files that were stored stay.
RollBack(g) ==
    /\ generator[g].pc \in Generating
    /\ sequenceHolder' = sequenceHolder \ {g}
    /\ generator' = [generator EXCEPT ![g] =
          IF generator[g].owner = Direct THEN [@ EXCEPT !.pc = "idle", !.number = 0]
                                         ELSE [@ EXCEPT !.pc = "failing", !.number = 0]]

GenerationFails(g) ==
    /\ RollBack(g)
    /\ UNCHANGED <<docRequest, issued, counter, file, cancelling, events>>

\* Mutation: the failure is recorded whatever the request has become.
StillAnything(r) == TRUE

\* The failure is recorded outside the transaction, if the request is still
\* queued by then.
StillQueued(r) == docRequest[r].status \in Queued

MarkFailed(g) ==
    LET r == generator[g].owner
    IN  /\ generator[g].pc = "failing"
        /\ ~Locked(r)
        /\ docRequest' = IF StillQueued(r)
                         THEN [docRequest EXCEPT ![r].status = "FAILED",
                                                 ![r].attempts = @ + 1]
                         ELSE docRequest
        /\ generator' = [generator EXCEPT ![g].pc = "idle", ![g].owner = Direct]
        /\ UNCHANGED <<issued, counter, sequenceHolder, file, cancelling, events>>

\* The process of the generator dies; the database rolls its transaction back.
GeneratorDies(g) ==
    /\ generator[g].pc # "idle"
    /\ events < MaxEvents
    /\ events' = events + 1
    /\ sequenceHolder' = sequenceHolder \ {g}
    /\ generator' = [generator EXCEPT ![g] = [@ EXCEPT !.pc = "idle", !.owner = Direct, !.number = 0]]
    /\ UNCHANGED <<docRequest, issued, counter, file, cancelling>>

\* DocumentListService.retry
RetryRequest(r) ==
    /\ docRequest[r].status = "FAILED"
    /\ docRequest[r].acta = 0
    /\ ~Locked(r)
    /\ events < MaxEvents
    /\ events' = events + 1
    /\ docRequest' = [docRequest EXCEPT ![r].status = "PENDING", ![r].attempts = 0]
    /\ UNCHANGED <<issued, counter, sequenceHolder, file, generator, cancelling>>

-----------------------------------------------------------------------------
(* Cancellations and signatures.                                           *)

RequestsOf(e) == {r \in DocRequests : docRequest[r].status \in Queued /\ docRequest[r].entity = e}

\* The process that is cancelled locks its own row ...
StartCancel(e) ==
    /\ e \notin cancelling
    /\ (RequestsOf(e) # {} \/ \E n \in Numbers : issued[n].status = "PENDING_SIGNATURE" /\ issued[n].entity = e)
    /\ cancelling' = cancelling \cup {e}
    /\ UNCHANGED <<docRequest, issued, counter, sequenceHolder, file, generator, events>>

\* ... and voidForEntity cancels what is queued and voids what is pending.
VoidForEntity(e) ==
    /\ e \in cancelling
    /\ \A r \in RequestsOf(e) : ~Locked(r)
    /\ \A n \in Numbers : issued[n].entity = e => issued[n].status # "SIGNED"
    /\ docRequest' = [r \in DocRequests |->
          IF r \in RequestsOf(e) THEN [docRequest[r] EXCEPT !.status = "CANCELLED"] ELSE docRequest[r]]
    /\ issued' = [n \in Numbers |-> IF issued[n].status = "PENDING_SIGNATURE" /\ issued[n].entity = e
                                    THEN [issued[n] EXCEPT !.status = "VOIDED"] ELSE issued[n]]
    /\ cancelling' = cancelling \ {e}
    /\ UNCHANGED <<counter, sequenceHolder, file, generator, events>>

\* A signed acta cannot be voided: the cancellation is refused.
CancelRefused(e) ==
    /\ e \in cancelling
    /\ \A r \in RequestsOf(e) : ~Locked(r)
    /\ \E n \in Numbers : issued[n].entity = e /\ issued[n].status = "SIGNED"
    /\ cancelling' = cancelling \ {e}
    /\ UNCHANGED <<docRequest, issued, counter, sequenceHolder, file, generator, events>>

\* The wait-for graph: a cancellation waits for a generation that has one of
\* its requests, a generation for the one that has the sequence, and that one
\* for the cancellation that has its process row.
WaitCycle(h, g, e) ==
    /\ e \in cancelling
    /\ generator[h].pc = "stored"
    /\ generator[h].entity = e
    /\ \E r \in RequestsOf(e) : LockedBy(g, r)
    /\ g = h \/ generator[g].pc = "generate"

\* PostgreSQL finds the cycle and aborts one of its members.
DeadlockDetected(h, g, e) ==
    /\ WaitCycle(h, g, e)
    /\ \/ RollBack(h) /\ UNCHANGED cancelling
       \/ RollBack(g) /\ UNCHANGED cancelling
       \/ cancelling' = cancelling \ {e} /\ UNCHANGED <<sequenceHolder, generator>>
    /\ UNCHANGED <<docRequest, issued, counter, file, events>>

\* syncSignatures closes the acta.
ActaSettles(n, status) ==
    /\ issued[n].status = "PENDING_SIGNATURE"
    /\ issued[n].entity \notin cancelling
    /\ issued' = [issued EXCEPT ![n].status = status]
    /\ UNCHANGED <<docRequest, counter, sequenceHolder, file, generator, cancelling, events>>

RequestNext ==
    \/ \E r \in DocRequests : RetryRequest(r) \/ \E e \in Entities : EnqueueActa(r, e)
    \/ \E g \in Generators :
         \/ TakeRequest(g) \/ SkipRequest(g) \/ Reserve(g) \/ StoreFiles(g) \/ CommitGeneration(g)
         \/ GenerationFails(g) \/ MarkFailed(g) \/ GeneratorDies(g)
         \/ \E r \in DocRequests : SelectPending(g, r)
         \/ \E e \in Entities : StartDirect(g, e) \/ \E h \in Generators : DeadlockDetected(h, g, e)
    \/ \E e \in Entities : StartCancel(e) \/ VoidForEntity(e) \/ CancelRefused(e)
    \/ \E n \in Numbers, status \in {"SIGNED", "REJECTED"} : ActaSettles(n, status)

RequestSpec == RequestInit /\ [][RequestNext]_requestVars

\* What a generator that lives does next; each of its steps excludes the others.
GeneratorStep(g) ==
    TakeRequest(g) \/ SkipRequest(g) \/ Reserve(g) \/ StoreFiles(g) \/ CommitGeneration(g) \/ MarkFailed(g)

\* The job runs every minute and takes the requests in order, a generator that
\* lives goes on, a lock that is waited for is granted in turn (hence strong
\* fairness for what waits), and the database finds its deadlocks.
RequestFairness ==
    /\ \A r \in DocRequests : SF_requestVars(\E g \in Generators : SelectPending(g, r))
    /\ \A g \in Generators : SF_requestVars(GeneratorStep(g))
    /\ WF_requestVars(\E g, h \in Generators, e \in Entities : DeadlockDetected(h, g, e))
    /\ \A e \in Entities : SF_requestVars(VoidForEntity(e) \/ CancelRefused(e))

FairRequestSpec == RequestSpec /\ RequestFairness

-----------------------------------------------------------------------------
(* Properties.                                                             *)

\* The numbering and the queue implement the ledger of ActaLedger: numbers
\* without gaps, one entry per request, nothing entered after its cancellation.
Ledger == INSTANCE ActaLedger WITH
    count <- counter,
    owner <- [n \in 1..counter |-> issued[n].owner],
    asked <- {r \in DocRequests : docRequest[r].status # "NONE"},
    withdrawn <- {r \in DocRequests : docRequest[r].status = "CANCELLED"}

\* processPending, generate, voidForEntity and retry, interleaved, implement
\* the ledger.
LedgerIsKept == Ledger!LedgerSpec

\* generateWithin stores the files under the number before it commits: the
\* file under the key of an issued acta is that acta's own, whichever
\* generation was rolled back after it had stored its files.
StoredIsIssued == \A n \in 1..counter : file[n] = {issued[n].owner}

\* processPending looks at the attempts before it has the request: the limit is
\* passed by no more than the generators that had selected it by then.
TriesAreLimited ==
    \A r \in DocRequests : docRequest[r].attempts < MaxTries + Cardinality(Generators)

\* processPending and retry: an acta that was asked for is generated or
\* cancelled, or has failed as often as the job tries, even if generators die
\* or wait for a cancellation that waits for them.
RequestIsSettled ==
    \A r \in DocRequests :
        docRequest[r].status \in Queued ~>
            \/ docRequest[r].status \in {"GENERATED", "CANCELLED"}
            \/ docRequest[r].status = "FAILED" /\ docRequest[r].attempts >= MaxTries

=============================================================================
