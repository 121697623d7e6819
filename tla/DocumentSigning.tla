--------------------------- MODULE DocumentSigning ---------------------------
(***************************************************************************)
(* One acta from the commit that generates it until it is SIGNED, REJECTED *)
(* or VOIDED.  The state is the acta's row (document), its turns           *)
(* (document_signature) and the internal provider's envelopes              *)
(* (signature_envelope and signature_envelope_signer).                     *)
(*                                                                         *)
(* A worker is a request or a job of the server.  A database transaction   *)
(* that locks what it checks is one action; everything a handler reads     *)
(* before it takes the lock is kept in the worker's own record and is used *)
(* later, when it may be stale.                                            *)
(***************************************************************************)
EXTENDS Naturals, FiniteSets

CONSTANTS
    N,            \* number of turns of the acta (signers of its format)
    Persons,
    Eligible,     \* Eligible[s]: who may be designated for turn s
    Workers,
    Envelopes,    \* identifiers for envelopes: bounds how many are created
    MaxAttempts,  \* MAX_AUTOMATIC_LIFECYCLE_ATTEMPTS
    Faults,       \* the steps at which a worker may stop (crash, I/O error)
    None

Orders == 1..N
EnvelopeStatus == {"PENDING", "COMPLETED", "REJECTED", "VOIDED"}

ASSUME NAssumption == N \in Nat \ {0}
ASSUME EligibleAssumption == Eligible \in [Orders -> SUBSET Persons]
ASSUME AttemptsAssumption == MaxAttempts \in Nat \ {0}
ASSUME NoneAssumption == None \notin Persons \cup Envelopes \cup EnvelopeStatus

VARIABLES
    docStatus,          \* document.status
    docRef,             \* document.signature_reference
    docPdf,             \* document.pdf_key: whom the PDF names at each turn
    lifecycleError,     \* document.lifecycle_error IS NOT NULL
    lifecycleAttempts,  \* document.lifecycle_attempts, saturated at MaxAttempts
    signedPdf,          \* document.signed_pdf_key: the envelope it came from
    slotPerson,         \* document_signature.signer_person_id
    slotStatus,         \* document_signature.status
    envStatus,          \* signature_envelope.status
    envPdf,             \* signature_envelope.current_pdf_key (whom it names)
    envPerson,          \* signature_envelope_signer.person_id
    envSlot,            \* signature_envelope_signer.status
    envBy,              \* the person whose capture or rejection is recorded
    job                 \* what each worker is doing

docVars == <<docStatus, docRef, docPdf, lifecycleError, lifecycleAttempts, signedPdf>>
slotVars == <<slotPerson, slotStatus>>
envVars == <<envStatus, envPdf, envPerson, envSlot, envBy>>
vars == <<docVars, slotVars, envVars, job>>

-----------------------------------------------------------------------------
(* Types and helpers.                                                      *)

DocStatus == {"PENDING_SIGNATURE", "SIGNED", "REJECTED", "VOIDED"}
SlotStatus == {"PENDING", "SIGNED", "REJECTED"}
Signers == [Orders -> Persons]
Statuses == [Orders -> SlotStatus]
AllPending == [s \in Orders |-> "PENDING"]

\* The first PENDING turn of a list of turns ordered by sign_order.
IsTurn(statuses, s) ==
    /\ statuses[s] = "PENDING"
    /\ \A t \in 1..(s - 1) : statuses[t] # "PENDING"

Steps == {"idle", "readSigners", "insertEnvelope", "saveReference", "rereadReference",
          "capture", "sync", "readStatus", "applyStatus", "storePdf", "savePdf"}

ASSUME FaultsAssumption == Faults \subseteq Steps \ {"idle"}

\* A worker's step and the values it has read so far.
Job == [pc : Steps, env : Envelopes \cup {None}, order : Orders, person : Persons \cup {None},
        act : {"SIGNED", "REJECTED"}, pdf : Signers \cup {None}, names : Signers \cup {None},
        snap : Statuses, then : {"idle", "rereadReference"}]

Idle == [pc |-> "idle", env |-> None, order |-> 1, person |-> None, act |-> "SIGNED",
         pdf |-> None, names |-> None, snap |-> AllPending, then |-> "idle"]

\* What resolveSigners lets an acta be generated with: one eligible person per
\* turn and nobody twice.
Resolved == {f \in Signers : /\ \A s \in Orders : f[s] \in Eligible[s]
                             /\ \A s, t \in Orders : f[s] = f[t] => s = t}

TypeOK ==
    /\ docStatus \in DocStatus
    /\ docRef \in Envelopes \cup {None}
    /\ docPdf \in Signers
    /\ lifecycleError \in BOOLEAN
    /\ lifecycleAttempts \in 0..MaxAttempts
    /\ signedPdf \in Envelopes \cup {None}
    /\ slotPerson \in Signers
    /\ slotStatus \in Statuses
    /\ envStatus \in [Envelopes -> EnvelopeStatus \cup {None}]
    /\ envPdf \in [Envelopes -> Signers \cup {None}]
    /\ envPerson \in [Envelopes -> Signers \cup {None}]
    /\ envSlot \in [Envelopes -> Statuses]
    /\ envBy \in [Envelopes -> [Orders -> Persons \cup {None}]]
    /\ job \in [Workers -> Job]

Init ==
    /\ docStatus = "PENDING_SIGNATURE"
    /\ docRef = None
    /\ slotPerson \in Resolved
    /\ docPdf = slotPerson
    /\ lifecycleError = FALSE
    /\ lifecycleAttempts = 0
    /\ signedPdf = None
    /\ slotStatus = AllPending
    /\ envStatus = [e \in Envelopes |-> None]
    /\ envPdf = [e \in Envelopes |-> None]
    /\ envPerson = [e \in Envelopes |-> None]
    /\ envSlot = [e \in Envelopes |-> AllPending]
    /\ envBy = [e \in Envelopes |-> [s \in Orders |-> None]]
    /\ job = [w \in Workers |-> Idle]

Go(w, j) == job' = [job EXCEPT ![w] = j]
Finish(w) == Go(w, Idle)

-----------------------------------------------------------------------------
(* requestSignatures: read the acta and its PDF, read its turns, create    *)
(* the envelope, record it on the acta.  No lock spans these steps.        *)

\* afterGeneration, or syncSignatures on an acta that has no envelope yet.
RequestSignatures(w) ==
    /\ job[w].pc = "idle"
    /\ docRef = None
    /\ Go(w, [Idle EXCEPT !.pc = "readSigners", !.pdf = docPdf])
    /\ UNCHANGED <<docVars, slotVars, envVars>>

SignatureRequestFor(w) ==
    /\ job[w].pc = "readSigners"
    /\ Go(w, [job[w] EXCEPT !.pc = "insertEnvelope", !.names = slotPerson])
    /\ UNCHANGED <<docVars, slotVars, envVars>>

\* InternalSignatureProvider.request: its own transaction.
InsertEnvelope(w, e) ==
    /\ job[w].pc = "insertEnvelope"
    /\ envStatus[e] = None
    /\ envStatus' = [envStatus EXCEPT ![e] = "PENDING"]
    /\ envPdf' = [envPdf EXCEPT ![e] = job[w].pdf]
    /\ envPerson' = [envPerson EXCEPT ![e] = job[w].names]
    /\ Go(w, [job[w] EXCEPT !.pc = "saveReference", !.env = e])
    /\ UNCHANGED <<docVars, slotVars, envSlot, envBy>>

SaveReference(w) ==
    /\ job[w].pc = "saveReference"
    /\ docRef' = job[w].env
    /\ IF job[w].then = "idle"
       THEN Finish(w)
       ELSE Go(w, [job[w] EXCEPT !.pc = "rereadReference", !.env = None,
                                 !.pdf = None, !.names = None])
    /\ UNCHANGED <<docStatus, docPdf, lifecycleError, lifecycleAttempts, signedPdf,
                   slotVars, envVars>>

-----------------------------------------------------------------------------
(* sign and rejectSignature: the turn is checked on the acta's own rows,   *)
(* then captured in the envelope under the envelope's lock.                *)

\* signerBlocker with no blocker, for a person with a valid session.
MayAct(s, p) ==
    /\ docStatus = "PENDING_SIGNATURE"
    /\ \A t \in Orders : slotStatus[t] # "REJECTED"
    /\ slotPerson[s] = p
    /\ IsTurn(slotStatus, s)

PrepareSignerAction(w, s, p, a) ==
    /\ job[w].pc = "idle"
    /\ MayAct(s, p)
    /\ IF docRef # None
       THEN Go(w, [Idle EXCEPT !.pc = "capture", !.env = docRef,
                               !.order = s, !.person = p, !.act = a])
       ELSE Go(w, [Idle EXCEPT !.pc = "readSigners", !.pdf = docPdf, !.then = "rereadReference",
                               !.order = s, !.person = p, !.act = a])
    /\ UNCHANGED <<docVars, slotVars, envVars>>

RereadReference(w) ==
    /\ job[w].pc = "rereadReference"
    /\ Go(w, [job[w] EXCEPT !.pc = "capture", !.env = docRef, !.then = "idle"])
    /\ UNCHANGED <<docVars, slotVars, envVars>>

\* Mutant: the turn is only checked on the acta's own rows.
NextSignerOfAnyTurn(e, s, p) ==
    /\ envStatus[e] = "PENDING"
    /\ envPerson[e][s] = p
    /\ envSlot[e][s] = "PENDING"

\* nextSigner: the envelope is open and it is that person's turn in it.
NextSigner(e, s, p) ==
    /\ envStatus[e] = "PENDING"
    /\ envPerson[e][s] = p
    /\ IsTurn(envSlot[e], s)

Capture(w) ==
    LET e == job[w].env
        s == job[w].order
    IN  /\ job[w].pc = "capture"
        /\ job[w].act = "SIGNED"
        /\ NextSigner(e, s, job[w].person)
        /\ envSlot' = [envSlot EXCEPT ![e][s] = "SIGNED"]
        /\ envBy' = [envBy EXCEPT ![e][s] = job[w].person]
        /\ envStatus' = IF \A t \in Orders \ {s} : envSlot[e][t] = "SIGNED"
                        THEN [envStatus EXCEPT ![e] = "COMPLETED"] ELSE envStatus
        /\ Go(w, [Idle EXCEPT !.pc = "sync"])
        /\ UNCHANGED <<docVars, slotVars, envPdf, envPerson>>

Reject(w) ==
    LET e == job[w].env
        s == job[w].order
    IN  /\ job[w].pc = "capture"
        /\ job[w].act = "REJECTED"
        /\ NextSigner(e, s, job[w].person)
        /\ envSlot' = [envSlot EXCEPT ![e][s] = "REJECTED"]
        /\ envBy' = [envBy EXCEPT ![e][s] = job[w].person]
        /\ envStatus' = [envStatus EXCEPT ![e] = "REJECTED"]
        /\ Go(w, [Idle EXCEPT !.pc = "sync"])
        /\ UNCHANGED <<docVars, slotVars, envPdf, envPerson>>

\* nextSigner throws: nothing was written and the request ends.
CaptureRefused(w) ==
    /\ job[w].pc = "capture"
    /\ ~ NextSigner(job[w].env, job[w].order, job[w].person)
    /\ Finish(w)
    /\ UNCHANGED <<docVars, slotVars, envVars>>

-----------------------------------------------------------------------------
(* syncSignatures: read the envelope's statuses, then lock the acta, copy  *)
(* them to its turns and, if they close it, run the owner's callback in a  *)
(* savepoint of the same transaction.                                      *)

\* After a capture, or POST /documents/:id/signatures/sync.
SyncSignatures(w) ==
    /\ job[w].pc \in {"idle", "sync"}
    /\ docRef # None
    /\ Go(w, [Idle EXCEPT !.pc = "readStatus", !.env = docRef])
    /\ UNCHANGED <<docVars, slotVars, envVars>>

\* Mutant: the job gives up one attempt early.
RetryLifecycleEarlyEnd(w) ==
    /\ lifecycleError
    /\ docStatus = "PENDING_SIGNATURE"
    /\ lifecycleAttempts < MaxAttempts - 1
    /\ job[w].pc = "idle"
    /\ SyncSignatures(w)

\* retryLifecycle, every minute.
RetryLifecycle(w) ==
    /\ lifecycleError
    /\ docStatus = "PENDING_SIGNATURE"
    /\ lifecycleAttempts < MaxAttempts
    /\ job[w].pc = "idle"
    /\ SyncSignatures(w)

ReadStatus(w) ==
    /\ job[w].pc = "readStatus"
    /\ Go(w, [job[w] EXCEPT !.pc = "applyStatus", !.snap = envSlot[job[w].env]])
    /\ UNCHANGED <<docVars, slotVars, envVars>>

\* Mutant: the acta takes the envelope's status.
TargetOfEnvelope(statuses) ==
    IF \E s \in Orders : statuses[s] = "REJECTED" THEN "REJECTED"
    ELSE IF \A s \in Orders : statuses[s] = "SIGNED" THEN "COMPLETED"
    ELSE "PENDING_SIGNATURE"

\* Mutant: one signature closes the acta.
TargetOfFirstTurn(statuses) ==
    IF \E s \in Orders : statuses[s] = "REJECTED" THEN "REJECTED"
    ELSE IF statuses[1] = "SIGNED" THEN "SIGNED"
    ELSE "PENDING_SIGNATURE"

Target(statuses) ==
    IF \E s \in Orders : statuses[s] = "REJECTED" THEN "REJECTED"
    ELSE IF \A s \in Orders : statuses[s] = "SIGNED" THEN "SIGNED"
    ELSE "PENDING_SIGNATURE"

\* The turns are overwritten whatever the acta's status is.
CopyStatuses(w) ==
    /\ job[w].pc = "applyStatus"
    /\ slotStatus' = job[w].snap
    /\ Go(w, [Idle EXCEPT !.pc = "storePdf"])
    /\ UNCHANGED <<slotPerson, envVars, docRef, docPdf, signedPdf>>

Closes(w) ==
    /\ docStatus = "PENDING_SIGNATURE"
    /\ Target(job[w].snap) # "PENDING_SIGNATURE"

ApplyStatus(w) ==
    /\ CopyStatuses(w)
    /\ ~ Closes(w)
    /\ UNCHANGED <<docStatus, lifecycleError, lifecycleAttempts>>

CloseDocument(w) ==
    /\ CopyStatuses(w)
    /\ Closes(w)
    /\ docStatus' = Target(job[w].snap)
    /\ lifecycleError' = FALSE
    /\ UNCHANGED lifecycleAttempts

\* The callback throws: back to the savepoint, the copied turns stay.
LifecycleFails(w) ==
    /\ CopyStatuses(w)
    /\ Closes(w)
    /\ lifecycleError' = TRUE
    /\ lifecycleAttempts' = IF lifecycleAttempts < MaxAttempts
                            THEN lifecycleAttempts + 1 ELSE lifecycleAttempts
    /\ UNCHANGED docStatus

-----------------------------------------------------------------------------
(* storeSignedPdf and retrySignedPdfs.                                     *)

NeedsSignedPdf ==
    /\ docStatus = "SIGNED"
    /\ signedPdf = None
    /\ docRef # None

\* Mutant: the job looks for PDFs only among actas whose callback failed.
RetrySignedPdfsOfStalled(w) ==
    /\ job[w].pc = "idle"
    /\ NeedsSignedPdf /\ lifecycleError
    /\ Go(w, [Idle EXCEPT !.pc = "storePdf"])
    /\ UNCHANGED <<docVars, slotVars, envVars>>

RetrySignedPdfs(w) ==
    /\ job[w].pc = "idle"
    /\ NeedsSignedPdf
    /\ Go(w, [Idle EXCEPT !.pc = "storePdf"])
    /\ UNCHANGED <<docVars, slotVars, envVars>>

StoreSignedPdf(w) ==
    /\ job[w].pc = "storePdf"
    /\ IF NeedsSignedPdf
       THEN Go(w, [Idle EXCEPT !.pc = "savePdf", !.env = docRef])
       ELSE Finish(w)
    /\ UNCHANGED <<docVars, slotVars, envVars>>

\* Mutant: the PDF of an unfinished envelope is accepted.
SaveAnyPdf(w) ==
    /\ job[w].pc = "savePdf"
    /\ signedPdf' = IF signedPdf = None THEN job[w].env ELSE signedPdf
    /\ Finish(w)
    /\ UNCHANGED <<docStatus, docRef, docPdf, lifecycleError, lifecycleAttempts,
                   slotVars, envVars>>

\* signedDocument refuses an envelope that is not COMPLETED; the update is
\* conditional on signed_pdf_key IS NULL.
SaveSignedPdf(w) ==
    /\ job[w].pc = "savePdf"
    /\ signedPdf' = IF envStatus[job[w].env] = "COMPLETED" /\ signedPdf = None
                    THEN job[w].env ELSE signedPdf
    /\ Finish(w)
    /\ UNCHANGED <<docStatus, docRef, docPdf, lifecycleError, lifecycleAttempts,
                   slotVars, envVars>>

-----------------------------------------------------------------------------
(* Administration of the acta: single transactions under its lock.         *)

\* Mutant: an open envelope may always be reissued.
ReissuableWhileOpen(e) == envStatus[e] = "PENDING"

\* reissue refuses an envelope in which anybody has acted.
Reissuable(e) == envStatus[e] = "PENDING" /\ envSlot[e] = AllPending

\* The person is not already a signer of another turn.
Untaken(p) == \A t \in Orders : slotPerson[t] # p

ReassignSigner(s, p) ==
    LET designated == [slotPerson EXCEPT ![s] = p]
    IN  /\ p \in Eligible[s]
        /\ docStatus = "PENDING_SIGNATURE"
        /\ slotStatus = AllPending
        /\ Untaken(p)
        /\ slotPerson' = designated
        /\ docPdf' = designated
        /\ IF docRef = None
           THEN UNCHANGED envVars
           ELSE /\ Reissuable(docRef)
                /\ envPdf' = [envPdf EXCEPT ![docRef] = designated]
                /\ envPerson' = [envPerson EXCEPT ![docRef] = designated]
                /\ UNCHANGED <<envStatus, envSlot, envBy>>
        /\ UNCHANGED <<docStatus, docRef, lifecycleError, lifecycleAttempts, signedPdf,
                       slotStatus, job>>

VoidForEntity ==
    /\ docStatus = "PENDING_SIGNATURE"
    /\ docStatus' = "VOIDED"
    /\ lifecycleError' = FALSE
    /\ envStatus' = IF docRef # None /\ envStatus[docRef] = "PENDING"
                    THEN [envStatus EXCEPT ![docRef] = "VOIDED"] ELSE envStatus
    /\ UNCHANGED <<docRef, docPdf, lifecycleAttempts, signedPdf, slotVars,
                   envPdf, envPerson, envSlot, envBy, job>>

\* The worker dies, or an I/O error ends its request: what it committed stays.
Abort(w) ==
    /\ job[w].pc \in Faults
    /\ Finish(w)
    /\ UNCHANGED <<docVars, slotVars, envVars>>

-----------------------------------------------------------------------------

\* The steps a running request or job takes until it is done.
WorkerStep(w) ==
    \/ SignatureRequestFor(w)
    \/ \E e \in Envelopes : InsertEnvelope(w, e)
    \/ SaveReference(w)
    \/ RereadReference(w)
    \/ Capture(w)
    \/ Reject(w)
    \/ CaptureRefused(w)
    \/ job[w].pc = "sync" /\ SyncSignatures(w)
    \/ ReadStatus(w)
    \/ ApplyStatus(w)
    \/ CloseDocument(w)
    \/ LifecycleFails(w)
    \/ StoreSignedPdf(w)
    \/ SaveSignedPdf(w)

\* What users, the outbox and the minute job start.
Start(w) ==
    \/ RequestSignatures(w)
    \/ \E s \in Orders, p \in Persons, a \in {"SIGNED", "REJECTED"} : PrepareSignerAction(w, s, p, a)
    \/ job[w].pc = "idle" /\ SyncSignatures(w)
    \/ RetryLifecycle(w)
    \/ RetrySignedPdfs(w)

Next ==
    \/ \E w \in Workers : WorkerStep(w) \/ Start(w) \/ Abort(w)
    \/ \E s \in Orders, p \in Persons : ReassignSigner(s, p)
    \/ VoidForEntity

Spec == Init /\ [][Next]_vars

\* A request that has started runs to its end, and the job visits the acta
\* every minute; no fairness is asked of people.  The job's fairness is strong
\* because Workers only bounds the model: in the server the timer does not wait
\* for the requests that keep the workers busy.  Storing the signed PDF may fail,
\* but not every time.
Fairness ==
    /\ \A w \in Workers : WF_vars(WorkerStep(w))
    /\ SF_vars(\E w \in Workers : RetryLifecycle(w))
    /\ SF_vars(\E w \in Workers : RetrySignedPdfs(w))
    /\ SF_vars(\E w \in Workers : StoreSignedPdf(w))
    /\ SF_vars(\E w \in Workers : SaveSignedPdf(w))

FairSpec == Spec /\ Fairness

-----------------------------------------------------------------------------
(* Safety.                                                                 *)

\* In every envelope the turns are used in their order: whoever has signed or
\* rejected turn t found every earlier turn SIGNED.  nextSigner checks it on
\* rows it reads under the envelope's lock, while several requests that each
\* passed the check on the acta's own, possibly stale, rows are in flight.
SignedInTurn ==
    \A e \in Envelopes : \A s, t \in Orders :
        s < t /\ envSlot[e][t] # "PENDING" => envSlot[e][s] = "SIGNED"

\* An acta is SIGNED only if some envelope holds every signature, and REJECTED
\* only if some envelope holds a rejection, although syncSignatures decides
\* from statuses it read before it locked the acta.
ClosedIsBacked ==
    /\ docStatus = "SIGNED" => \E e \in Envelopes : \A s \in Orders : envSlot[e][s] = "SIGNED"
    /\ docStatus = "REJECTED" => \E e \in Envelopes, s \in Orders : envSlot[e][s] = "REJECTED"

\* Whoever acted at a turn of an envelope is the person the envelope designates
\* for it and was eligible for it, and nobody acted at two turns of one
\* envelope, whatever reassignments raced with the signatures.
SeparateDesignatedSigners ==
    \A e \in Envelopes : \A s \in Orders :
        envSlot[e][s] # "PENDING" =>
            /\ envBy[e][s] = envPerson[e][s]
            /\ envBy[e][s] \in Eligible[s]
            /\ \A t \in Orders : envBy[e][t] = envBy[e][s] => t = s

\* Who signs what, and when: the designated persons, one turn each, in the order
\* of the turns, although every request checks it on rows that may be old.
SignersInv == SignedInTurn /\ SeparateDesignatedSigners

\* The signed PDF that is kept was taken from an envelope with every signature,
\* and only a SIGNED acta has one.
SignedPdfIsComplete ==
    signedPdf # None =>
        /\ docStatus = "SIGNED"
        /\ \A s \in Orders : envSlot[signedPdf][s] = "SIGNED"

\* A closed acta never changes its status again: late syncs, retries and
\* voids leave SIGNED, REJECTED and VOIDED alone.
ClosedIsFinal == [][docStatus # "PENDING_SIGNATURE" => docStatus' = docStatus]_vars

\* Once anybody has acted in an envelope its signers and its PDF are frozen and
\* the recorded act stays: a reassignment may not change what was signed.
EvidenceIsFrozen ==
    [][\A e \in Envelopes : \A s \in Orders :
        envSlot[e][s] # "PENDING" =>
            /\ envSlot'[e][s] = envSlot[e][s]
            /\ envBy'[e][s] = envBy[e][s]
            /\ envPerson'[e] = envPerson[e]
            /\ envPdf'[e] = envPdf[e]]_vars

\* syncSignatures, voidForEntity and reissue: what is decided and what is signed
\* stay as they are, whatever comes late.
SettledStays == ClosedIsFinal /\ EvidenceIsFrozen

\* "reasignar antes de la primera firma reemite el acta y el PDF final nombra a
\* quien firmó" (test/integration/signature-turns.int-spec.ts:262): the PDF of
\* an envelope with every signature names, at each turn, who signed there.
PdfNamesWhoSigned ==
    \A e \in Envelopes : envStatus[e] = "COMPLETED" => envPdf[e] = envBy[e]

-----------------------------------------------------------------------------
(* Liveness.                                                               *)

\* If the acta's envelope stays COMPLETED, the acta leaves PENDING_SIGNATURE or
\* its owner has refused it as often as the job retries: a failed callback is
\* not forgotten while there are attempts left.
CollectedIsSettled ==
    <>[](docRef # None /\ envStatus[docRef] = "COMPLETED")
        => <>(docStatus # "PENDING_SIGNATURE" \/ lifecycleAttempts = MaxAttempts)

\* A SIGNED acta whose envelope is complete ends up with its signed PDF.
SignedPdfArrives ==
    (docStatus = "SIGNED" /\ envStatus[docRef] = "COMPLETED") ~> (signedPdf # None)
============================================================================
