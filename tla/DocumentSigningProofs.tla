----------------------- MODULE DocumentSigningProofs -----------------------
(***************************************************************************)
(* The safety of DocumentSigning for any number of turns, persons, workers *)
(* and envelopes.  The inductive invariant adds to the properties what the *)
(* code relies on without stating it: what a worker has read is never      *)
(* ahead of the envelope it read it from, an envelope's status agrees with *)
(* its turns, and every list of signers in use came from resolveSigners or *)
(* a checked reassignment.                                                 *)
(***************************************************************************)
EXTENDS DocumentSigning, TLAPS

\* A worker that uses an envelope has one, and it saves a signed PDF only for
\* an acta that it saw SIGNED.
JobsAreReady ==
    \A w \in Workers :
        /\ job[w].pc \in {"saveReference", "capture", "readStatus", "applyStatus", "savePdf"}
              => job[w].env \in Envelopes
        /\ job[w].pc = "rereadReference" => docRef # None
        /\ job[w].pc = "insertEnvelope" => job[w].names \in Resolved
        /\ job[w].pc = "savePdf" => docStatus = "SIGNED"

\* What a sync has read is still true of the envelope, except that turns that
\* were PENDING may have been used since.
SnapshotsAreOld ==
    \A w \in Workers : \A s \in Orders :
        job[w].pc = "applyStatus" /\ job[w].snap[s] # "PENDING"
            => envSlot[job[w].env][s] = job[w].snap[s]

\* An envelope's status says what its turns say.
EnvelopesAgree ==
    \A e \in Envelopes :
        /\ envStatus[e] = None => envSlot[e] = AllPending
        /\ envStatus[e] = "PENDING" => \A s \in Orders : envSlot[e][s] # "REJECTED"
        /\ envStatus[e] = "COMPLETED" => \A s \in Orders : envSlot[e][s] = "SIGNED"
        /\ \A s \in Orders : envSlot[e][s] = "PENDING" => envBy[e][s] = None

\* The turns and the envelopes list one eligible person per turn, nobody twice,
\* and whoever acted is the listed person.
SignersAreResolved ==
    /\ slotPerson \in Resolved
    /\ \A e \in Envelopes :
        /\ envStatus[e] # None => envPerson[e] \in Resolved
        /\ \A s \in Orders : envSlot[e][s] # "PENDING" => envBy[e][s] = envPerson[e][s]

IInv ==
    /\ TypeOK
    /\ JobsAreReady
    /\ SnapshotsAreOld
    /\ EnvelopesAgree
    /\ SignersAreResolved
    /\ SignedInTurn
    /\ ClosedIsBacked
    /\ SignedPdfIsComplete

-----------------------------------------------------------------------------
(* Types.                                                                  *)

\* The record of an idle worker, from which every job starts, is a job.
LEMMA IdleIsAJob == Idle \in Job
BY NAssumption DEF Idle, Job, Steps, AllPending, Statuses, SlotStatus, Orders

\* Init establishes the inductive invariant.
LEMMA InitIInv == Init => IInv
<1> SUFFICES ASSUME Init PROVE IInv
    OBVIOUS
<1>1. TypeOK
    <2>1. slotPerson \in Signers /\ docPdf \in Signers
        BY DEF Init, Resolved
    <2>2. AllPending \in Statuses
        BY DEF AllPending, Statuses, SlotStatus
    <2>3. lifecycleAttempts \in 0..MaxAttempts
        BY AttemptsAssumption DEF Init
    <2>4. /\ envStatus \in [Envelopes -> EnvelopeStatus \cup {None}]
          /\ envPdf \in [Envelopes -> Signers \cup {None}]
          /\ envPerson \in [Envelopes -> Signers \cup {None}]
        BY DEF Init
    <2>5. /\ envSlot \in [Envelopes -> Statuses]
          /\ slotStatus \in Statuses
          /\ envBy \in [Envelopes -> [Orders -> Persons \cup {None}]]
        BY <2>2 DEF Init
    <2>6. job \in [Workers -> Job]
        BY IdleIsAJob DEF Init
    <2>7. docStatus \in DocStatus /\ lifecycleError \in BOOLEAN
        BY DEF Init, DocStatus
    <2> QED
        BY <2>1, <2>3, <2>4, <2>5, <2>6, <2>7 DEF Init, TypeOK
<1>2. JobsAreReady /\ SnapshotsAreOld
    BY DEF Init, JobsAreReady, SnapshotsAreOld, Idle
<1>3. EnvelopesAgree /\ SignersAreResolved
    BY NoneAssumption DEF Init, EnvelopesAgree, SignersAreResolved, EnvelopeStatus, AllPending
<1>4. SignedInTurn /\ ClosedIsBacked /\ SignedPdfIsComplete
    BY DEF Init, SignedInTurn, ClosedIsBacked, SignedPdfIsComplete, AllPending
<1> QED
    BY <1>1, <1>2, <1>3, <1>4 DEF IInv

\* A step that only moves one worker to a job it is ready for keeps IInv.
LEMMA JobStep ==
    ASSUME IInv, UNCHANGED <<docVars, slotVars, envVars>>,
           NEW w \in Workers, NEW j \in Job, Go(w, j),
           j.pc \in {"saveReference", "capture", "readStatus", "applyStatus", "savePdf"}
               => j.env \in Envelopes,
           j.pc = "rereadReference" => docRef # None,
           j.pc = "insertEnvelope" => j.names \in Resolved,
           j.pc = "savePdf" => docStatus = "SIGNED",
           j.pc = "applyStatus" =>
               \A s \in Orders : j.snap[s] # "PENDING" => envSlot[j.env][s] = j.snap[s]
    PROVE  IInv'
<1>0. /\ job \in [Workers -> Job]
      /\ job' = [job EXCEPT ![w] = j]
      /\ job'[w] = j
      /\ \A v \in Workers \ {w} : job'[v] = job[v]
      /\ job' \in [Workers -> Job]
    BY DEF IInv, TypeOK, Go
<1>1. TypeOK'
    BY <1>0 DEF IInv, TypeOK, docVars, slotVars, envVars
<1>2. JobsAreReady'
    BY <1>0 DEF IInv, JobsAreReady, docVars, slotVars, envVars
<1>3. SnapshotsAreOld'
    BY <1>0 DEF IInv, SnapshotsAreOld, docVars, slotVars, envVars
<1>4. /\ EnvelopesAgree'
      /\ SignersAreResolved'
    BY DEF IInv, EnvelopesAgree, SignersAreResolved, docVars, slotVars, envVars
<1>5. SignedInTurn' /\ ClosedIsBacked' /\ SignedPdfIsComplete'
    BY DEF IInv, SignedInTurn, ClosedIsBacked, SignedPdfIsComplete, docVars, slotVars, envVars
<1> QED
    BY <1>1, <1>2, <1>3, <1>4, <1>5 DEF IInv

-----------------------------------------------------------------------------
(* The steps that read: only the worker's own record changes.              *)

LEMMA RequestSteps ==
    ASSUME IInv, NEW w \in Workers,
           \/ RequestSignatures(w)
           \/ SignatureRequestFor(w)
           \/ \E s \in Orders, p \in Persons, a \in {"SIGNED", "REJECTED"} :
                  PrepareSignerAction(w, s, p, a)
           \/ RereadReference(w)
    PROVE  IInv'
<1> USE IdleIsAJob DEF IInv, TypeOK
<1>1. CASE RequestSignatures(w)
    <2> DEFINE j == [Idle EXCEPT !.pc = "readSigners", !.pdf = docPdf]
    <2>1. j \in Job /\ j.pc = "readSigners"
        BY DEF Job, Steps, Idle
    <2>2. Go(w, j) /\ UNCHANGED <<docVars, slotVars, envVars>>
        BY <1>1 DEF RequestSignatures
    <2> HIDE DEF j, IInv, TypeOK
    <2> QED
        BY <2>1, <2>2, JobStep
<1>2. CASE SignatureRequestFor(w)
    <2> DEFINE j == [job[w] EXCEPT !.pc = "insertEnvelope", !.names = slotPerson]
    <2>1. j \in Job /\ j.pc = "insertEnvelope" /\ j.names = slotPerson
        BY DEF Job, Steps
    <2>2. slotPerson \in Resolved
        BY DEF SignersAreResolved
    <2>3. Go(w, j) /\ UNCHANGED <<docVars, slotVars, envVars>>
        BY <1>2 DEF SignatureRequestFor
    <2> HIDE DEF j, IInv, TypeOK
    <2> QED
        BY <2>1, <2>2, <2>3, JobStep
<1>3. ASSUME NEW s \in Orders, NEW p \in Persons, NEW a \in {"SIGNED", "REJECTED"},
             PrepareSignerAction(w, s, p, a)
      PROVE  IInv'
    <2>1. CASE docRef # None
        <3> DEFINE j == [Idle EXCEPT !.pc = "capture", !.env = docRef,
                                     !.order = s, !.person = p, !.act = a]
        <3>1. j \in Job /\ j.pc = "capture" /\ j.env = docRef /\ docRef \in Envelopes
            BY <2>1 DEF Job, Steps, Idle
        <3>2. Go(w, j) /\ UNCHANGED <<docVars, slotVars, envVars>>
            BY <1>3, <2>1 DEF PrepareSignerAction
        <3> HIDE DEF j, IInv, TypeOK
        <3> QED
            BY <3>1, <3>2, JobStep
    <2>2. CASE docRef = None
        <3> DEFINE j == [Idle EXCEPT !.pc = "readSigners", !.pdf = docPdf,
                                     !.then = "rereadReference",
                                     !.order = s, !.person = p, !.act = a]
        <3>1. j \in Job /\ j.pc = "readSigners"
            BY DEF Job, Steps, Idle
        <3>2. Go(w, j) /\ UNCHANGED <<docVars, slotVars, envVars>>
            BY <1>3, <2>2 DEF PrepareSignerAction
        <3> HIDE DEF j, IInv, TypeOK
        <3> QED
            BY <3>1, <3>2, JobStep
    <2> QED
        BY <2>1, <2>2
<1>4. CASE RereadReference(w)
    <2> DEFINE j == [job[w] EXCEPT !.pc = "capture", !.env = docRef, !.then = "idle"]
    <2>1. j \in Job /\ j.pc = "capture" /\ j.env = docRef
        BY DEF Job, Steps
    <2>2. docRef \in Envelopes
        BY <1>4 DEF RereadReference, JobsAreReady
    <2>3. Go(w, j) /\ UNCHANGED <<docVars, slotVars, envVars>>
        BY <1>4 DEF RereadReference
    <2> HIDE DEF j, IInv, TypeOK
    <2> QED
        BY <2>1, <2>2, <2>3, JobStep
<1> QED
    BY <1>1, <1>2, <1>3, <1>4

LEMMA SyncSteps ==
    ASSUME IInv, NEW w \in Workers,
           SyncSignatures(w) \/ RetryLifecycle(w) \/ ReadStatus(w)
    PROVE  IInv'
<1> USE IdleIsAJob DEF IInv, TypeOK
<1>1. CASE SyncSignatures(w) \/ RetryLifecycle(w)
    <2> DEFINE j == [Idle EXCEPT !.pc = "readStatus", !.env = docRef]
    <2>1. docRef \in Envelopes /\ Go(w, j) /\ UNCHANGED <<docVars, slotVars, envVars>>
        BY <1>1 DEF RetryLifecycle, SyncSignatures
    <2>2. j \in Job /\ j.pc = "readStatus" /\ j.env = docRef
        BY DEF Job, Steps, Idle
    <2> HIDE DEF j, IInv, TypeOK
    <2> QED
        BY <2>1, <2>2, JobStep
<1>2. CASE ReadStatus(w)
    <2> DEFINE e == job[w].env
               j == [job[w] EXCEPT !.pc = "applyStatus", !.snap = envSlot[e]]
    <2>1. e \in Envelopes
        BY <1>2 DEF ReadStatus, JobsAreReady
    <2>2. j \in Job /\ j.pc = "applyStatus" /\ j.env = e /\ j.snap = envSlot[e]
        BY <2>1 DEF Job, Steps
    <2>3. Go(w, j) /\ UNCHANGED <<docVars, slotVars, envVars>>
        BY <1>2 DEF ReadStatus
    <2> HIDE DEF j, e, IInv, TypeOK
    <2> QED
        BY <2>1, <2>2, <2>3, JobStep
<1> QED
    BY <1>1, <1>2

LEMMA PdfAndEndSteps ==
    ASSUME IInv, NEW w \in Workers,
           RetrySignedPdfs(w) \/ StoreSignedPdf(w) \/ CaptureRefused(w) \/ Abort(w)
    PROVE  IInv'
<1> USE IdleIsAJob DEF IInv, TypeOK
<1>1. CASE RetrySignedPdfs(w)
    <2> DEFINE j == [Idle EXCEPT !.pc = "storePdf"]
    <2>1. j \in Job /\ j.pc = "storePdf"
        BY DEF Job, Steps, Idle
    <2>2. Go(w, j) /\ UNCHANGED <<docVars, slotVars, envVars>>
        BY <1>1 DEF RetrySignedPdfs
    <2> HIDE DEF j, IInv, TypeOK
    <2> QED
        BY <2>1, <2>2, JobStep
<1>2. CASE StoreSignedPdf(w) /\ NeedsSignedPdf
    <2> DEFINE j == [Idle EXCEPT !.pc = "savePdf", !.env = docRef]
    <2>1. docRef \in Envelopes /\ docStatus = "SIGNED"
        BY <1>2 DEF NeedsSignedPdf
    <2>2. j \in Job /\ j.pc = "savePdf" /\ j.env = docRef
        BY DEF Job, Steps, Idle
    <2>3. Go(w, j) /\ UNCHANGED <<docVars, slotVars, envVars>>
        BY <1>2 DEF StoreSignedPdf
    <2> HIDE DEF j, IInv, TypeOK
    <2> QED
        BY <2>1, <2>2, <2>3, JobStep
<1>3. CASE (StoreSignedPdf(w) /\ ~NeedsSignedPdf) \/ CaptureRefused(w) \/ Abort(w)
    <2>1. Go(w, Idle) /\ UNCHANGED <<docVars, slotVars, envVars>>
        BY <1>3 DEF StoreSignedPdf, CaptureRefused, Abort, Finish
    <2>2. Idle.pc = "idle"
        BY DEF Idle
    <2> HIDE DEF IInv, TypeOK
    <2> QED
        BY <2>1, <2>2, JobStep
<1> QED
    BY <1>1, <1>2, <1>3

-----------------------------------------------------------------------------
(* The steps that write.                                                   *)

LEMMA InsertEnvelopeStep ==
    ASSUME IInv, NEW w \in Workers, NEW e \in Envelopes, InsertEnvelope(w, e)
    PROVE  IInv'
<1> DEFINE j == [job[w] EXCEPT !.pc = "saveReference", !.env = e]
<1> USE DEF InsertEnvelope, IInv
<1>0. j \in Job /\ j.pc = "saveReference" /\ j.env = e
    <2>1. job[w] \in Job
        BY DEF TypeOK
    <2> QED
        BY <2>1 DEF Job, Steps
<1>1. /\ j \in Job /\ j.pc = "saveReference" /\ j.env = e
      /\ job \in [Workers -> Job] /\ job' = [job EXCEPT ![w] = j]
    BY <1>0 DEF TypeOK, Go
<1>2. job[w].names \in Resolved /\ job[w].pdf \in Signers \cup {None} /\ Resolved \subseteq Signers
    BY DEF TypeOK, Job, JobsAreReady, Resolved
<1>3. envSlot[e] = AllPending
    BY DEF EnvelopesAgree
<1> HIDE DEF j
<1>4. TypeOK'
    BY <1>1, <1>2 DEF TypeOK, docVars, slotVars, EnvelopeStatus
<1>5. JobsAreReady' /\ SnapshotsAreOld'
    BY <1>1 DEF JobsAreReady, SnapshotsAreOld, docVars
<1>6. EnvelopesAgree'
    <2>1. \A f \in Envelopes \ {e} : envStatus'[f] = envStatus[f]
        BY DEF TypeOK
    <2>2. envStatus'[e] = "PENDING" /\ envSlot' = envSlot /\ envBy' = envBy
        BY DEF TypeOK
    <2>3. \A s \in Orders : envSlot[e][s] # "REJECTED"
        BY <1>3 DEF AllPending
    <2> QED
        BY <2>1, <2>2, <2>3, NoneAssumption DEF EnvelopesAgree, EnvelopeStatus
<1>7. SignersAreResolved'
    BY <1>2, <1>3 DEF SignersAreResolved, AllPending, TypeOK, slotVars
<1>8. SignedInTurn' /\ ClosedIsBacked' /\ SignedPdfIsComplete'
    BY DEF SignedInTurn, ClosedIsBacked, SignedPdfIsComplete, docVars
<1> QED
    BY <1>4, <1>5, <1>6, <1>7, <1>8

LEMMA SaveReferenceStep ==
    ASSUME IInv, NEW w \in Workers, SaveReference(w)
    PROVE  IInv'
<1> DEFINE j == [job[w] EXCEPT !.pc = "rereadReference", !.env = None, !.pdf = None, !.names = None]
<1> USE DEF SaveReference, IInv
<1>1. PICK k \in {Idle, j} : job' = [job EXCEPT ![w] = k]
    BY DEF Go, Finish
<1>2. k \in Job /\ k.pc \in {"idle", "rereadReference"} /\ job \in [Workers -> Job]
    BY <1>1, IdleIsAJob DEF TypeOK, Job, Steps, Idle
<1>3. docRef' \in Envelopes /\ docRef' # None
    BY NoneAssumption DEF JobsAreReady
<1> HIDE DEF j
<1>4. TypeOK'
    BY <1>1, <1>2, <1>3 DEF TypeOK, slotVars, envVars
<1>5. JobsAreReady'
    BY <1>1, <1>2, <1>3 DEF JobsAreReady
<1>6. SnapshotsAreOld'
    BY <1>1, <1>2 DEF SnapshotsAreOld, envVars
<1>7. EnvelopesAgree' /\ SignersAreResolved'
    BY DEF EnvelopesAgree, SignersAreResolved, slotVars, envVars
<1>8. SignedInTurn' /\ ClosedIsBacked' /\ SignedPdfIsComplete'
    BY DEF SignedInTurn, ClosedIsBacked, SignedPdfIsComplete, envVars
<1> QED
    BY <1>4, <1>5, <1>6, <1>7, <1>8

\* Capture and Reject use a turn that was PENDING in an open envelope, after
\* every earlier turn was SIGNED.
LEMMA TurnStep ==
    ASSUME IInv, NEW w \in Workers, Capture(w) \/ Reject(w)
    PROVE  IInv'
<1> DEFINE e == job[w].env
           s == job[w].order
           a == job[w].act
           j == [Idle EXCEPT !.pc = "sync"]
<1> USE DEF IInv
<1>1. e \in Envelopes /\ s \in Orders /\ job[w].person \in Persons \cup {None}
    BY DEF Capture, Reject, JobsAreReady, TypeOK, Job
<1>2. /\ envStatus[e] = "PENDING"
      /\ envPerson[e][s] = job[w].person
      /\ envSlot[e][s] = "PENDING"
      /\ \A t \in 1..(s - 1) : envSlot[e][t] # "PENDING"
    BY DEF Capture, Reject, NextSigner, IsTurn
<1>3. a \in {"SIGNED", "REJECTED"}
    BY DEF Capture, Reject
<1>4. /\ envSlot' = [envSlot EXCEPT ![e][s] = a]
      /\ envBy' = [envBy EXCEPT ![e][s] = job[w].person]
      /\ Go(w, j)
      /\ UNCHANGED <<docVars, slotVars, envPdf, envPerson>>
    BY DEF Capture, Reject
<1>5. \/ envStatus' = envStatus /\ a = "SIGNED"
      \/ /\ envStatus' = [envStatus EXCEPT ![e] = "COMPLETED"]
         /\ a = "SIGNED" /\ \A t \in Orders \ {s} : envSlot[e][t] = "SIGNED"
      \/ envStatus' = [envStatus EXCEPT ![e] = "REJECTED"]
    BY DEF Capture, Reject
<1>6. j \in Job /\ j.pc = "sync" /\ job \in [Workers -> Job] /\ job' = [job EXCEPT ![w] = j]
    BY <1>4, IdleIsAJob DEF Go, TypeOK, Job, Steps, Idle
<1>7. envSlot \in [Envelopes -> [Orders -> SlotStatus]] /\ envStatus \in [Envelopes -> EnvelopeStatus \cup {None}]
    BY DEF TypeOK, Statuses
<1>8. \A f \in Envelopes, t \in Orders :
          envSlot'[f][t] = IF f = e /\ t = s THEN a ELSE envSlot[f][t]
    BY <1>1, <1>4, <1>7
<1>9. \A f \in Envelopes, t \in Orders :
          envBy'[f][t] = IF f = e /\ t = s THEN job[w].person ELSE envBy[f][t]
    BY <1>1, <1>4 DEF TypeOK
<1>10. envSlot' \in [Envelopes -> Statuses] /\ envStatus' \in [Envelopes -> EnvelopeStatus \cup {None}]
    BY <1>1, <1>3, <1>4, <1>5, <1>7 DEF Statuses, SlotStatus, EnvelopeStatus
<1>11. envBy' \in [Envelopes -> [Orders -> Persons \cup {None}]]
    BY <1>1, <1>4 DEF TypeOK
<1> HIDE DEF e, s, a, j
<1>12. TypeOK'
    BY <1>4, <1>6, <1>10, <1>11 DEF TypeOK, docVars, slotVars
<1>13. JobsAreReady'
    BY <1>4, <1>6 DEF JobsAreReady, docVars
<1>14. SnapshotsAreOld'
    BY <1>2, <1>6, <1>8 DEF SnapshotsAreOld, JobsAreReady
<1>15. EnvelopesAgree'
    <2> SUFFICES ASSUME NEW f \in Envelopes
                 PROVE  /\ envStatus'[f] = None => envSlot'[f] = AllPending
                        /\ envStatus'[f] = "PENDING" => \A t \in Orders : envSlot'[f][t] # "REJECTED"
                        /\ envStatus'[f] = "COMPLETED" => \A t \in Orders : envSlot'[f][t] = "SIGNED"
                        /\ \A t \in Orders : envSlot'[f][t] = "PENDING" => envBy'[f][t] = None
        BY DEF EnvelopesAgree
    <2>1. CASE f # e
        BY <2>1, <1>1, <1>4, <1>5, <1>7, <1>8, <1>9 DEF EnvelopesAgree
    <2>2. CASE f = e
        <3>1. envStatus'[f] \in EnvelopeStatus
            BY <2>2, <1>1, <1>2, <1>5, <1>7 DEF EnvelopeStatus
        <3>2. \A t \in Orders : envSlot'[f][t] = "PENDING" => envBy'[f][t] = None
            BY <2>2, <1>3, <1>8, <1>9 DEF EnvelopesAgree
        <3>3. envStatus'[f] = "PENDING" => \A t \in Orders : envSlot'[f][t] # "REJECTED"
            BY <2>2, <1>1, <1>2, <1>5, <1>7, <1>8 DEF EnvelopesAgree
        <3>4. envStatus'[f] = "COMPLETED" => \A t \in Orders : envSlot'[f][t] = "SIGNED"
            BY <2>2, <1>1, <1>2, <1>5, <1>7, <1>8
        <3> QED
            BY <3>1, <3>2, <3>3, <3>4, NoneAssumption
    <2> QED
        BY <2>1, <2>2
<1>16. SignersAreResolved'
    BY <1>1, <1>2, <1>4, <1>5, <1>7, <1>8, <1>9, NoneAssumption
       DEF SignersAreResolved, EnvelopeStatus, slotVars
<1>17. SignedInTurn'
    <2> SUFFICES ASSUME NEW f \in Envelopes, NEW t \in Orders, NEW u \in Orders,
                        t < u, envSlot'[f][u] # "PENDING"
                 PROVE  envSlot'[f][t] = "SIGNED"
        BY DEF SignedInTurn
    <2>1. CASE f = e /\ u = s
        <3>1. t \in 1..(s - 1) /\ t # s
            BY <2>1, NAssumption DEF Orders
        <3>2. envSlot[e][t] # "PENDING" /\ envSlot[e][t] # "REJECTED"
            BY <3>1, <1>1, <1>2 DEF EnvelopesAgree
        <3> QED
            BY <2>1, <3>1, <3>2, <1>1, <1>7, <1>8 DEF SlotStatus
    <2>2. CASE ~(f = e /\ u = s)
        BY <2>2, <1>2, <1>8 DEF SignedInTurn
    <2> QED
        BY <2>1, <2>2
<1>18. ClosedIsBacked'
    BY <1>2, <1>4, <1>8 DEF ClosedIsBacked, docVars
<1>19. SignedPdfIsComplete'
    BY <1>2, <1>4, <1>8 DEF SignedPdfIsComplete, docVars, TypeOK
<1> QED
    BY <1>12, <1>13, <1>14, <1>15, <1>16, <1>17, <1>18, <1>19

\* A sync copies an old snapshot to the acta's turns; if it closes the acta, the
\* envelope it read still holds what the snapshot says.
LEMMA ApplySteps ==
    ASSUME IInv, NEW w \in Workers, ApplyStatus(w) \/ CloseDocument(w) \/ LifecycleFails(w)
    PROVE  IInv'
<1> DEFINE j == [Idle EXCEPT !.pc = "storePdf"]
<1> USE DEF IInv
<1>1. CopyStatuses(w) /\ job[w].snap \in Statuses
    BY DEF ApplyStatus, CloseDocument, LifecycleFails, TypeOK, Job
<1>2. j \in Job /\ j.pc = "storePdf" /\ job \in [Workers -> Job] /\ job' = [job EXCEPT ![w] = j]
    BY <1>1, IdleIsAJob DEF CopyStatuses, Go, TypeOK, Job, Steps, Idle
<1> HIDE DEF j
<1>3. \/ UNCHANGED docStatus
      \/ /\ docStatus = "PENDING_SIGNATURE"
         /\ docStatus' = Target(job[w].snap)
         /\ docStatus' # "PENDING_SIGNATURE"
    BY DEF ApplyStatus, CloseDocument, LifecycleFails, Closes
<1>4. TypeOK'
    <2>1. docStatus' \in DocStatus
        BY <1>3 DEF TypeOK, DocStatus, Target
    <2>2. lifecycleAttempts' \in 0..MaxAttempts
        BY AttemptsAssumption DEF ApplyStatus, CloseDocument, LifecycleFails, TypeOK
    <2>3. lifecycleError' \in BOOLEAN
        BY DEF ApplyStatus, CloseDocument, LifecycleFails, TypeOK
    <2> QED
        BY <1>1, <1>2, <2>1, <2>2, <2>3 DEF CopyStatuses, TypeOK, envVars
<1>5. JobsAreReady'
    BY <1>1, <1>2, <1>3 DEF JobsAreReady, CopyStatuses
<1>6. SnapshotsAreOld'
    BY <1>1, <1>2 DEF SnapshotsAreOld, CopyStatuses, envVars
<1>7. EnvelopesAgree' /\ SignersAreResolved'
    BY <1>1 DEF EnvelopesAgree, SignersAreResolved, CopyStatuses, envVars
<1>8. SignedInTurn'
    BY <1>1 DEF SignedInTurn, CopyStatuses, envVars
<1>9. ClosedIsBacked'
    <2>1. job[w].env \in Envelopes
        BY <1>1 DEF CopyStatuses, JobsAreReady
    <2>2. \A s \in Orders : job[w].snap[s] # "PENDING" => envSlot[job[w].env][s] = job[w].snap[s]
        BY <1>1 DEF CopyStatuses, SnapshotsAreOld
    <2>3. envSlot' = envSlot
        BY <1>1 DEF CopyStatuses, envVars
    <2>4. CASE UNCHANGED docStatus
        BY <2>3, <2>4 DEF ClosedIsBacked
    <2>5. CASE docStatus' = Target(job[w].snap) /\ docStatus' # "PENDING_SIGNATURE"
        BY <2>1, <2>2, <2>3, <2>5 DEF ClosedIsBacked, Target
    <2> QED
        BY <1>3, <2>4, <2>5
<1>10. SignedPdfIsComplete'
    BY <1>1, <1>3 DEF SignedPdfIsComplete, CopyStatuses, envVars
<1> QED
    BY <1>4, <1>5, <1>6, <1>7, <1>8, <1>9, <1>10

LEMMA SaveSignedPdfStep ==
    ASSUME IInv, NEW w \in Workers, SaveSignedPdf(w)
    PROVE  IInv'
<1> USE DEF IInv, SaveSignedPdf
<1>1. Idle.pc = "idle" /\ job \in [Workers -> Job] /\ job' = [job EXCEPT ![w] = Idle]
    BY DEF Idle, TypeOK, Finish, Go
<1>2. job[w].env \in Envelopes /\ docStatus = "SIGNED"
    BY DEF JobsAreReady
<1>3. TypeOK'
    BY <1>1, <1>2, IdleIsAJob DEF TypeOK, slotVars, envVars
<1>4. JobsAreReady' /\ SnapshotsAreOld'
    BY <1>1 DEF JobsAreReady, SnapshotsAreOld, envVars
<1>5. EnvelopesAgree' /\ SignersAreResolved'
    BY DEF EnvelopesAgree, SignersAreResolved, slotVars, envVars
<1>6. SignedInTurn' /\ ClosedIsBacked'
    BY DEF SignedInTurn, ClosedIsBacked, envVars
<1>7. SignedPdfIsComplete'
    BY <1>2 DEF SignedPdfIsComplete, EnvelopesAgree, envVars
<1> QED
    BY <1>3, <1>4, <1>5, <1>6, <1>7

\* A reassignment keeps the signers eligible and distinct, and reaches only an
\* envelope in which nobody has acted.
LEMMA ReassignStep ==
    ASSUME IInv, NEW s \in Orders, NEW p \in Persons, ReassignSigner(s, p)
    PROVE  IInv'
<1> DEFINE designated == [slotPerson EXCEPT ![s] = p]
<1> USE DEF IInv, ReassignSigner
<1>1. designated \in Resolved /\ designated \in Signers
    BY DEF SignersAreResolved, Resolved, Signers, Untaken
<1> HIDE DEF designated
<1>2. /\ UNCHANGED <<docStatus, docRef, lifecycleError, lifecycleAttempts, signedPdf, job>>
      /\ UNCHANGED <<slotStatus, envStatus, envSlot, envBy>>
      /\ slotPerson' = designated /\ docPdf' = designated
    BY DEF designated, envVars
<1>3. \/ UNCHANGED <<envPdf, envPerson>>
      \/ /\ docRef \in Envelopes
         /\ envSlot[docRef] = AllPending
         /\ envPdf' = [envPdf EXCEPT ![docRef] = designated]
         /\ envPerson' = [envPerson EXCEPT ![docRef] = designated]
    BY DEF designated, envVars, Reissuable, TypeOK
<1>4. TypeOK'
    BY <1>1, <1>2, <1>3 DEF TypeOK
<1>5. JobsAreReady' /\ SnapshotsAreOld' /\ EnvelopesAgree'
    BY <1>2 DEF JobsAreReady, SnapshotsAreOld, EnvelopesAgree
<1>6. SignersAreResolved'
    <2>1. SignersAreResolved
        OBVIOUS
    <2>2. envPerson \in [Envelopes -> Signers \cup {None}]
        BY DEF TypeOK
    <2> HIDE DEF IInv, ReassignSigner
    <2>3. CASE UNCHANGED <<envPdf, envPerson>>
        BY <1>1, <1>2, <2>1, <2>3 DEF SignersAreResolved
    <2>4. CASE /\ docRef \in Envelopes
               /\ envSlot[docRef] = AllPending
               /\ envPerson' = [envPerson EXCEPT ![docRef] = designated]
        <3>1. /\ envPerson'[docRef] = designated
              /\ \A e \in Envelopes \ {docRef} : envPerson'[e] = envPerson[e]
            BY <2>2, <2>4
        <3>2. \A t \in Orders : envSlot[docRef][t] = "PENDING"
            BY <2>4 DEF AllPending
        <3> QED
            BY <1>1, <1>2, <2>1, <3>1, <3>2 DEF SignersAreResolved
    <2> QED
        BY <1>3, <2>3, <2>4
<1>7. SignedInTurn' /\ ClosedIsBacked' /\ SignedPdfIsComplete'
    BY <1>2 DEF SignedInTurn, ClosedIsBacked, SignedPdfIsComplete
<1> QED
    BY <1>4, <1>5, <1>6, <1>7

LEMMA VoidStep ==
    ASSUME IInv, VoidForEntity
    PROVE  IInv'
<1>1. envStatus \in [Envelopes -> EnvelopeStatus \cup {None}]
    BY DEF IInv, TypeOK
<1>2. \/ envStatus' = envStatus
      \/ envStatus[docRef] = "PENDING" /\ envStatus' = [envStatus EXCEPT ![docRef] = "VOIDED"]
    BY DEF VoidForEntity
<1>3. /\ docStatus = "PENDING_SIGNATURE" /\ docStatus' = "VOIDED" /\ lifecycleError' = FALSE
      /\ UNCHANGED <<docRef, docPdf, lifecycleAttempts, signedPdf, slotVars,
                     envPdf, envPerson, envSlot, envBy, job>>
    BY DEF VoidForEntity
<1>4. \A e \in Envelopes : \/ envStatus'[e] = envStatus[e]
                           \/ envStatus[e] = "PENDING" /\ envStatus'[e] = "VOIDED"
    BY <1>1, <1>2
<1>5. envStatus' \in [Envelopes -> EnvelopeStatus \cup {None}]
    BY <1>1, <1>2 DEF EnvelopeStatus
<1>6. TypeOK'
    BY <1>3, <1>5 DEF IInv, TypeOK, DocStatus, slotVars
<1>7. JobsAreReady' /\ SnapshotsAreOld'
    BY <1>3 DEF IInv, JobsAreReady, SnapshotsAreOld
<1>8. EnvelopesAgree' /\ SignersAreResolved'
    BY <1>3, <1>4, NoneAssumption
       DEF IInv, EnvelopesAgree, SignersAreResolved, EnvelopeStatus, slotVars
<1>9. SignedInTurn' /\ ClosedIsBacked' /\ SignedPdfIsComplete'
    BY <1>3 DEF IInv, SignedInTurn, ClosedIsBacked, SignedPdfIsComplete
<1> QED
    BY <1>6, <1>7, <1>8, <1>9 DEF IInv

-----------------------------------------------------------------------------

LEMMA NextIInv == IInv /\ [Next]_vars => IInv'
<1> SUFFICES ASSUME IInv, [Next]_vars PROVE IInv'
    OBVIOUS
<1>1. CASE UNCHANGED vars
    <2>1. UNCHANGED <<docVars, slotVars, envVars, job>>
        BY <1>1 DEF vars
    <2> QED
        BY <2>1 DEF IInv, TypeOK, JobsAreReady, SnapshotsAreOld, EnvelopesAgree, SignersAreResolved,
                    SignedInTurn, ClosedIsBacked, SignedPdfIsComplete, docVars, slotVars, envVars
<1>2. ASSUME NEW w \in Workers, WorkerStep(w) PROVE IInv'
    BY <1>2, RequestSteps, SyncSteps, PdfAndEndSteps, InsertEnvelopeStep, SaveReferenceStep,
       TurnStep, ApplySteps, SaveSignedPdfStep DEF WorkerStep
<1>3. ASSUME NEW w \in Workers, Start(w) \/ Abort(w) PROVE IInv'
    BY <1>3, RequestSteps, SyncSteps, PdfAndEndSteps DEF Start
<1> QED
    BY <1>1, <1>2, <1>3, ReassignStep, VoidStep DEF Next

\* For any number of turns, persons, workers and envelopes, every reachable
\* state of an acta's signing satisfies the inductive invariant.
THEOREM Invariance == Spec => []IInv
BY InitIInv, NextIInv, PTL DEF Spec

\* Every variable keeps its type.
THEOREM TypeCorrect == Spec => []TypeOK
<1>1. IInv => TypeOK
    BY DEF IInv
<1> QED
    BY <1>1, Invariance, PTL

\* No turn of an envelope is used before an earlier one: nextSigner's check under
\* the envelope's lock is enough, whatever the requests in flight have read.
THEOREM InTurn == Spec => []SignedInTurn
<1>1. IInv => SignedInTurn
    BY DEF IInv
<1> QED
    BY <1>1, Invariance, PTL

\* syncSignatures closes an acta only on signatures or a rejection that some
\* envelope holds, although it decides from a snapshot read before the lock.
THEOREM Backed == Spec => []ClosedIsBacked
<1>1. IInv => ClosedIsBacked
    BY DEF IInv
<1> QED
    BY <1>1, Invariance, PTL

\* storeSignedPdf never keeps the PDF of an envelope that lacks a signature.
THEOREM PdfComplete == Spec => []SignedPdfIsComplete
<1>1. IInv => SignedPdfIsComplete
    BY DEF IInv
<1> QED
    BY <1>1, Invariance, PTL

\* Whoever acts in an envelope is its designated, eligible signer for that turn,
\* and nobody acts at two turns of it, whatever reassignments race with it.
THEOREM Separation == Spec => []SeparateDesignatedSigners
<1>1. IInv => SeparateDesignatedSigners
    <2> SUFFICES ASSUME IInv, NEW e \in Envelopes, NEW s \in Orders, envSlot[e][s] # "PENDING"
                 PROVE  /\ envBy[e][s] = envPerson[e][s]
                        /\ envBy[e][s] \in Eligible[s]
                        /\ \A t \in Orders : envBy[e][t] = envBy[e][s] => t = s
        BY DEF SeparateDesignatedSigners
    <2>1. envBy[e][s] = envPerson[e][s]
        BY DEF IInv, SignersAreResolved
    <2>2. envStatus[e] # None
        BY DEF IInv, EnvelopesAgree, AllPending
    <2>3. envPerson[e] \in Resolved
        BY <2>2 DEF IInv, SignersAreResolved
    <2>4. envBy[e][s] \in Persons /\ envBy[e][s] # None
        BY <2>1, <2>3, NoneAssumption DEF Resolved, Signers
    <2>5. ASSUME NEW t \in Orders, envBy[e][t] = envBy[e][s] PROVE t = s
        <3>1. envSlot[e][t] # "PENDING"
            BY <2>4, <2>5 DEF IInv, EnvelopesAgree
        <3>2. envPerson[e][t] = envPerson[e][s]
            BY <2>1, <2>5, <3>1 DEF IInv, SignersAreResolved
        <3> QED
            BY <2>3, <3>2 DEF Resolved
    <2> QED
        BY <2>1, <2>3, <2>5 DEF Resolved
<1> QED
    BY <1>1, Invariance, PTL

\* Nothing reopens or re-decides a closed acta.
THEOREM Final == Spec => ClosedIsFinal
<1>1. [Next]_vars => [docStatus # "PENDING_SIGNATURE" => docStatus' = docStatus]_vars
    BY DEF Next, WorkerStep, Start, Abort, vars, docVars,
           RequestSignatures, SignatureRequestFor, InsertEnvelope, SaveReference,
           PrepareSignerAction, RereadReference, Capture, Reject, CaptureRefused,
           SyncSignatures, RetryLifecycle, ReadStatus, ApplyStatus, CloseDocument, LifecycleFails,
           Closes, RetrySignedPdfs, StoreSignedPdf, SaveSignedPdf, ReassignSigner, VoidForEntity
<1> QED
    BY <1>1, PTL DEF Spec, ClosedIsFinal

\* An act recorded in an envelope, and the signers and PDF it was given on, never
\* change afterwards: reissue only reaches envelopes nobody has acted in.
THEOREM Frozen == Spec => EvidenceIsFrozen
<1> DEFINE Keeps == \A e \in Envelopes : \A s \in Orders :
                       envSlot[e][s] # "PENDING" =>
                           /\ envSlot'[e][s] = envSlot[e][s]
                           /\ envBy'[e][s] = envBy[e][s]
                           /\ envPerson'[e] = envPerson[e]
                           /\ envPdf'[e] = envPdf[e]
<1>1. IInv /\ [Next]_vars => [Keeps]_vars
    <2> SUFFICES ASSUME IInv, Next PROVE Keeps
        OBVIOUS
    <2>1. CASE UNCHANGED envVars
        BY <2>1 DEF envVars
    <2>2. ASSUME NEW w \in Workers, NEW e \in Envelopes, InsertEnvelope(w, e) PROVE Keeps
        BY <2>2 DEF InsertEnvelope, IInv, EnvelopesAgree, AllPending, TypeOK
    <2>3. ASSUME NEW w \in Workers, Capture(w) \/ Reject(w) PROVE Keeps
        <3>1. /\ job[w].env \in Envelopes
              /\ envSlot[job[w].env][job[w].order] = "PENDING"
            BY <2>3 DEF Capture, Reject, NextSigner, IsTurn, IInv, JobsAreReady
        <3>2. /\ envSlot \in [Envelopes -> [Orders -> SlotStatus]]
              /\ envBy \in [Envelopes -> [Orders -> Persons \cup {None}]]
            BY DEF IInv, TypeOK, Statuses
        <3>3. PICK a : /\ envSlot' = [envSlot EXCEPT ![job[w].env][job[w].order] = a]
                       /\ envBy' = [envBy EXCEPT ![job[w].env][job[w].order] = job[w].person]
                       /\ UNCHANGED <<envPdf, envPerson>>
            BY <2>3 DEF Capture, Reject
        <3> QED
            BY <3>1, <3>2, <3>3
    <2>4. ASSUME NEW s \in Orders, NEW p \in Persons, ReassignSigner(s, p) PROVE Keeps
        BY <2>4 DEF ReassignSigner, Reissuable, AllPending, IInv, TypeOK, envVars
    <2>5. CASE VoidForEntity
        BY <2>5 DEF VoidForEntity
    <2> QED
        BY <2>1, <2>2, <2>3, <2>4, <2>5
           DEF Next, WorkerStep, Start, Abort,
               RequestSignatures, SignatureRequestFor, SaveReference, PrepareSignerAction,
               RereadReference, CaptureRefused, SyncSignatures, RetryLifecycle, ReadStatus,
               ApplyStatus, CloseDocument, LifecycleFails, CopyStatuses, RetrySignedPdfs,
               StoreSignedPdf, SaveSignedPdf
<1> QED
    BY <1>1, Invariance, PTL DEF Spec, EvidenceIsFrozen

\* nextSigner, prepareSignerAction and reassignSigner together: the turns of an
\* envelope are used in order, each by the person designated for it.
THEOREM SignersInTurn == Spec => []SignersInv
<1>1. SignedInTurn /\ SeparateDesignatedSigners => SignersInv
    BY DEF SignersInv
<1> QED
    BY <1>1, InTurn, Separation, PTL

\* What is decided and what is signed stay as they are.
THEOREM Settled == Spec => SettledStays
BY Final, Frozen, PTL DEF SettledStays

============================================================================
