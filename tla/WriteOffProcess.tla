--------------------------- MODULE WriteOffProcess ---------------------------
(***************************************************************************)
(* Write-offs with an acta: WriteOffsService and the lifecycle of the      *)
(* write-off acta.  A cancellation locks the write-off before anything     *)
(* else: while cancelling[w] = "checked" nobody else gets that lock.       *)
(***************************************************************************)
EXTENDS AssetCustody

writeOffOthers == <<loan, transfer, handover, request, inventory, edit>>

\* Mutant: the write-off is not locked.
NeverLocked(w) == TRUE

Unlocked(w) == cancelling[w] = "no"
CloseWriteOff(w, status) == writeOff' = [writeOff EXCEPT ![w].status = status, ![w].open = {}]

\* assertAssets: the assets are locked, then nothing may hold them.
WriteOffItems(S, w) ==
    \A a \in S : /\ assetStatus[a] \notin Immovable
                 /\ ~HeldByLoan(a)
                 /\ ~HeldByTransfer(a, None)
                 /\ ~HeldByInventory(a)
                 /\ ~HeldByHandover(a)
                 /\ ~HeldByRequest(a, None)
                 /\ ~HeldByWriteOff(a, w)

WriteOffCreate(w, S) ==
    /\ writeOff[w].status = "NONE"
    /\ S # {}
    /\ WriteOffItems(S, w)
    /\ writeOff' = [writeOff EXCEPT ![w] = [NoWriteOff EXCEPT !.status = "DRAFT", !.items = S, !.open = S]]
    /\ UNCHANGED <<assetVars, acta, cancelling, writeOffOthers>>

\* update deletes the rows before it checks the new ones.
WriteOffUpdate(w, S) ==
    /\ Unlocked(w)
    /\ writeOff[w].status = "DRAFT"
    /\ S # {}
    /\ WriteOffItems(S, w)
    /\ writeOff' = [writeOff EXCEPT ![w].items = S, ![w].open = S]
    /\ UNCHANGED <<assetVars, acta, cancelling, writeOffOthers>>

WriteOffGenerate(w, k) ==
    /\ Unlocked(w)
    /\ writeOff[w].status = "DRAFT"
    /\ WriteOffItems(writeOff[w].items, w)
    /\ Enqueue(k, w, "MAIN")
    /\ writeOff' = [writeOff EXCEPT ![w].status = "PENDING_SIGNATURES"]
    /\ UNCHANGED <<assetVars, cancelling, writeOffOthers>>

WriteOffActaGenerated(k) ==
    \E w \in WriteOffs :
      /\ acta[k].owner = w
      /\ Unlocked(w)
      /\ writeOff[w].status = "PENDING_SIGNATURES"
      /\ writeOff[w].document = None
      /\ Generates(k)
      /\ writeOff' = [writeOff EXCEPT ![w].document = k]
      /\ UNCHANGED <<assetVars, cancelling, writeOffOthers>>

\* The guard of each asset looks at its status only.
WriteOffActaSigned(k) ==
    \E w \in WriteOffs :
      /\ acta[k].owner = w
      /\ Unlocked(w)
      /\ writeOff[w].document = k
      /\ writeOff[w].status = "PENDING_SIGNATURES"
      /\ \A a \in writeOff[w].items : assetStatus[a] \notin Immovable
      /\ ClosesSigned(k)
      /\ assetStatus' = [a \in Assets |-> IF a \in writeOff[w].items THEN "WRITTEN_OFF" ELSE assetStatus[a]]
      /\ CloseWriteOff(w, "COMPLETED")
      /\ UNCHANGED <<assetCenter, responsible, cancelling, writeOffOthers>>

WriteOffActaRejected(k) ==
    \E w \in WriteOffs :
      /\ acta[k].owner = w
      /\ Unlocked(w)
      /\ writeOff[w].document = k
      /\ writeOff[w].status = "PENDING_SIGNATURES"
      /\ ClosesRejected(k)
      /\ CloseWriteOff(w, "REJECTED")
      /\ UNCHANGED <<assetVars, cancelling, writeOffOthers>>

\* cancel locks the write-off and counts the signatures of its acta; the acta
\* itself is not locked until voidForEntity.
WriteOffCancelChecks(w) ==
    /\ Unlocked(w)
    /\ writeOff[w].status \in {"DRAFT", "PENDING_SIGNATURES"}
    /\ ~\E k \in ActasOf(w) : acta[k].status = "PENDING_SIGNATURE" /\ acta[k].signed
    /\ cancelling' = [cancelling EXCEPT ![w] = "checked"]
    /\ UNCHANGED <<assetVars, processVars, acta, edit>>

WriteOffCancelCloses(w) ==
    /\ cancelling[w] = "checked"
    /\ VoidForEntity(w)
    /\ CloseWriteOff(w, "CANCELLED")
    /\ cancelling' = [cancelling EXCEPT ![w] = "no"]
    /\ UNCHANGED <<assetVars, writeOffOthers>>

WriteOffNext ==
    \/ \E w \in WriteOffs :
         \/ \E S \in SUBSET Assets : WriteOffCreate(w, S) \/ WriteOffUpdate(w, S)
         \/ \E k \in Actas : WriteOffGenerate(w, k)
         \/ WriteOffCancelChecks(w) \/ WriteOffCancelCloses(w)
    \/ \E k \in Actas : WriteOffActaGenerated(k) \/ WriteOffActaSigned(k) \/ WriteOffActaRejected(k)

=============================================================================
