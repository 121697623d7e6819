--------------------------- MODULE HandoverProcess ---------------------------
(***************************************************************************)
(* Handovers of assets to the person who answers for them:                 *)
(* HandoversService and the lifecycle of the handover acta.                *)
(***************************************************************************)
EXTENDS AssetCustody

handoverOthers == <<loan, transfer, writeOff, request, inventory, edit>>

CloseHandover(h, status) == handover' = [handover EXCEPT ![h].status = status, ![h].open = {}]

\* assertAssets, assertNotHeld and assertNotInOpenHandover.  The assets are
\* locked FOR SHARE; the unique index on the open items settles two
\* handovers that get here together.
HandoverItems(S, c) ==
    \A a \in S : /\ assetStatus[a] \notin Immovable
                 /\ assetCenter[a] = c
                 /\ ~HeldByLoan(a)
                 /\ ~HeldByRequest(a, None)
                 /\ ~HeldByTransfer(a, None)
                 /\ ~HeldByWriteOff(a, None)
                 /\ ~HeldByHandover(a)

HandoverCreate(h, S, c, k) ==
    /\ handover[h].status = "NONE"
    /\ S # {}
    /\ HandoverItems(S, c)
    /\ Enqueue(k, h, "MAIN")
    /\ handover' = [handover EXCEPT ![h] = [NoHandover EXCEPT !.status = "AWAITING_DOCUMENT", !.items = S,
                                              !.open = S, !.center = c]]
    /\ UNCHANGED <<assetVars, cancelling, handoverOthers>>

HandoverActaGenerated(k) ==
    \E h \in Handovers :
      /\ acta[k].owner = h
      /\ handover[h].status = "AWAITING_DOCUMENT"
      /\ handover[h].document = None
      /\ Generates(k)
      /\ handover' = [handover EXCEPT ![h].document = k, ![h].status = "PENDING_SIGNATURE"]
      /\ UNCHANGED <<assetVars, cancelling, handoverOthers>>

\* Mutant: an asset lent meanwhile is handed over.
StillDeliverableOnLoan(h, a) == assetStatus[a] # "WRITTEN_OFF" /\ assetCenter[a] = handover[h].center

\* assertStillDeliverable, on the locked asset.
StillDeliverable(h, a) == assetStatus[a] \notin Immovable /\ assetCenter[a] = handover[h].center

\* The receiver is whoever holds the RECIBE turn by
\* then, which a reassignment may have changed.
HandoverActaSigned(k) ==
    \E h \in Handovers, receiver \in Persons :
      /\ acta[k].owner = h
      /\ handover[h].document = k
      /\ handover[h].status = "PENDING_SIGNATURE"
      /\ \A a \in handover[h].items : StillDeliverable(h, a)
      /\ ClosesSigned(k)
      /\ responsible' = [a \in Assets |-> IF a \in handover[h].items THEN receiver ELSE responsible[a]]
      /\ CloseHandover(h, "SIGNED")
      /\ UNCHANGED <<assetStatus, assetCenter, cancelling, handoverOthers>>

HandoverActaRejected(k) ==
    \E h \in Handovers :
      /\ acta[k].owner = h
      /\ handover[h].document = k
      /\ handover[h].status = "PENDING_SIGNATURE"
      /\ ClosesRejected(k)
      /\ CloseHandover(h, "REJECTED")
      /\ UNCHANGED <<assetVars, cancelling, handoverOthers>>

\* A handover is created together with its acta, so there is always a live
\* acta to void: its locked rows make the whole cancellation one step.
HandoverCancel(h) ==
    /\ handover[h].status \in {"AWAITING_DOCUMENT", "PENDING_SIGNATURE"}
    /\ VoidForEntity(h)
    /\ CloseHandover(h, "CANCELLED")
    /\ UNCHANGED <<assetVars, cancelling, handoverOthers>>

HandoverNext ==
    \/ \E h \in Handovers :
         \/ \E S \in SUBSET Assets, c \in Centers, k \in Actas : HandoverCreate(h, S, c, k)
         \/ HandoverCancel(h)
    \/ \E k \in Actas : HandoverActaGenerated(k) \/ HandoverActaSigned(k) \/ HandoverActaRejected(k)

=============================================================================
