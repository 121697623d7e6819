----------------------------- MODULE SigningLinks -----------------------------
(***************************************************************************)
(* Signing by e-mail link, for one acta whose signers have no user:        *)
(* SigningLinkService (refresh, resend, invalidate, dispatchPending,       *)
(* dispatchOne) and the link operations of DocumentEngineService           *)
(* (confirmSigningLinkIdentity, signByLink, rejectByLink, actByLink), with *)
(* what moves the turns under them: syncSignatures, reassignSigner and     *)
(* voidForEntity.  "captured" is what the envelope says of each turn, and  *)
(* "turn" the copy of it in document_signature, on which the links go.     *)
(*                                                                         *)
(* Time is the lapse of a claim (LINK_SEND_RETRY_MINUTES) and of a link    *)
(* (SIGNING_LINK_TTL_HOURS); the ten minutes of a confirmed identity may   *)
(* lapse at any moment too.                                                *)
(***************************************************************************)
EXTENDS Naturals, FiniteSets

CONSTANTS
    Signers,             \* persons who can only sign by link
    Links,               \* identifiers of links: bounds how many are created
    Senders, Syncers,    \* concurrent dispatches and syncs
    LastTurn,
    MaxSends,            \* MAX_LINK_SEND_ATTEMPTS
    MaxWrong,            \* MAX_IDENTITY_ATTEMPTS
    MaxTokens,           \* bound: tokens ever issued
    MaxLinkEvents,       \* bound: deaths, lapses, reassignments and resends, together
    NoLink, NoSigner

Turns == 1..LastTurn

ASSUME LinkAssumption ==
    /\ NoLink \notin Links /\ NoSigner \notin Signers
    /\ LastTurn \in Nat \ {0} /\ MaxSends \in Nat \ {0} /\ MaxWrong \in Nat \ {0}
    /\ MaxTokens \in Nat /\ MaxLinkEvents \in Nat

VARIABLES
    actaStatus,   \* document.status
    turn,         \* document_signature.status
    signer,       \* document_signature.signer_person_id, the envelope's too
    captured,     \* signature_envelope_signer.status
    link,         \* signature_signing_link
    sender,       \* a dispatchOne between its claim and its last update
    mailed,       \* the tokens that went out
    tokens,       \* how many tokens were issued
    syncer,       \* a syncSignatures, or the refresh that ends it
    linkEvents

actaVars == <<actaStatus, turn, signer, captured>>
linkVars == <<actaVars, link, sender, mailed, tokens, syncer, linkEvents>>

TurnStatus == {"PENDING", "SIGNED", "REJECTED"}
Reasons == {"NONE", "RESENT", "ATTEMPTS_EXCEEDED", "REASSIGNED", "VOIDED", "TURN_CHANGED"}
LinkRecord == [state : {"ABSENT", "OPEN", "CONSUMED", "INVALIDATED"}, reason : Reasons,
               order : 0..LastTurn, person : Signers \cup {NoSigner}, token : 0..MaxTokens,
               delivery : {"PENDING_SEND", "SENT", "FAILED"}, attempts : 0..MaxTokens, claimed : BOOLEAN,
               expired : BOOLEAN, wrong : 0..MaxWrong, confirmed : BOOLEAN]

LinkTypeOK ==
    /\ actaStatus \in {"PENDING_SIGNATURE", "SIGNED", "REJECTED", "VOIDED"}
    /\ turn \in [Turns -> TurnStatus] /\ captured \in [Turns -> TurnStatus]
    /\ signer \in [Turns -> Signers]
    /\ link \in [Links -> LinkRecord]
    /\ sender \in [Senders -> [pc : {"idle", "claimed", "sent", "failed"}, link : Links \cup {NoLink}, token : 0..MaxTokens]]
    /\ mailed \subseteq 1..MaxTokens
    /\ tokens \in 0..MaxTokens
    /\ syncer \in [Syncers -> [pc : {"idle", "apply", "refresh"}, seen : [Turns -> TurnStatus]]]
    /\ linkEvents \in 0..MaxLinkEvents

NewLink(t) ==
    [state |-> "OPEN", reason |-> "NONE", order |-> t, person |-> signer[t], token |-> 0, delivery |-> "PENDING_SEND",
     attempts |-> 0, claimed |-> FALSE, expired |-> FALSE, wrong |-> 0, confirmed |-> FALSE]

\* The acta has just been generated; afterGeneration is about to refresh.
LinkInit ==
    /\ actaStatus = "PENDING_SIGNATURE"
    /\ turn = [t \in Turns |-> "PENDING"] /\ captured = turn
    /\ signer \in {f \in [Turns -> Signers] : \A t, u \in Turns : f[t] = f[u] => t = u}
    /\ link = [l \in Links |-> [state |-> "ABSENT", reason |-> "NONE", order |-> 0, person |-> NoSigner, token |-> 0,
                                delivery |-> "PENDING_SEND", attempts |-> 0, claimed |-> FALSE, expired |-> FALSE,
                                wrong |-> 0, confirmed |-> FALSE]]
    /\ sender = [s \in Senders |-> [pc |-> "idle", link |-> NoLink, token |-> 0]]
    /\ mailed = {} /\ tokens = 0 /\ linkEvents = 0
    /\ \E y \in Syncers : syncer = [x \in Syncers |-> [pc |-> IF x = y THEN "refresh" ELSE "idle", seen |-> turn]]

Event == linkEvents < MaxLinkEvents /\ linkEvents' = linkEvents + 1

-----------------------------------------------------------------------------
(* Which link the acta has.                                                *)

\* currentTurn: the first pending turn of a pending acta nobody rejected.
CurrentTurns ==
    {t \in Turns : /\ actaStatus = "PENDING_SIGNATURE"
                   /\ \A u \in Turns : turn[u] # "REJECTED"
                   /\ turn[t] = "PENDING"
                   /\ \A u \in 1..(t - 1) : turn[u] # "PENDING"}

Open(l) == link[l].state = "OPEN"
Kill(l, reason) == [link[l] EXCEPT !.state = "INVALIDATED", !.reason = reason, !.confirmed = FALSE]

\* TURN_CHANGED does not clear the authorization; nothing reads it afterwards.
Outdated(l) == Open(l) /\ \A t \in CurrentTurns : link[l].order # t \/ link[l].person # signer[t]

\* refresh does not repeat a link that the person of the turn has had, unless
\* that one was taken away by a reassignment.
HadLink(t) ==
    \E l \in Links : /\ link[l].state # "ABSENT"
                     /\ link[l].order = t /\ link[l].person = signer[t]
                     /\ link[l].reason # "REASSIGNED"

\* refresh, in one transaction that has the acta.
Refresh(y) ==
    /\ syncer[y].pc = "refresh"
    /\ LET kept == [l \in Links |-> IF Outdated(l) THEN Kill(l, "TURN_CHANGED") ELSE link[l]]
           needs == {t \in CurrentTurns : ~HadLink(t)}
       IN  \/ needs = {} /\ link' = kept
           \/ \E t \in needs, l \in Links : link[l].state = "ABSENT" /\ link' = [kept EXCEPT ![l] = NewLink(t)]
    /\ syncer' = [syncer EXCEPT ![y].pc = "idle"]
    /\ UNCHANGED <<actaVars, sender, mailed, tokens, linkEvents>>

\* invalidate: the links of a turn that could still be used.
OpenFor(t) == {l \in Links : Open(l) /\ link[l].order = t}

\* resend, ordered for the current turn.
Resend(t, l) ==
    /\ t \in CurrentTurns
    /\ link[l].state = "ABSENT"
    /\ Event
    /\ link' = [m \in Links |-> IF m = l THEN NewLink(t)
                                ELSE IF m \in OpenFor(t) THEN Kill(m, "RESENT") ELSE link[m]]
    /\ UNCHANGED <<actaVars, sender, mailed, tokens, syncer>>

-----------------------------------------------------------------------------
(* Sending.                                                                *)

\* The condition of dispatchPending, which dispatchOne repeats under a lock.
Due(l) ==
    /\ Open(l)
    /\ \/ link[l].delivery = "PENDING_SEND"
       \/ link[l].delivery = "FAILED" /\ link[l].attempts < MaxSends
    /\ ~link[l].claimed

ClaimLink(s, l) ==
    /\ sender[s].pc = "idle"
    /\ Due(l)
    /\ tokens < MaxTokens
    /\ tokens' = tokens + 1
    /\ link' = [link EXCEPT ![l].token = tokens + 1, ![l].claimed = TRUE, ![l].attempts = @ + 1, ![l].expired = FALSE]
    /\ sender' = [sender EXCEPT ![s] = [pc |-> "claimed", link |-> l, token |-> tokens + 1]]
    /\ UNCHANGED <<actaVars, mailed, syncer, linkEvents>>

\* The mail server takes the mail and says so; or the send fails, before or after
\* the server took the mail.  A send that hangs is a sender that does no more.
SendMail(s, outcome) ==
    /\ sender[s].pc = "claimed"
    /\ sender' = [sender EXCEPT ![s].pc = outcome]
    /\ \/ mailed' = mailed \cup {sender[s].token}
       \/ outcome = "failed" /\ mailed' = mailed
    /\ UNCHANGED <<actaVars, link, tokens, syncer, linkEvents>>

\* Mutation: the outcome is written whoever has claimed the link since.
OwnsToken(s) == TRUE

\* The last update of dispatchOne is for the token it claimed with.
StillOwnsToken(s) == link[sender[s].link].token = sender[s].token

RecordSend(s) ==
    /\ sender[s].pc \in {"sent", "failed"}
    /\ link' = IF StillOwnsToken(s)
               THEN [link EXCEPT ![sender[s].link].delivery = IF sender[s].pc = "sent" THEN "SENT" ELSE "FAILED"]
               ELSE link
    /\ sender' = [sender EXCEPT ![s] = [pc |-> "idle", link |-> NoLink, token |-> 0]]
    /\ UNCHANGED <<actaVars, mailed, tokens, syncer, linkEvents>>

SenderDies(s) ==
    /\ sender[s].pc # "idle"
    /\ Event
    /\ sender' = [sender EXCEPT ![s] = [pc |-> "idle", link |-> NoLink, token |-> 0]]
    /\ UNCHANGED <<actaVars, link, mailed, tokens, syncer>>

ClaimLapses(l) ==
    /\ link[l].claimed
    /\ link' = [link EXCEPT ![l].claimed = FALSE]
    /\ UNCHANGED <<actaVars, sender, mailed, tokens, syncer, linkEvents>>

LinkExpires(l) ==
    /\ Open(l) /\ link[l].token # 0 /\ ~link[l].expired
    /\ Event
    /\ link' = [link EXCEPT ![l].expired = TRUE]
    /\ UNCHANGED <<actaVars, sender, mailed, tokens, syncer>>

-----------------------------------------------------------------------------
(* Using a link.                                                           *)

\* linkContext, for somebody who has the token the link has now.
Active(l) ==
    /\ Open(l) /\ ~link[l].expired
    /\ link[l].token \in mailed
    /\ link[l].order \in CurrentTurns
    /\ link[l].person = signer[link[l].order]

\* confirmSigningLinkIdentity
ConfirmIdentity(l) ==
    /\ Active(l)
    /\ link' = [link EXCEPT ![l].confirmed = TRUE]
    /\ UNCHANGED <<actaVars, sender, mailed, tokens, syncer, linkEvents>>

LastMistake(l) == link[l].wrong + 1 >= MaxWrong

MistakeIdentity(l) ==
    LET mistaken == [link[l] EXCEPT !.wrong = @ + 1, !.confirmed = FALSE]
    IN  /\ Active(l)
        /\ link' = [link EXCEPT ![l] =
              IF LastMistake(l) THEN [mistaken EXCEPT !.state = "INVALIDATED", !.reason = "ATTEMPTS_EXCEEDED"]
              ELSE mistaken]
        /\ UNCHANGED <<actaVars, sender, mailed, tokens, syncer, linkEvents>>

AuthorizationLapses(l) ==
    /\ link[l].confirmed
    /\ link' = [link EXCEPT ![l].confirmed = FALSE]
    /\ UNCHANGED <<actaVars, sender, mailed, tokens, syncer, linkEvents>>

\* Mutation: the envelope accepts a turn that was used before.
EnvelopeAcceptsAgain(t) == \A u \in 1..(t - 1) : captured[u] = "SIGNED"

\* InternalSignatureProvider.nextSigner, under the lock of the envelope.
EnvelopeAccepts(t) ==
    /\ captured[t] = "PENDING"
    /\ \A u \in 1..(t - 1) : captured[u] = "SIGNED"

\* actByLink: the capture and the use of the link are one transaction.
ActByLink(l, action) ==
    /\ Active(l)
    /\ link[l].confirmed
    /\ EnvelopeAccepts(link[l].order)
    /\ captured' = [captured EXCEPT ![link[l].order] = action]
    /\ link' = [link EXCEPT ![l].state = "CONSUMED", ![l].confirmed = FALSE]
    /\ UNCHANGED <<actaStatus, turn, signer, sender, mailed, tokens, syncer, linkEvents>>

-----------------------------------------------------------------------------
(* What moves the turns.                                                   *)

\* syncSignatures reads the envelope ...
SyncReads(y) ==
    /\ syncer[y].pc = "idle"
    /\ actaStatus = "PENDING_SIGNATURE"
    /\ syncer' = [syncer EXCEPT ![y] = [pc |-> "apply", seen |-> captured]]
    /\ UNCHANGED <<actaVars, link, sender, mailed, tokens, linkEvents>>

\* ... and applies what it read when it has the acta.
SyncApplies(y) ==
    /\ syncer[y].pc = "apply"
    /\ turn' = syncer[y].seen
    /\ actaStatus' = IF actaStatus # "PENDING_SIGNATURE" THEN actaStatus
                     ELSE IF \E t \in Turns : turn'[t] = "REJECTED" THEN "REJECTED"
                     ELSE IF \A t \in Turns : turn'[t] = "SIGNED" THEN "SIGNED"
                     ELSE actaStatus
    /\ syncer' = [syncer EXCEPT ![y].pc = "refresh"]
    /\ UNCHANGED <<signer, captured, link, sender, mailed, tokens, linkEvents>>

\* reassignSigner, which refreshes afterwards.
ReassignTurn(y, t, p) ==
    /\ syncer[y].pc = "idle"
    /\ actaStatus = "PENDING_SIGNATURE"
    /\ \A u \in Turns : turn[u] = "PENDING" /\ captured[u] = "PENDING" /\ signer[u] # p
    /\ Event
    /\ signer' = [signer EXCEPT ![t] = p]
    /\ link' = [l \in Links |-> IF l \in OpenFor(t) THEN Kill(l, "REASSIGNED") ELSE link[l]]
    /\ syncer' = [syncer EXCEPT ![y].pc = "refresh"]
    /\ UNCHANGED <<actaStatus, turn, captured, sender, mailed, tokens>>

VoidActa ==
    /\ actaStatus = "PENDING_SIGNATURE"
    /\ Event
    /\ actaStatus' = "VOIDED"
    /\ link' = [l \in Links |-> IF Open(l) THEN Kill(l, "VOIDED") ELSE link[l]]
    /\ UNCHANGED <<turn, signer, captured, sender, mailed, tokens, syncer>>

LinkNext ==
    \/ \E y \in Syncers :
         \/ Refresh(y) \/ SyncReads(y) \/ SyncApplies(y)
         \/ \E t \in Turns, p \in Signers : ReassignTurn(y, t, p)
    \/ \E s \in Senders :
         \/ RecordSend(s) \/ SenderDies(s)
         \/ \E l \in Links : ClaimLink(s, l)
         \/ \E outcome \in {"sent", "failed"} : SendMail(s, outcome)
    \/ \E l \in Links :
         \/ ClaimLapses(l) \/ LinkExpires(l) \/ ConfirmIdentity(l) \/ MistakeIdentity(l) \/ AuthorizationLapses(l)
         \/ \E action \in {"SIGNED", "REJECTED"} : ActByLink(l, action)
         \/ \E t \in Turns : Resend(t, l)
    \/ VoidActa

LinkSpec == LinkInit /\ [][LinkNext]_linkVars

-----------------------------------------------------------------------------
(* Properties.                                                             *)

\* dispatchOne replaces the token on every claim and records the outcome for
\* its own token only: a link that says SENT opens with a token that went out,
\* however late a slower sender comes back.
SentLinkOpens == \A l \in Links : link[l].delivery = "SENT" => link[l].token \in mailed

\* refresh and resend, under the lock of the acta: a turn never has two links
\* that could be used.
OneOpenLink ==
    \A l, m \in Links : Open(l) /\ Open(m) /\ link[l].order = link[m].order => l = m

\* What the dispatches, refreshes and resends of one acta keep, however they
\* interleave: well-formed links, at most one that is open for a turn, and a
\* token in the mail for each that says it was sent.
LinkInv == LinkTypeOK /\ SentLinkOpens /\ OneOpenLink

\* actByLink: every signature and every rejection of the envelope used up one
\* link, sent to the person of the turn, and no link was used for nothing.
EachActHasItsLink ==
    \A t \in Turns :
        LET used == {l \in Links : link[l].state = "CONSUMED" /\ link[l].order = t}
        IN  IF captured[t] = "PENDING" THEN used = {} ELSE \E l \in used : used = {l} /\ link[l].person = signer[t]

\* The e-mails say that whoever signs gets a link: when nothing is under way
\* and the turns are up to date, the person of the current turn has a link
\* that can be used, or had one and spent its attempts.
SignerHasLink ==
    (\A y \in Syncers : syncer[y].pc = "idle") /\ turn = captured =>
        \A t \in CurrentTurns :
            \E l \in Links : /\ link[l].order = t /\ link[l].person = signer[t]
                             /\ Open(l) \/ link[l].reason = "ATTEMPTS_EXCEEDED"
=============================================================================
