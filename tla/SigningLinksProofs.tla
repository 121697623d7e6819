-------------------------- MODULE SigningLinksProofs --------------------------
(***************************************************************************)
(* Signing by e-mail link, for any number of persons, turns, links,        *)
(* dispatches and syncs: a turn has at most one link that can be used, a   *)
(* link that says SENT has its token in a mail, and every act of the       *)
(* envelope used up one link of the person of its turn.                    *)
(***************************************************************************)
EXTENDS SigningLinks, TLAPS

\* A link when tokens up to n were issued and those in out were mailed.  What
\* is open was taken from nobody, and its mistakes are not used up.
LinkIsSound(x, n, out) ==
    /\ x \in LinkRecord
    /\ x.attempts <= n /\ x.token <= n
    /\ x.state = "OPEN" => x.reason = "NONE" /\ x.wrong < MaxWrong
    /\ x.delivery = "SENT" => x.token \in out

SenderRecord == [pc : {"idle", "claimed", "sent", "failed"}, link : Links \cup {NoLink}, token : 0..MaxTokens]

\* A dispatch has a token that was issued, and says sent when it was mailed.
SenderIsSound(x, n, out) ==
    /\ x \in SenderRecord
    /\ x.pc # "idle" => x.link \in Links /\ x.token \in 1..n
    /\ x.pc = "sent" => x.token \in out

IInv ==
    /\ LinkTypeOK
    /\ \A l \in Links : LinkIsSound(link[l], tokens, mailed)
    /\ \A s \in Senders : SenderIsSound(sender[s], tokens, mailed)
    /\ OneOpenLink
    /\ EachActHasItsLink

USE LinkAssumption DEF Turns

-----------------------------------------------------------------------------
(* Links and dispatches one at a time.                                     *)

\* Tokens are only added.
LEMMA TokensGrow ==
    ASSUME NEW n \in 0..MaxTokens, NEW m \in 0..MaxTokens, n <= m, NEW out, NEW more, out \subseteq more
    PROVE  /\ \A x : LinkIsSound(x, n, out) => LinkIsSound(x, m, more)
           /\ \A x : SenderIsSound(x, n, out) => SenderIsSound(x, m, more)
<1>1. ASSUME NEW x, LinkIsSound(x, n, out) PROVE LinkIsSound(x, m, more)
    BY <1>1 DEF LinkIsSound, LinkRecord
<1>2. ASSUME NEW x, SenderIsSound(x, n, out) PROVE SenderIsSound(x, m, more)
    BY <1>2 DEF SenderIsSound, SenderRecord
<1> QED
    BY <1>1, <1>2

\* The links that refresh and resend make.
LEMMA NewIsSound ==
    ASSUME LinkTypeOK, NEW t \in Turns
    PROVE  /\ LinkIsSound(NewLink(t), tokens, mailed)
           /\ NewLink(t).state = "OPEN" /\ NewLink(t).order = t
<1>1. NewLink(t) \in LinkRecord
    BY DEF NewLink, LinkRecord, Reasons, LinkTypeOK
<1> QED
    BY <1>1 DEF NewLink, LinkIsSound, LinkTypeOK

\* A link that is taken away keeps its turn and person.
LEMMA KilledIsSound ==
    ASSUME NEW l \in Links, LinkIsSound(link[l], tokens, mailed), NEW reason \in Reasons
    PROVE  /\ LinkIsSound(Kill(l, reason), tokens, mailed)
           /\ Kill(l, reason).state = "INVALIDATED"
           /\ Kill(l, reason).order = link[l].order /\ Kill(l, reason).person = link[l].person
<1>1. Kill(l, reason) \in LinkRecord
    BY DEF Kill, LinkIsSound, LinkRecord
<1> QED
    BY <1>1 DEF Kill, LinkIsSound, LinkRecord

-----------------------------------------------------------------------------
(* What the properties need of a step.                                     *)

\* No link is opened, used up or given to somebody else.
LinksShrink ==
    \A l \in Links :
        /\ link'[l].state = "OPEN" => Open(l)
        /\ link'[l].state = "CONSUMED" <=> link[l].state = "CONSUMED"
        /\ link'[l].order = link[l].order /\ link'[l].person = link[l].person

LEMMA ShrinkKeeps ==
    ASSUME IInv, LinksShrink, UNCHANGED <<captured, signer>>
    PROVE  OneOpenLink' /\ EachActHasItsLink'
<1>1. OneOpenLink'
    BY DEF IInv, OneOpenLink, LinksShrink, Open
<1>2. ASSUME NEW t \in Turns
      PROVE  {l \in Links : link[l].state = "CONSUMED" /\ link[l].order = t}'
               = {l \in Links : link[l].state = "CONSUMED" /\ link[l].order = t}
    BY DEF LinksShrink
<1>3. EachActHasItsLink'
    BY <1>2 DEF IInv, EachActHasItsLink, LinksShrink
<1> QED
    BY <1>1, <1>3

\* One link changes, and what makes it sound is known.
LEMMA LinkStep ==
    ASSUME IInv, NEW l \in Links, NEW x, LinkIsSound(x, tokens, mailed), link' = [link EXCEPT ![l] = x],
           UNCHANGED <<actaVars, sender, mailed, tokens, syncer>>, linkEvents' \in 0..MaxLinkEvents
    PROVE  /\ LinkTypeOK'
           /\ \A m \in Links : LinkIsSound(link'[m], tokens', mailed')
           /\ \A s \in Senders : SenderIsSound(sender'[s], tokens', mailed')
<1>1. link' \in [Links -> LinkRecord]
    BY DEF IInv, LinkTypeOK, LinkIsSound
<1>2. LinkTypeOK'
    BY <1>1 DEF IInv, LinkTypeOK, actaVars
<1>3. \A m \in Links : LinkIsSound(link'[m], tokens, mailed)
    BY DEF IInv, LinkTypeOK
<1> QED
    BY <1>2, <1>3 DEF IInv

\* The use a link is put to without using it up.
LEMMA LinkFieldStep ==
    ASSUME IInv, NEW l \in Links, NEW x, LinkIsSound(x, tokens, mailed), link' = [link EXCEPT ![l] = x],
           x.state = "OPEN" => Open(l), x.state = "CONSUMED" <=> link[l].state = "CONSUMED",
           x.order = link[l].order, x.person = link[l].person,
           UNCHANGED <<actaVars, sender, mailed, tokens, syncer>>, linkEvents' \in 0..MaxLinkEvents
    PROVE  IInv'
<1>1. LinksShrink
    BY DEF LinksShrink, IInv, LinkTypeOK, Open
<1>2. OneOpenLink' /\ EachActHasItsLink'
    BY <1>1, ShrinkKeeps DEF actaVars
<1> QED
    BY <1>2, LinkStep DEF IInv

LEMMA EventCounts == LinkTypeOK /\ Event => linkEvents' \in 0..MaxLinkEvents
BY DEF LinkTypeOK, Event


-----------------------------------------------------------------------------
(* The steps that send links and those of who opens one.                   *)

\* dispatchOne: the claim gives the link a new token and takes it from whoever
\* sent the old one.
LEMMA ClaimKeeps ==
    ASSUME IInv, NEW s \in Senders, NEW l \in Links, ClaimLink(s, l)
    PROVE  IInv'
<1> DEFINE x == [link[l] EXCEPT !.token = tokens + 1, !.claimed = TRUE, !.attempts = @ + 1, !.expired = FALSE]
           y == [pc |-> "claimed", link |-> l, token |-> tokens + 1]
<1>1. /\ link[l] \in LinkRecord /\ LinkIsSound(link[l], tokens, mailed)
      /\ tokens \in 0..MaxTokens /\ tokens + 1 \in 1..MaxTokens /\ tokens' = tokens + 1 /\ mailed' = mailed
    BY DEF IInv, LinkIsSound, LinkTypeOK, ClaimLink
<1>2. link' = [link EXCEPT ![l] = x] /\ sender' = [sender EXCEPT ![s] = y]
    BY DEF ClaimLink
<1>3. x \in LinkRecord
    <2>1. link[l].attempts + 1 \in 0..MaxTokens /\ tokens + 1 \in 0..MaxTokens
        BY <1>1 DEF LinkIsSound, LinkRecord
    <2> QED
        BY <1>1, <2>1 DEF LinkRecord
<1>4. /\ x.state = link[l].state /\ x.order = link[l].order /\ x.person = link[l].person /\ x.reason = link[l].reason
      /\ x.wrong = link[l].wrong /\ x.delivery = link[l].delivery
      /\ x.token = tokens + 1 /\ x.attempts = link[l].attempts + 1
    BY <1>1 DEF LinkRecord
<1>5. link[l].delivery # "SENT"
    BY DEF ClaimLink, Due
<1>6. LinkIsSound(x, tokens + 1, mailed)
    BY <1>1, <1>3, <1>4, <1>5 DEF LinkIsSound, LinkRecord
<1>7. \A m \in Links : LinkIsSound(link[m], tokens + 1, mailed)
    BY <1>1, TokensGrow DEF IInv
<1>8. \A m \in Links : LinkIsSound(link'[m], tokens', mailed')
    BY <1>1, <1>2, <1>6, <1>7 DEF IInv, LinkTypeOK
<1>9. SenderIsSound(y, tokens + 1, mailed)
    BY <1>1 DEF SenderIsSound, SenderRecord
<1>10. \A t \in Senders : SenderIsSound(sender[t], tokens + 1, mailed)
    BY <1>1, TokensGrow DEF IInv
<1>11. \A t \in Senders : SenderIsSound(sender'[t], tokens', mailed')
    BY <1>1, <1>2, <1>9, <1>10 DEF IInv, LinkTypeOK
<1>12. LinkTypeOK'
    <2>1. link' \in [Links -> LinkRecord]
        BY <1>2, <1>3 DEF IInv, LinkTypeOK
    <2>2. sender' \in [Senders -> SenderRecord]
        BY <1>1, <1>2 DEF IInv, LinkTypeOK, SenderRecord
    <2> QED
        BY <1>1, <2>1, <2>2 DEF IInv, LinkTypeOK, ClaimLink, actaVars, SenderRecord
<1>13. LinksShrink
    BY <1>2, <1>4 DEF LinksShrink, IInv, LinkTypeOK, Open
<1>14. OneOpenLink' /\ EachActHasItsLink'
    BY <1>13, ShrinkKeeps DEF ClaimLink, actaVars
<1> QED
    BY <1>8, <1>11, <1>12, <1>14 DEF IInv

\* A dispatch that ends, or dies, leaves its link to the next claim.
LEMMA SenderStep ==
    ASSUME IInv, NEW s \in Senders, NEW y, sender' = [sender EXCEPT ![s] = y],
           mailed \subseteq mailed', mailed' \subseteq 1..MaxTokens, SenderIsSound(y, tokens, mailed'),
           UNCHANGED <<actaVars, link, tokens, syncer>>, linkEvents' \in 0..MaxLinkEvents
    PROVE  IInv'
<1>1. /\ \A l \in Links : LinkIsSound(link[l], tokens, mailed')
      /\ \A t \in Senders : SenderIsSound(sender[t], tokens, mailed')
    <2>1. tokens \in 0..MaxTokens /\ tokens <= tokens
        BY DEF IInv, LinkTypeOK
    <2> QED
        BY <2>1, TokensGrow DEF IInv
<1>2. \A t \in Senders : SenderIsSound(sender'[t], tokens, mailed')
    BY <1>1 DEF IInv, LinkTypeOK
<1>3. LinkTypeOK'
    BY DEF IInv, LinkTypeOK, actaVars, SenderIsSound, SenderRecord
<1>4. LinksShrink
    BY DEF LinksShrink, Open
<1>5. OneOpenLink' /\ EachActHasItsLink'
    BY <1>4, ShrinkKeeps DEF actaVars
<1> QED
    BY <1>1, <1>2, <1>3, <1>5 DEF IInv

LEMMA SendKeeps ==
    ASSUME IInv, NEW s \in Senders, NEW outcome \in {"sent", "failed"}, SendMail(s, outcome)
    PROVE  IInv'
<1> DEFINE y == [sender[s] EXCEPT !.pc = outcome]
<1>1. SenderIsSound(sender[s], tokens, mailed) /\ tokens \in 0..MaxTokens /\ mailed \subseteq 1..MaxTokens
    BY DEF IInv, LinkTypeOK
<1>2. sender[s].pc = "claimed" /\ sender' = [sender EXCEPT ![s] = y]
    BY DEF SendMail
<1>3. y \in SenderRecord /\ y.pc = outcome /\ y.link = sender[s].link /\ y.token = sender[s].token
    BY <1>1 DEF SenderIsSound, SenderRecord
<1>4. sender[s].link \in Links /\ sender[s].token \in 1..tokens
    BY <1>1, <1>2 DEF SenderIsSound
<1>5. mailed \subseteq mailed' /\ mailed' \subseteq 1..MaxTokens
    <2>1. sender[s].token \in 1..MaxTokens
        BY <1>1, <1>4
    <2>2. CASE mailed' = mailed \cup {sender[s].token}
        BY <1>1, <2>1, <2>2
    <2>3. CASE mailed' = mailed
        BY <1>1, <2>3
    <2> QED
        BY <2>2, <2>3 DEF SendMail
<1>6. SenderIsSound(y, tokens, mailed')
    <2>1. outcome = "sent" => sender[s].token \in mailed'
        BY DEF SendMail
    <2> QED
        BY <1>3, <1>4, <2>1 DEF SenderIsSound
<1>7. UNCHANGED <<actaVars, link, tokens, syncer>> /\ linkEvents' \in 0..MaxLinkEvents
    BY DEF SendMail, IInv, LinkTypeOK
<1> QED
    BY <1>2, <1>5, <1>6, <1>7, SenderStep

\* The last update of dispatchOne, for its own token only.
LEMMA RecordKeeps ==
    ASSUME IInv, NEW s \in Senders, RecordSend(s)
    PROVE  IInv'
<1> DEFINE y == [pc |-> "idle", link |-> NoLink, token |-> 0]
           l == sender[s].link
           d == IF sender[s].pc = "sent" THEN "SENT" ELSE "FAILED"
           x == [link[l] EXCEPT !.delivery = d]
<1>1. SenderIsSound(sender[s], tokens, mailed) /\ l \in Links /\ sender[s].pc # "idle"
    BY DEF IInv, SenderIsSound, RecordSend
<1>2. LinkIsSound(link[l], tokens, mailed)
    BY <1>1 DEF IInv
<1>3. CASE ~StillOwnsToken(s)
    <2>1. SenderIsSound(y, tokens, mailed')
        BY DEF SenderIsSound, SenderRecord
    <2> QED
        BY <1>3, <2>1, SenderStep DEF RecordSend, IInv, LinkTypeOK
<1>4. CASE StillOwnsToken(s)
    <2>1. x \in LinkRecord
        BY <1>2 DEF LinkIsSound, LinkRecord
    <2>2. /\ x.state = link[l].state /\ x.order = link[l].order /\ x.person = link[l].person
          /\ x.reason = link[l].reason /\ x.wrong = link[l].wrong /\ x.token = link[l].token
          /\ x.attempts = link[l].attempts /\ x.delivery = d
        BY <1>2 DEF LinkIsSound, LinkRecord
    <2>3. LinkIsSound(x, tokens, mailed)
        BY <1>1, <1>2, <1>4, <2>1, <2>2 DEF LinkIsSound, SenderIsSound, StillOwnsToken
    <2>4. /\ link' = [link EXCEPT ![l] = x] /\ sender' = [sender EXCEPT ![s] = y]
          /\ UNCHANGED <<actaVars, mailed, tokens, syncer, linkEvents>>
        BY <1>4 DEF RecordSend
    <2>5. LinksShrink
        BY <1>1, <2>2, <2>4 DEF LinksShrink, IInv, LinkTypeOK, Open
    <2>6. OneOpenLink' /\ EachActHasItsLink'
        BY <2>4, <2>5, ShrinkKeeps DEF actaVars
    <2>7. \A m \in Links : LinkIsSound(link'[m], tokens', mailed')
        BY <2>3, <2>4 DEF IInv, LinkTypeOK
    <2>8. SenderIsSound(y, tokens, mailed)
        BY DEF SenderIsSound, SenderRecord
    <2>9. \A t \in Senders : SenderIsSound(sender'[t], tokens', mailed')
        BY <2>4, <2>8 DEF IInv, LinkTypeOK
    <2>10. LinkTypeOK'
        <3>1. link' \in [Links -> LinkRecord]
            BY <2>1, <2>4 DEF IInv, LinkTypeOK
        <3>2. y \in SenderRecord
            BY DEF SenderRecord
        <3>3. sender' \in [Senders -> SenderRecord]
            BY <2>4, <3>2 DEF IInv, LinkTypeOK, SenderRecord
        <3> QED
            BY <2>4, <3>1, <3>3 DEF IInv, LinkTypeOK, actaVars, SenderRecord
    <2> QED
        BY <2>6, <2>7, <2>9, <2>10 DEF IInv
<1> QED
    BY <1>3, <1>4

LEMMA DeathKeeps ==
    ASSUME IInv, NEW s \in Senders, SenderDies(s)
    PROVE  IInv'
<1> DEFINE y == [pc |-> "idle", link |-> NoLink, token |-> 0]
<1>1. SenderIsSound(y, tokens, mailed')
    BY DEF SenderIsSound, SenderRecord
<1>2. linkEvents' \in 0..MaxLinkEvents
    BY EventCounts DEF IInv, SenderDies
<1> QED
    BY <1>1, <1>2, SenderStep DEF SenderDies, IInv, LinkTypeOK

\* The claim lapses, the link expires, the authorization lapses or is given:
\* flags that no property reads.
LEMMA FlagsKeep ==
    ASSUME IInv, NEW l \in Links, ClaimLapses(l) \/ LinkExpires(l) \/ AuthorizationLapses(l) \/ ConfirmIdentity(l)
    PROVE  IInv'
<1>1. LinkIsSound(link[l], tokens, mailed) /\ link[l] \in LinkRecord
    BY DEF IInv, LinkIsSound
<1>2. ASSUME NEW x \in LinkRecord, LinkIsSound(x, tokens, mailed), link' = [link EXCEPT ![l] = x],
             x.state = link[l].state, x.order = link[l].order, x.person = link[l].person,
             UNCHANGED <<actaVars, sender, mailed, tokens, syncer>>, linkEvents' \in 0..MaxLinkEvents
      PROVE  IInv'
    BY <1>2, LinkFieldStep DEF Open
<1>3. UNCHANGED <<actaVars, sender, mailed, tokens, syncer>>
    BY DEF ClaimLapses, LinkExpires, AuthorizationLapses, ConfirmIdentity
<1>4. linkEvents' \in 0..MaxLinkEvents
    BY EventCounts DEF ClaimLapses, LinkExpires, AuthorizationLapses, ConfirmIdentity, IInv, LinkTypeOK
<1>5. CASE ClaimLapses(l)
    <2> DEFINE x == [link[l] EXCEPT !.claimed = FALSE]
    <2>1. link' = [link EXCEPT ![l] = x]
        BY <1>5 DEF ClaimLapses
    <2>2. /\ x \in LinkRecord /\ LinkIsSound(x, tokens, mailed)
          /\ x.state = link[l].state /\ x.order = link[l].order /\ x.person = link[l].person
        BY <1>1 DEF LinkIsSound, LinkRecord
    <2> QED
        BY <1>2, <1>3, <1>4, <2>1, <2>2
<1>6. CASE LinkExpires(l)
    <2> DEFINE x == [link[l] EXCEPT !.expired = TRUE]
    <2>1. link' = [link EXCEPT ![l] = x]
        BY <1>6 DEF LinkExpires
    <2>2. /\ x \in LinkRecord /\ LinkIsSound(x, tokens, mailed)
          /\ x.state = link[l].state /\ x.order = link[l].order /\ x.person = link[l].person
        BY <1>1 DEF LinkIsSound, LinkRecord
    <2> QED
        BY <1>2, <1>3, <1>4, <2>1, <2>2
<1>7. ASSUME NEW b \in BOOLEAN, link' = [link EXCEPT ![l].confirmed = b]
      PROVE  IInv'
    <2> DEFINE x == [link[l] EXCEPT !.confirmed = b]
    <2>1. link' = [link EXCEPT ![l] = x]
        BY <1>7
    <2>2. /\ x \in LinkRecord /\ LinkIsSound(x, tokens, mailed)
          /\ x.state = link[l].state /\ x.order = link[l].order /\ x.person = link[l].person
        BY <1>1 DEF LinkIsSound, LinkRecord
    <2> QED
        BY <1>2, <1>3, <1>4, <2>1, <2>2
<1> QED
    BY <1>5, <1>6, <1>7 DEF AuthorizationLapses, ConfirmIdentity

\* The last mistake takes the link away, so what stays open has some left.
LEMMA MistakeKeeps ==
    ASSUME IInv, NEW l \in Links, MistakeIdentity(l)
    PROVE  IInv'
<1> DEFINE mistaken == [link[l] EXCEPT !.wrong = @ + 1, !.confirmed = FALSE]
           dead == [mistaken EXCEPT !.state = "INVALIDATED", !.reason = "ATTEMPTS_EXCEEDED"]
<1>1. /\ LinkIsSound(link[l], tokens, mailed) /\ link[l] \in LinkRecord /\ Open(l)
      /\ link[l].wrong \in 0..MaxWrong /\ link[l].wrong < MaxWrong
    BY DEF IInv, LinkIsSound, MistakeIdentity, Active, Open, LinkRecord
<1>2. link[l].wrong + 1 \in 0..MaxWrong
    BY <1>1
<1>3. /\ mistaken \in LinkRecord /\ mistaken.state = "OPEN" /\ mistaken.reason = link[l].reason
      /\ mistaken.order = link[l].order /\ mistaken.person = link[l].person /\ mistaken.wrong = link[l].wrong + 1
      /\ mistaken.token = link[l].token /\ mistaken.attempts = link[l].attempts /\ mistaken.delivery = link[l].delivery
    BY <1>1, <1>2 DEF LinkRecord, Open
<1>4. UNCHANGED <<actaVars, sender, mailed, tokens, syncer>> /\ linkEvents' \in 0..MaxLinkEvents
    BY DEF MistakeIdentity, IInv, LinkTypeOK
<1>5. CASE LastMistake(l)
    <2>1. link' = [link EXCEPT ![l] = dead]
        BY <1>5 DEF MistakeIdentity
    <2>2. /\ dead \in LinkRecord /\ dead.state = "INVALIDATED"
          /\ dead.order = link[l].order /\ dead.person = link[l].person
          /\ dead.token = link[l].token /\ dead.attempts = link[l].attempts /\ dead.delivery = link[l].delivery
        BY <1>3 DEF LinkRecord, Reasons
    <2>3. LinkIsSound(dead, tokens, mailed)
        BY <1>1, <2>2 DEF LinkIsSound
    <2> QED
        BY <1>1, <1>4, <2>1, <2>2, <2>3, LinkFieldStep DEF Open
<1>6. CASE ~LastMistake(l)
    <2>1. link' = [link EXCEPT ![l] = mistaken]
        BY <1>6 DEF MistakeIdentity
    <2>2. link[l].wrong + 1 < MaxWrong
        BY <1>1, <1>2, <1>6 DEF LastMistake
    <2>3. LinkIsSound(mistaken, tokens, mailed)
        BY <1>1, <1>3, <2>2 DEF LinkIsSound, Open
    <2> QED
        BY <1>1, <1>3, <1>4, <2>1, <2>3, LinkFieldStep DEF Open
<1> QED
    BY <1>5, <1>6

\* actByLink: the turn had no act, so no link was used for it, and now one.
LEMMA ActKeeps ==
    ASSUME IInv, NEW l \in Links, NEW action \in {"SIGNED", "REJECTED"}, ActByLink(l, action)
    PROVE  IInv'
<1> DEFINE x == [link[l] EXCEPT !.state = "CONSUMED", !.confirmed = FALSE]
           k == link[l].order
<1>1. /\ LinkIsSound(link[l], tokens, mailed) /\ link[l] \in LinkRecord /\ Open(l)
      /\ k \in Turns /\ link[l].person = signer[k] /\ captured[k] = "PENDING"
    BY DEF IInv, LinkIsSound, ActByLink, Active, CurrentTurns, EnvelopeAccepts
<1>2. /\ link' = [link EXCEPT ![l] = x] /\ captured' = [captured EXCEPT ![k] = action]
      /\ UNCHANGED <<actaStatus, turn, signer, sender, mailed, tokens, syncer, linkEvents>>
    BY DEF ActByLink
<1>3. /\ x \in LinkRecord /\ x.state = "CONSUMED" /\ x.order = k /\ x.person = link[l].person
      /\ x.token = link[l].token /\ x.attempts = link[l].attempts /\ x.delivery = link[l].delivery
    BY <1>1 DEF LinkRecord
<1>4. LinkIsSound(x, tokens, mailed)
    BY <1>1, <1>3 DEF LinkIsSound
<1>5. link' \in [Links -> LinkRecord] /\ captured' \in [Turns -> TurnStatus]
    BY <1>2, <1>3 DEF IInv, LinkTypeOK, TurnStatus
<1>6. LinkTypeOK'
    BY <1>2, <1>5 DEF IInv, LinkTypeOK
<1>7. \A m \in Links : LinkIsSound(link'[m], tokens', mailed')
    BY <1>2, <1>4 DEF IInv, LinkTypeOK
<1>8. \A s \in Senders : SenderIsSound(sender'[s], tokens', mailed')
    BY <1>2 DEF IInv
<1>9. OneOpenLink'
    BY <1>2, <1>3 DEF IInv, LinkTypeOK, OneOpenLink, Open
<1>10. ASSUME NEW t \in Turns
       PROVE  LET used == {m \in Links : link'[m].state = "CONSUMED" /\ link'[m].order = t}
              IN  IF captured'[t] = "PENDING" THEN used = {} ELSE \E m \in used : used = {m} /\ link'[m].person = signer'[t]
    <2> DEFINE was == {m \in Links : link[m].state = "CONSUMED" /\ link[m].order = t}
               used == {m \in Links : link'[m].state = "CONSUMED" /\ link'[m].order = t}
    <2>1. IF captured[t] = "PENDING" THEN was = {} ELSE \E m \in was : was = {m} /\ link[m].person = signer[t]
        BY DEF IInv, EachActHasItsLink
    <2>2. CASE t = k
        <3>1. was = {}
            BY <1>1, <2>1, <2>2
        <3>2. used = {l}
            BY <1>2, <1>3, <2>2, <3>1 DEF IInv, LinkTypeOK
        <3>3. captured'[t] # "PENDING" /\ link'[l].person = signer'[t]
            BY <1>1, <1>2, <1>3, <2>2 DEF IInv, LinkTypeOK
        <3> QED
            BY <3>2, <3>3
    <2>3. CASE t # k
        <3>1. used = was
            BY <1>1, <1>2, <1>3, <2>3 DEF IInv, LinkTypeOK, Open
        <3>2. \A m \in was : link'[m].person = link[m].person
            BY <1>1, <1>2 DEF IInv, LinkTypeOK, Open
        <3>3. captured'[t] = captured[t] /\ signer' = signer
            BY <1>2, <2>3 DEF IInv, LinkTypeOK
        <3> QED
            BY <2>1, <3>1, <3>2, <3>3
    <2> QED
        BY <2>2, <2>3
<1>11. EachActHasItsLink'
    BY <1>10 DEF EachActHasItsLink
<1> QED
    BY <1>6, <1>7, <1>8, <1>9, <1>11 DEF IInv

-----------------------------------------------------------------------------
(* The steps that give links and take them away.                           *)

\* Open links are taken away.
LEMMA KillStep ==
    ASSUME IInv, NEW gone \in SUBSET Links, \A l \in gone : Open(l), NEW reason \in Reasons,
           link' = [l \in Links |-> IF l \in gone THEN Kill(l, reason) ELSE link[l]], UNCHANGED <<tokens, mailed>>
    PROVE  /\ link' \in [Links -> LinkRecord]
           /\ \A l \in Links : LinkIsSound(link'[l], tokens', mailed')
           /\ LinksShrink
<1>1. \A l \in Links : LinkIsSound(link[l], tokens, mailed)
    BY DEF IInv
<1>2. ASSUME NEW l \in Links
      PROVE  /\ LinkIsSound(link'[l], tokens, mailed)
             /\ link'[l].state = "OPEN" => Open(l)
             /\ link'[l].state = "CONSUMED" <=> link[l].state = "CONSUMED"
             /\ link'[l].order = link[l].order /\ link'[l].person = link[l].person
    <2>1. CASE l \in gone
        <3>1. link'[l] = Kill(l, reason) /\ Open(l)
            BY <2>1
        <3> QED
            BY <1>1, <3>1, KilledIsSound DEF Open
    <2>2. CASE l \notin gone
        BY <1>1, <2>2 DEF Open
    <2> QED
        BY <2>1, <2>2
<1>3. link' \in [Links -> LinkRecord]
    <2>1. \A l \in Links : link'[l] \in LinkRecord
        BY <1>2 DEF LinkIsSound
    <2>2. link' = [l \in Links |-> link'[l]]
        OBVIOUS
    <2> QED
        BY <2>1, <2>2
<1> QED
    BY <1>2, <1>3 DEF LinksShrink

\* The links with a new one n for turn t and others taken away.
Renewed(gone, reason, t, n) ==
    [l \in Links |-> IF l = n THEN NewLink(t) ELSE IF l \in gone THEN Kill(l, reason) ELSE link[l]]

\* A turn gets a new link after those of it that were open are taken away.
LEMMA RenewStep ==
    ASSUME IInv, NEW gone \in SUBSET Links, \A l \in gone : Open(l), NEW reason \in Reasons,
           NEW t \in Turns, \A l \in Links : Open(l) /\ link[l].order = t => l \in gone,
           NEW n \in Links, link[n].state = "ABSENT",
           link' = Renewed(gone, reason, t, n), UNCHANGED <<tokens, mailed, captured, signer>>
    PROVE  /\ link' \in [Links -> LinkRecord]
           /\ \A l \in Links : LinkIsSound(link'[l], tokens', mailed')
           /\ OneOpenLink' /\ EachActHasItsLink'
<1>1. \A l \in Links : LinkIsSound(link[l], tokens, mailed)
    BY DEF IInv
<1>2. n \notin gone
    BY DEF Open
<1>3. /\ link'[n] = NewLink(t) /\ LinkIsSound(NewLink(t), tokens, mailed)
      /\ NewLink(t).state = "OPEN" /\ NewLink(t).order = t
    BY NewIsSound DEF IInv, Renewed
<1>4. ASSUME NEW l \in Links, l # n
      PROVE  /\ LinkIsSound(link'[l], tokens, mailed)
             /\ link'[l].state = "OPEN" => Open(l) /\ l \notin gone
             /\ link'[l].state = "CONSUMED" <=> link[l].state = "CONSUMED"
             /\ link'[l].order = link[l].order /\ link'[l].person = link[l].person
    <2>1. CASE l \in gone
        <3>1. link'[l] = Kill(l, reason) /\ Open(l)
            BY <1>4, <2>1 DEF Renewed
        <3> QED
            BY <1>1, <3>1, KilledIsSound DEF Open
    <2>2. CASE l \notin gone
        BY <1>1, <1>4, <2>2 DEF Open, Renewed
    <2> QED
        BY <2>1, <2>2
<1>5. \A l \in Links : LinkIsSound(link'[l], tokens, mailed)
    BY <1>3, <1>4
<1>6. link' \in [Links -> LinkRecord]
    <2>1. \A l \in Links : link'[l] \in LinkRecord
        BY <1>5 DEF LinkIsSound
    <2>2. link' = [l \in Links |-> link'[l]]
        BY DEF Renewed
    <2> QED
        BY <2>1, <2>2
<1>7. OneOpenLink'
    <2>1. SUFFICES ASSUME NEW l \in Links, NEW m \in Links, link'[l].state = "OPEN", link'[m].state = "OPEN",
                          link'[l].order = link'[m].order
                   PROVE  l = m
        BY DEF OneOpenLink, Open
    <2>2. CASE l # n /\ m # n
        BY <1>4, <2>1, <2>2 DEF IInv, OneOpenLink
    <2>3. \A k \in Links : k # n /\ link'[k].state = "OPEN" => link'[k].order # t
        BY <1>4
    <2> QED
        BY <1>3, <2>1, <2>2, <2>3
<1>8. ASSUME NEW u \in Turns
      PROVE  {l \in Links : link[l].state = "CONSUMED" /\ link[l].order = u}'
               = {l \in Links : link[l].state = "CONSUMED" /\ link[l].order = u}
    BY <1>3, <1>4
<1>9. \A l \in Links : link[l].state = "CONSUMED" => link'[l].person = link[l].person
    BY <1>4
<1>10. EachActHasItsLink'
    <2>1. ASSUME NEW u \in Turns
          PROVE  LET used == {l \in Links : link[l].state = "CONSUMED" /\ link[l].order = u}
                 IN  IF captured[u] = "PENDING" THEN used = {}
                     ELSE \E l \in used : used = {l} /\ link'[l].person = signer[u]
        BY <1>9 DEF IInv, EachActHasItsLink
    <2> QED
        BY <1>8, <2>1 DEF EachActHasItsLink
<1> QED
    BY <1>5, <1>6, <1>7, <1>10

\* refresh: who needs a link has none of this turn that is up to date.
LEMMA RefreshKeeps ==
    ASSUME IInv, NEW y \in Syncers, Refresh(y)
    PROVE  IInv'
<1> DEFINE gone == {l \in Links : Outdated(l)}
           kept == [l \in Links |-> IF Outdated(l) THEN Kill(l, "TURN_CHANGED") ELSE link[l]]
<1>1. UNCHANGED <<actaVars, sender, mailed, tokens, linkEvents>> /\ syncer' = [syncer EXCEPT ![y].pc = "idle"]
    BY DEF Refresh
<1>2. syncer' \in [Syncers -> [pc : {"idle", "apply", "refresh"}, seen : [Turns -> TurnStatus]]]
    BY <1>1 DEF IInv, LinkTypeOK
<1>3. "TURN_CHANGED" \in Reasons /\ (\A l \in gone : Open(l))
    BY DEF Reasons, Outdated
<1>4. SUFFICES /\ link' \in [Links -> LinkRecord]
               /\ \A l \in Links : LinkIsSound(link'[l], tokens', mailed')
               /\ OneOpenLink' /\ EachActHasItsLink'
    <2>1. LinkTypeOK'
        BY <1>1, <1>2, <1>4 DEF IInv, LinkTypeOK, actaVars
    <2> QED
        BY <1>1, <1>4, <2>1 DEF IInv
<1>5. CASE link' = kept
    <2>1. link' = [l \in Links |-> IF l \in gone THEN Kill(l, "TURN_CHANGED") ELSE link[l]]
        BY <1>5
    <2>2. /\ link' \in [Links -> LinkRecord]
          /\ \A l \in Links : LinkIsSound(link'[l], tokens', mailed')
          /\ LinksShrink
        BY <1>1, <1>3, <2>1, KillStep
    <2> QED
        BY <1>1, <2>2, ShrinkKeeps DEF actaVars
<1>6. ASSUME NEW t \in CurrentTurns, ~HadLink(t), NEW n \in Links, link[n].state = "ABSENT",
             link' = [kept EXCEPT ![n] = NewLink(t)]
      PROVE  /\ link' \in [Links -> LinkRecord]
             /\ \A l \in Links : LinkIsSound(link'[l], tokens', mailed')
             /\ OneOpenLink' /\ EachActHasItsLink'
    <2>1. t \in Turns
        BY DEF CurrentTurns
    <2>2. \A l \in Links : Open(l) /\ link[l].order = t => l \in gone
        BY <1>6 DEF HadLink, Outdated, Open, IInv, LinkIsSound
    <2>3. link' = Renewed(gone, "TURN_CHANGED", t, n)
        BY <1>6 DEF Renewed
    <2>4. gone \in SUBSET Links
        OBVIOUS
    <2> HIDE DEF gone, kept
    <2> QED
        BY <1>1, <1>3, <1>6, <2>1, <2>2, <2>3, <2>4, RenewStep DEF actaVars
<1> QED
    BY <1>5, <1>6 DEF Refresh

LEMMA ResendKeeps ==
    ASSUME IInv, NEW l \in Links, NEW t \in Turns, Resend(t, l)
    PROVE  IInv'
<1>1. UNCHANGED <<actaVars, sender, mailed, tokens, syncer>> /\ linkEvents' \in 0..MaxLinkEvents
    BY EventCounts DEF Resend, IInv
<1>2. link' = Renewed(OpenFor(t), "RESENT", t, l)
    BY DEF Resend, Renewed
<1>3. /\ "RESENT" \in Reasons /\ OpenFor(t) \in SUBSET Links /\ \A m \in OpenFor(t) : Open(m)
      /\ \A m \in Links : Open(m) /\ link[m].order = t => m \in OpenFor(t)
    BY DEF Reasons, OpenFor
<1>4. /\ link' \in [Links -> LinkRecord]
      /\ \A m \in Links : LinkIsSound(link'[m], tokens', mailed')
      /\ OneOpenLink' /\ EachActHasItsLink'
    BY <1>1, <1>2, <1>3, RenewStep DEF Resend, actaVars
<1>5. LinkTypeOK'
    BY <1>1, <1>4 DEF IInv, LinkTypeOK, actaVars
<1> QED
    BY <1>1, <1>4, <1>5 DEF IInv

\* reassignSigner, while nobody has acted.
LEMMA ReassignKeeps ==
    ASSUME IInv, NEW y \in Syncers, NEW t \in Turns, NEW p \in Signers, ReassignTurn(y, t, p)
    PROVE  IInv'
<1>1. /\ UNCHANGED <<actaStatus, turn, captured, sender, mailed, tokens>> /\ linkEvents' \in 0..MaxLinkEvents
      /\ signer' = [signer EXCEPT ![t] = p] /\ syncer' = [syncer EXCEPT ![y].pc = "refresh"]
    BY EventCounts DEF ReassignTurn, IInv
<1>2. link' = [l \in Links |-> IF l \in OpenFor(t) THEN Kill(l, "REASSIGNED") ELSE link[l]]
    BY DEF ReassignTurn
<1>3. "REASSIGNED" \in Reasons /\ OpenFor(t) \in SUBSET Links /\ \A l \in OpenFor(t) : Open(l)
    BY DEF Reasons, OpenFor
<1>4. /\ link' \in [Links -> LinkRecord]
      /\ \A l \in Links : LinkIsSound(link'[l], tokens', mailed')
      /\ LinksShrink
    BY <1>1, <1>2, <1>3, KillStep
<1>5. LinkTypeOK'
    BY <1>1, <1>4 DEF IInv, LinkTypeOK
<1>6. OneOpenLink'
    BY <1>4 DEF IInv, OneOpenLink, LinksShrink, Open
<1>7. ASSUME NEW u \in Turns
      PROVE  captured'[u] = "PENDING" /\ {l \in Links : link[l].state = "CONSUMED" /\ link[l].order = u}' = {}
    <2>1. captured[u] = "PENDING" /\ {l \in Links : link[l].state = "CONSUMED" /\ link[l].order = u} = {}
        BY DEF ReassignTurn, IInv, EachActHasItsLink
    <2> QED
        BY <1>1, <1>4, <2>1 DEF LinksShrink
<1>8. EachActHasItsLink'
    BY <1>7 DEF EachActHasItsLink
<1> QED
    BY <1>1, <1>4, <1>5, <1>6, <1>8 DEF IInv

LEMMA VoidKeeps ==
    ASSUME IInv, VoidActa
    PROVE  IInv'
<1> DEFINE gone == {l \in Links : Open(l)}
<1>1. /\ UNCHANGED <<turn, signer, captured, sender, mailed, tokens, syncer>> /\ linkEvents' \in 0..MaxLinkEvents
      /\ actaStatus' = "VOIDED"
    BY EventCounts DEF VoidActa, IInv
<1>2. link' = [l \in Links |-> IF l \in gone THEN Kill(l, "VOIDED") ELSE link[l]]
    BY DEF VoidActa
<1>3. "VOIDED" \in Reasons /\ gone \in SUBSET Links /\ \A l \in gone : Open(l)
    BY DEF Reasons
<1>4. /\ link' \in [Links -> LinkRecord]
      /\ \A l \in Links : LinkIsSound(link'[l], tokens', mailed')
      /\ LinksShrink
    BY <1>1, <1>2, <1>3, KillStep
<1>5. LinkTypeOK'
    BY <1>1, <1>4 DEF IInv, LinkTypeOK
<1> QED
    BY <1>1, <1>4, <1>5, ShrinkKeeps DEF IInv

\* The two halves of syncSignatures leave links and envelope alone.
LEMMA SyncKeeps ==
    ASSUME IInv, NEW y \in Syncers, SyncReads(y) \/ SyncApplies(y)
    PROVE  IInv'
<1>1. UNCHANGED <<signer, captured, link, sender, mailed, tokens, linkEvents>>
    BY DEF SyncReads, SyncApplies, actaVars
<1>2. LinkTypeOK'
    <2>1. CASE SyncReads(y)
        BY <2>1 DEF IInv, LinkTypeOK, SyncReads, actaVars
    <2>2. CASE SyncApplies(y)
        <3>1. turn' \in [Turns -> TurnStatus] /\ actaStatus' \in {"PENDING_SIGNATURE", "SIGNED", "REJECTED", "VOIDED"}
            BY <2>2 DEF IInv, LinkTypeOK, SyncApplies
        <3>2. syncer' \in [Syncers -> [pc : {"idle", "apply", "refresh"}, seen : [Turns -> TurnStatus]]]
            BY <2>2 DEF IInv, LinkTypeOK, SyncApplies
        <3> QED
            BY <1>1, <3>1, <3>2 DEF IInv, LinkTypeOK
    <2> QED
        BY <2>1, <2>2
<1>3. LinksShrink
    BY <1>1 DEF LinksShrink, Open
<1> QED
    BY <1>1, <1>2, <1>3, ShrinkKeeps DEF IInv

-----------------------------------------------------------------------------
(* The acta from its generation.                                           *)

LEMMA LinksStart == LinkInit => IInv
<1> SUFFICES ASSUME LinkInit PROVE IInv
    OBVIOUS
<1> DEFINE none == [state |-> "ABSENT", reason |-> "NONE", order |-> 0, person |-> NoSigner, token |-> 0,
                    delivery |-> "PENDING_SEND", attempts |-> 0, claimed |-> FALSE, expired |-> FALSE,
                    wrong |-> 0, confirmed |-> FALSE]
           idle == [pc |-> "idle", link |-> NoLink, token |-> 0]
<1>1. /\ link = [l \in Links |-> none] /\ sender = [s \in Senders |-> idle]
      /\ mailed = {} /\ tokens = 0 /\ linkEvents = 0 /\ actaStatus = "PENDING_SIGNATURE"
      /\ turn = [t \in Turns |-> "PENDING"] /\ captured = turn /\ signer \in [Turns -> Signers]
    BY DEF LinkInit
<1>2. none \in LinkRecord /\ LinkIsSound(none, 0, {})
    BY DEF LinkRecord, Reasons, LinkIsSound
<1>3. idle \in SenderRecord /\ SenderIsSound(idle, 0, {})
    BY DEF SenderRecord, SenderIsSound
<1>4. turn \in [Turns -> TurnStatus]
    BY <1>1 DEF TurnStatus
<1>5. syncer \in [Syncers -> [pc : {"idle", "apply", "refresh"}, seen : [Turns -> TurnStatus]]]
    <2>1. PICK y \in Syncers : syncer = [z \in Syncers |-> [pc |-> IF z = y THEN "refresh" ELSE "idle", seen |-> turn]]
        BY DEF LinkInit
    <2>2. \A z \in Syncers : [pc |-> IF z = y THEN "refresh" ELSE "idle", seen |-> turn]
                                \in [pc : {"idle", "apply", "refresh"}, seen : [Turns -> TurnStatus]]
        BY <1>4
    <2> QED
        BY <2>1, <2>2
<1>6. LinkTypeOK
    <2>1. link \in [Links -> LinkRecord] /\ sender \in [Senders -> SenderRecord]
        BY <1>1, <1>2, <1>3
    <2>2. mailed \subseteq 1..MaxTokens /\ tokens \in 0..MaxTokens /\ linkEvents \in 0..MaxLinkEvents
        BY <1>1
    <2> QED
        BY <1>1, <1>4, <1>5, <2>1, <2>2 DEF LinkTypeOK, SenderRecord
<1>7. OneOpenLink
    BY <1>1 DEF OneOpenLink, Open
<1>8. EachActHasItsLink
    BY <1>1 DEF EachActHasItsLink
<1> QED
    BY <1>1, <1>2, <1>3, <1>6, <1>7, <1>8 DEF IInv

LEMMA LinksKeep == IInv /\ [LinkNext]_linkVars => IInv'
<1> SUFFICES ASSUME IInv, [LinkNext]_linkVars PROVE IInv'
    OBVIOUS
<1>1. CASE UNCHANGED linkVars
    BY <1>1 DEF linkVars, actaVars, IInv, LinkTypeOK, OneOpenLink, EachActHasItsLink, Open
<1>2. ASSUME NEW y \in Syncers, Refresh(y) \/ SyncReads(y) \/ SyncApplies(y) PROVE IInv'
    BY <1>2, RefreshKeeps, SyncKeeps
<1>3. ASSUME NEW y \in Syncers, NEW t \in Turns, NEW p \in Signers, ReassignTurn(y, t, p) PROVE IInv'
    BY <1>3, ReassignKeeps
<1>4. ASSUME NEW s \in Senders, RecordSend(s) \/ SenderDies(s) PROVE IInv'
    BY <1>4, RecordKeeps, DeathKeeps
<1>5. ASSUME NEW s \in Senders, NEW l \in Links, ClaimLink(s, l) PROVE IInv'
    BY <1>5, ClaimKeeps
<1>6. ASSUME NEW s \in Senders, NEW outcome \in {"sent", "failed"}, SendMail(s, outcome) PROVE IInv'
    BY <1>6, SendKeeps
<1>7. ASSUME NEW l \in Links, ClaimLapses(l) \/ LinkExpires(l) \/ ConfirmIdentity(l) \/ AuthorizationLapses(l) PROVE IInv'
    BY <1>7, FlagsKeep
<1>8. ASSUME NEW l \in Links, MistakeIdentity(l) PROVE IInv'
    BY <1>8, MistakeKeeps
<1>9. ASSUME NEW l \in Links, NEW action \in {"SIGNED", "REJECTED"}, ActByLink(l, action) PROVE IInv'
    BY <1>9, ActKeeps
<1>10. ASSUME NEW l \in Links, NEW t \in Turns, Resend(t, l) PROVE IInv'
    BY <1>10, ResendKeeps
<1>11. CASE VoidActa
    BY <1>11, VoidKeeps
<1> QED
    BY <1>1, <1>2, <1>3, <1>4, <1>5, <1>6, <1>7, <1>8, <1>9, <1>10, <1>11 DEF LinkNext

LEMMA LinksHold == LinkSpec => []IInv
BY LinksStart, LinksKeep, PTL DEF LinkSpec

\* However the dispatches, refreshes, resends and reassignments of an acta
\* interleave, and whoever of them dies: the links are well formed, a turn has
\* at most one that can be used (refresh and resend have the acta locked), and
\* the token of one that says SENT went out (dispatchOne records the outcome
\* for its own token only).
THEOREM LinksAreSound == LinkSpec => []LinkInv
<1>1. IInv => LinkInv
    BY DEF IInv, LinkInv, SentLinkOpens, LinkIsSound
<1> QED
    BY <1>1, LinksHold, PTL

\* actByLink: each signature and each rejection of the envelope used up exactly
\* one link, the one of the person of the turn, and a turn that nobody acted on
\* has used up none.
THEOREM ActsUseLinks == LinkSpec => []EachActHasItsLink
<1>1. IInv => EachActHasItsLink
    BY DEF IInv
<1> QED
    BY <1>1, LinksHold, PTL
=============================================================================
