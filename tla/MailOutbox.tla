------------------------------ MODULE MailOutbox ------------------------------
(***************************************************************************)
(* MailOutboxService: mails are queued in the transaction of whoever       *)
(* notifies, and dispatchers (the worker every five seconds in each        *)
(* instance, or a test mail sent at once) claim, send and record them.     *)
(* The claim is a time stamp that lapses after OUTBOX_RETRY_MINUTES; the   *)
(* outcome is recorded without looking who claimed the mail since.  A send *)
(* is a conversation of the SMTP client with the mail server, which may    *)
(* have taken the mail although the conversation fails or never ends.      *)
(***************************************************************************)
EXTENDS Naturals, FiniteSets

CONSTANTS
    Mails, Dispatchers, NoMail,
    MaxMailAttempts,      \* MAX_OUTBOX_SEND_ATTEMPTS
    MaxMailFaults         \* bound: dispatchers that die or hang, claims that lapse under one that works

ASSUME MailAssumption == NoMail \notin Mails /\ MaxMailAttempts \in Nat \ {0} /\ MaxMailFaults \in Nat

VARIABLES
    mail,          \* mail_outbox
    delivered,     \* how often the mail server took each mail
    doubtful,      \* mails with an attempt that went otherwise than the outbox took it to go
    dispatcher,    \* a dispatchOne between its claim and its last update
    mailFaults

mailVars == <<mail, delivered, doubtful, dispatcher, mailFaults>>

MailRecord == [status : {"NONE", "PENDING_SEND", "SENT", "FAILED"},
               attempts : 0..(MaxMailAttempts + MaxMailFaults), claimed : BOOLEAN]

MailTypeOK ==
    /\ mail \in [Mails -> MailRecord]
    /\ delivered \in [Mails -> Nat]
    /\ doubtful \subseteq Mails
    /\ dispatcher \in [Dispatchers -> [pc : {"idle", "send", "sent", "failed", "hung"}, mail : Mails \cup {NoMail}]]
    /\ mailFaults \in 0..MaxMailFaults

Resting == [pc |-> "idle", mail |-> NoMail]

MailInit ==
    /\ mail = [m \in Mails |-> [status |-> "NONE", attempts |-> 0, claimed |-> FALSE]]
    /\ delivered = [m \in Mails |-> 0]
    /\ doubtful = {}
    /\ dispatcher = [d \in Dispatchers |-> Resting]
    /\ mailFaults = 0

\* enqueue
EnqueueMail(m) ==
    /\ mail[m].status = "NONE"
    /\ mail' = [mail EXCEPT ![m].status = "PENDING_SEND"]
    /\ UNCHANGED <<delivered, doubtful, dispatcher, mailFaults>>

\* A mail that nobody said went out, and that has attempts left.
Unsent(m) ==
    \/ mail[m].status = "PENDING_SEND"
    \/ mail[m].status = "FAILED" /\ mail[m].attempts < MaxMailAttempts

\* The condition of dispatchPending, repeated by dispatchOne under the lock.
MailDue(m) == Unsent(m) /\ ~mail[m].claimed

\* Sends under way for a mail.
Sending(m) == {d \in Dispatchers : dispatcher[d].mail = m}

ClaimMail(d, m) ==
    /\ dispatcher[d].pc = "idle"
    /\ MailDue(m)
    /\ mail' = [mail EXCEPT ![m].claimed = TRUE, ![m].attempts = @ + 1]
    /\ dispatcher' = [dispatcher EXCEPT ![d] = [pc |-> "send", mail |-> m]]
    /\ UNCHANGED <<delivered, doubtful, mailFaults>>

\* The mail server has the whole mail.
Taken(d) == [delivered EXCEPT ![dispatcher[d].mail] = @ + 1]

\* sendTemplated is called if the recipient has an address.  The server takes
\* the mail and says so ...
Send(d) ==
    /\ dispatcher[d].pc = "send"
    /\ dispatcher' = [dispatcher EXCEPT ![d].pc = "sent"]
    /\ delivered' = Taken(d)
    /\ UNCHANGED <<mail, doubtful, mailFaults>>

\* ... or there is no server, no connection, or an answer before it has the mail
\* that is not the expected one ...
SendFails(d) ==
    /\ dispatcher[d].pc = "send"
    /\ dispatcher' = [dispatcher EXCEPT ![d].pc = "failed"]
    /\ UNCHANGED <<mail, delivered, doubtful, mailFaults>>

\* ... or it takes the mail, and the connection breaks before its answer is here,
\* or the QUIT that follows fails.
SendFailsLate(d) ==
    /\ dispatcher[d].pc = "send"
    /\ dispatcher' = [dispatcher EXCEPT ![d].pc = "failed"]
    /\ delivered' = Taken(d)
    /\ doubtful' = doubtful \cup {dispatcher[d].mail}
    /\ UNCHANGED <<mail, mailFaults>>

\* expectCode waits for data or an error.  When the server falls silent the time
\* limit destroys the socket, which raises neither: the dispatcher waits until
\* its instance restarts, and the row stays as it is.
SendHangs(d) ==
    /\ dispatcher[d].pc = "send"
    /\ mailFaults < MaxMailFaults
    /\ mailFaults' = mailFaults + 1
    /\ delivered' \in {delivered, Taken(d)}
    /\ doubtful' = doubtful \cup {dispatcher[d].mail}
    /\ dispatcher' = [dispatcher EXCEPT ![d] = [pc |-> "hung", mail |-> NoMail]]
    /\ UNCHANGED mail

HungRestarts(d) ==
    /\ dispatcher[d].pc = "hung"
    /\ dispatcher' = [dispatcher EXCEPT ![d] = Resting]
    /\ UNCHANGED <<mail, delivered, doubtful, mailFaults>>

Outcome(d) == IF dispatcher[d].pc = "sent" THEN "SENT" ELSE "FAILED"

RecordOutcome(d) ==
    /\ dispatcher[d].pc \in {"sent", "failed"}
    /\ mail' = [mail EXCEPT ![dispatcher[d].mail].status = Outcome(d)]
    /\ dispatcher' = [dispatcher EXCEPT ![d] = Resting]
    /\ UNCHANGED <<delivered, doubtful, mailFaults>>

\* The process dies, or the last update of dispatchOne fails.
DispatcherDies(d) ==
    /\ dispatcher[d].pc \in {"send", "sent", "failed"}
    /\ mailFaults < MaxMailFaults
    /\ mailFaults' = mailFaults + 1
    /\ doubtful' = doubtful \cup {dispatcher[d].mail}
    /\ dispatcher' = [dispatcher EXCEPT ![d] = Resting]
    /\ UNCHANGED <<mail, delivered>>

\* Five minutes pass after the last claim of a mail that nobody is sending (of one
\* that nobody will claim again, nothing looks at the time) ...
MailClaimLapses(m) ==
    /\ mail[m].claimed
    /\ Unsent(m)
    /\ Sending(m) = {}
    /\ mail' = [mail EXCEPT ![m].claimed = FALSE]
    /\ UNCHANGED <<delivered, doubtful, dispatcher, mailFaults>>

\* ... or while the mail server keeps its dispatcher waiting.
MailClaimOutlived(m) ==
    /\ mail[m].claimed
    /\ Sending(m) # {}
    /\ mailFaults < MaxMailFaults
    /\ mailFaults' = mailFaults + 1
    /\ doubtful' = doubtful \cup {m}
    /\ mail' = [mail EXCEPT ![m].claimed = FALSE]
    /\ UNCHANGED <<delivered, dispatcher>>

MailNext ==
    \/ \E m \in Mails : EnqueueMail(m) \/ MailClaimLapses(m) \/ MailClaimOutlived(m)
    \/ \E d \in Dispatchers :
         \/ Send(d) \/ SendFails(d) \/ SendFailsLate(d) \/ RecordOutcome(d)
         \/ SendHangs(d) \/ HungRestarts(d) \/ DispatcherDies(d)
         \/ \E m \in Mails : ClaimMail(d, m)

MailSpec == MailInit /\ [][MailNext]_mailVars

-----------------------------------------------------------------------------
(* Properties.                                                             *)

\* dispatchOne: a mail that says SENT was delivered.
SentIsDelivered == \A m \in Mails : mail[m].status = "SENT" => delivered[m] > 0

\* The claim of dispatchOne: a mail goes out twice only if an attempt at it went
\* otherwise than the outbox took it to go.  Its dispatcher died or hung with
\* it, it was kept waiting longer than its claim lasts, or its send failed after
\* the server had taken the mail.  A failed send alone, repeated or not, never
\* sends a mail twice, nor does SENT go out again.
TwiceOnlyIfDoubtful == \A m \in Mails : delivered[m] > 1 => m \in doubtful

\* What dispatchers and sends that fail in any of these ways leave of the outbox:
\* SENT is true, and nothing goes out twice without such a failure.
MailInv == MailTypeOK /\ SentIsDelivered /\ TwiceOnlyIfDoubtful

\* The outbox is done with a mail: it went out, or every attempt is used.
MailSettled(m) ==
    \/ delivered[m] > 0
    \/ mail[m].status = "FAILED" /\ mail[m].attempts >= MaxMailAttempts
=============================================================================
