------------------------------ MODULE ActaLedger ------------------------------
(***************************************************************************)
(* What the numbering of actas promises, whoever generates them and        *)
(* whatever fails on the way: the book of a format and period has no gap,  *)
(* every request is entered at most once, an entry never changes, and a    *)
(* request that was withdrawn is never entered afterwards.                 *)
(***************************************************************************)
EXTENDS Naturals

CONSTANTS
    DocRequests,
    Direct       \* the owner of an acta that was generated without a request

VARIABLES
    count,       \* the last number issued
    owner,       \* owner[n] is the request that acta n answers
    asked,       \* the requests made
    withdrawn    \* the requests cancelled before they had an acta

ledgerVars == <<count, owner, asked, withdrawn>>

LedgerInit ==
    /\ count = 0
    /\ owner = [n \in 1..0 |-> Direct]
    /\ asked = {}
    /\ withdrawn = {}

Ask(r) ==
    /\ r \notin asked
    /\ asked' = asked \cup {r}
    /\ UNCHANGED <<count, owner, withdrawn>>

Enter(r) ==
    /\ r # Direct => r \in asked \ withdrawn /\ \A n \in 1..count : owner[n] # r
    /\ count' = count + 1
    /\ owner' = [n \in 1..(count + 1) |-> IF n = count + 1 THEN r ELSE owner[n]]
    /\ UNCHANGED <<asked, withdrawn>>

Withdraw(S) ==
    /\ S \subseteq asked
    /\ \A n \in 1..count : owner[n] \notin S
    /\ withdrawn' = withdrawn \cup S
    /\ UNCHANGED <<count, owner, asked>>

LedgerNext ==
    \/ \E r \in DocRequests : Ask(r)
    \/ \E r \in DocRequests \cup {Direct} : Enter(r)
    \/ \E S \in SUBSET DocRequests : Withdraw(S)

LedgerSpec == LedgerInit /\ [][LedgerNext]_ledgerVars
=============================================================================
