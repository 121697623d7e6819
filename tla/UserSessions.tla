----------------------------- MODULE UserSessions -----------------------------
(***************************************************************************)
(* The sessions of one user: login, refresh, logout, changePassword and    *)
(* resetPassword of AuthService, deactivate and reactivate of              *)
(* UsersService, and the cache of SessionStateService in each instance.  A *)
(* session is a family of refresh tokens; token n of a family is the n-th  *)
(* that was signed for it.  None of these operations runs in a             *)
(* transaction: what happens between two awaits is a step.  The second     *)
(* factor and invitations are left out.                                    *)
(***************************************************************************)
EXTENDS AuthLockout

CONSTANTS
    Families, Requests, Instances, NoFamily,
    Ttl,             \* SESSION_STATE_TTL_MS
    MaxTokens,       \* bound: refresh tokens of a family
    MaxPasswords,    \* bound
    MaxCrashes       \* bound: operations that die or fail half way

ASSUME SessionAssumption ==
    NoFamily \notin Families /\ {Ttl, MaxTokens, MaxPasswords} \subseteq Nat \ {0} /\ MaxCrashes \in Nat

VARIABLES
    account,       \* app_user
    family,        \* refresh_token_family; password is the one its login verified
    request,       \* the operations under way
    cache,         \* SessionStateService.entries: when each entry expires, 0 if there is none
    lastLive,      \* the last time each session could be used
    exchanged,     \* how many tokens were given for each token
    reused,        \* families of which an old token was presented, and the operation lived to revoke them
    escaped,       \* families that a change of password missed: their login ended after it, or it died or failed half way
    crashes        \* operations that died or failed half way

sessionVars == <<account, family, request, cache, lastLive, exchanged, reused, escaped, crashes>>

accessVars == <<lockoutVars, sessionVars>>

Account == [status : {"ACTIVE", "INACTIVE"}, password : 1..MaxPasswords]

Free == [op |-> "idle", read |-> {}, family |-> NoFamily, token |-> 0, at |-> {}, now |-> 0]

SessionTypeOK ==
    /\ account \in Account
    /\ family \in [Families -> [status : {"NONE", "ACTIVE", "REVOKED"}, expired : BOOLEAN, token : 0..MaxTokens,
                                password : 0..MaxPasswords]]
    /\ request \in [Requests -> [op : {"idle", "login", "password", "issue", "user", "rotate", "reuse", "query",
                                       "found", "signout", "forget"},
                                 read : SUBSET Account, family : Families \cup {NoFamily}, token : 0..MaxTokens,
                                 at : SUBSET Instances, now : 0..MaxTime]]
    /\ \A r \in Requests : request[r].op \in {"user", "rotate"} => request[r].token \in 1..MaxTokens
    /\ cache \in [Instances -> [Families -> 0..(MaxTime + Ttl)]]
    /\ lastLive \in [Families -> 0..MaxTime]
    /\ exchanged \in [Families -> [1..MaxTokens -> Nat]]
    /\ reused \subseteq Families /\ escaped \subseteq Families
    /\ crashes \in 0..MaxCrashes

SessionInit ==
    /\ account = [status |-> "ACTIVE", password |-> 1]
    /\ family = [f \in Families |-> [status |-> "NONE", expired |-> FALSE, token |-> 0, password |-> 0]]
    /\ request = [r \in Requests |-> Free]
    /\ cache = [i \in Instances |-> [f \in Families |-> 0]]
    /\ lastLive = [f \in Families |-> 0]
    /\ exchanged = [f \in Families |-> [n \in 1..MaxTokens |-> 0]]
    /\ reused = {} /\ escaped = {} /\ crashes = 0

\* The condition of SessionStateService's query.
Live(f) == family[f].status = "ACTIVE" /\ ~family[f].expired /\ account.status = "ACTIVE"

Becomes(r, op) == request' = [request EXCEPT ![r].op = op]
Ends(r) == request' = [request EXCEPT ![r] = Free]

-----------------------------------------------------------------------------
(* login and issueSession.                                                 *)

LoginReads(r) ==
    /\ request[r].op = "idle"
    /\ request' = [request EXCEPT ![r] = [Free EXCEPT !.op = "login", !.read = {account}]]
    /\ UNCHANGED <<lockoutVars, account, family, cache, exchanged, reused, escaped, crashes>>

LoginCounted(r) ==
    /\ request[r].op = "login"
    /\ \/ AttemptAllowed /\ Becomes(r, "password")
       \/ AttemptRefused /\ Ends(r)
    /\ UNCHANGED <<account, family, cache, exchanged, reused, escaped, crashes>>

\* The password is compared with the hash that was read.
LoginWrong(r) ==
    /\ request[r].op = "password"
    /\ Ends(r)
    /\ UNCHANGED <<lockoutVars, account, family, cache, exchanged, reused, escaped, crashes>>

LoginRight(r) ==
    /\ request[r].op = "password"
    /\ ClearAttempts
    /\ IF \E user \in request[r].read : user.status = "ACTIVE" THEN Becomes(r, "issue") ELSE Ends(r)
    /\ UNCHANGED <<account, family, cache, exchanged, reused, escaped, crashes>>

IssueSession(r, f) ==
    /\ request[r].op = "issue"
    /\ family[f].status = "NONE"
    /\ \E user \in request[r].read :
         /\ family' = [family EXCEPT ![f] = [status |-> "ACTIVE", expired |-> FALSE, token |-> 1,
                                             password |-> user.password]]
         /\ escaped' = IF user.password = account.password THEN escaped ELSE escaped \cup {f}
    /\ Ends(r)
    /\ UNCHANGED <<lockoutVars, account, cache, exchanged, reused, crashes>>

-----------------------------------------------------------------------------
(* refresh.                                                                *)

\* Somebody presents any token that was ever signed.
RefreshReads(r, f, n) ==
    /\ request[r].op = "idle"
    /\ n <= family[f].token
    /\ LET usable == family[f].status = "ACTIVE" /\ ~family[f].expired /\ family[f].token = n
       IN  /\ request' = [request EXCEPT ![r] =
                 [Free EXCEPT !.op = IF usable THEN "user" ELSE "reuse", !.family = f, !.token = n]]
           /\ reused' = IF usable THEN reused ELSE reused \cup {f}
    /\ UNCHANGED <<lockoutVars, account, family, cache, exchanged, escaped, crashes>>

RefreshReadsUser(r) ==
    /\ request[r].op = "user"
    /\ IF account.status = "ACTIVE" THEN Becomes(r, "rotate") ELSE Ends(r)
    /\ UNCHANGED <<lockoutVars, account, family, cache, exchanged, reused, escaped, crashes>>

\* Mutation: the token that is expected is not compared.
RotatesActive(r) == family[request[r].family].status = "ACTIVE"

\* rotate is one statement.
Rotates(r) ==
    /\ family[request[r].family].status = "ACTIVE"
    /\ family[request[r].family].token = request[r].token

RefreshRotates(r) ==
    LET f == request[r].family
    IN  /\ request[r].op = "rotate"
        /\ family[f].token < MaxTokens
        /\ IF Rotates(r)
           THEN /\ family' = [family EXCEPT ![f].token = @ + 1, ![f].expired = FALSE]
                /\ exchanged' = [exchanged EXCEPT ![f][request[r].token] = @ + 1]
                /\ Ends(r)
                /\ UNCHANGED reused
           ELSE /\ Becomes(r, "reuse")
                /\ reused' = reused \cup {f}
                /\ UNCHANGED <<family, exchanged>>
        /\ UNCHANGED <<lockoutVars, account, cache, escaped, crashes>>

Revoked(f) == [family[f] EXCEPT !.status = IF @ = "ACTIVE" THEN "REVOKED" ELSE @]

\* handleReuseDetected
ReuseDetected(r) ==
    /\ request[r].op = "reuse"
    /\ family' = [family EXCEPT ![request[r].family] = Revoked(request[r].family)]
    /\ Ends(r)
    /\ UNCHANGED <<lockoutVars, account, cache, exchanged, reused, escaped, crashes>>

-----------------------------------------------------------------------------
(* What ends sessions.                                                     *)

At(r, op, i) == request' = [request EXCEPT ![r] = [Free EXCEPT !.op = op, !.at = {i}]]

Logout(r, i) ==
    /\ request[r].op = "idle"
    /\ At(r, "signout", i)
    /\ UNCHANGED <<lockoutVars, account, family, cache, exchanged, reused, escaped, crashes>>

\* changePassword and resetPassword, up to the new hash.
PasswordChanges(r, i) ==
    /\ request[r].op = "idle"
    /\ account.password < MaxPasswords
    /\ account' = [account EXCEPT !.password = @ + 1]
    /\ At(r, "signout", i)
    /\ UNCHANGED <<lockoutVars, family, cache, exchanged, reused, escaped, crashes>>

Deactivate(r, i) ==
    /\ request[r].op = "idle"
    /\ account' = [account EXCEPT !.status = "INACTIVE"]
    /\ At(r, "signout", i)
    /\ UNCHANGED <<lockoutVars, family, cache, exchanged, reused, escaped, crashes>>

Reactivate(r, i) ==
    /\ request[r].op = "idle"
    /\ account.status = "INACTIVE"
    /\ account' = [account EXCEPT !.status = "ACTIVE"]
    /\ At(r, "forget", i)
    /\ UNCHANGED <<lockoutVars, family, cache, exchanged, reused, escaped, crashes>>

\* Mutation: the session that has had a refresh is kept.
RevokeFirstTokens(r) ==
    /\ request[r].op = "signout"
    /\ family' = [f \in Families |-> IF family[f].token = 1 THEN Revoked(f) ELSE family[f]]
    /\ Becomes(r, "forget")
    /\ UNCHANGED <<lockoutVars, account, cache, exchanged, reused, escaped, crashes>>

RevokeAllForUser(r) ==
    /\ request[r].op = "signout"
    /\ family' = [f \in Families |-> Revoked(f)]
    /\ Becomes(r, "forget")
    /\ UNCHANGED <<lockoutVars, account, cache, exchanged, reused, escaped, crashes>>

\* SessionStateService.invalidate, in the instance that did it.
Invalidate(r) ==
    /\ request[r].op = "forget"
    /\ cache' = [i \in Instances |-> IF i \in request[r].at THEN [f \in Families |-> 0] ELSE cache[i]]
    /\ Ends(r)
    /\ UNCHANGED <<lockoutVars, account, family, exchanged, reused, escaped, crashes>>

-----------------------------------------------------------------------------
(* SessionStateService.resolve, for a request with an access token.        *)

ResolveMisses(r, i, f) ==
    /\ request[r].op = "idle"
    /\ family[f].token > 0
    /\ cache[i][f] <= time
    /\ request' = [request EXCEPT ![r] = [Free EXCEPT !.op = "query", !.family = f, !.at = {i}, !.now = time]]
    /\ UNCHANGED <<lockoutVars, account, family, cache, exchanged, reused, escaped, crashes>>

\* What the query finds ...
ResolveQueries(r) ==
    /\ request[r].op = "query"
    /\ IF Live(request[r].family)
       THEN Becomes(r, "found") /\ UNCHANGED cache
       ELSE /\ cache' = [i \in Instances |-> IF i \in request[r].at THEN [cache[i] EXCEPT ![request[r].family] = 0] ELSE cache[i]]
            /\ Ends(r)
    /\ UNCHANGED <<lockoutVars, account, family, exchanged, reused, escaped, crashes>>

\* ... is kept for a time that counts from before the query.
Expiry(r) == request[r].now + Ttl

\* remember, which at its limit forgets everything else.
ResolveRemembers(r, full) ==
    /\ request[r].op = "found"
    /\ cache' = [i \in Instances |->
          IF i \notin request[r].at THEN cache[i]
          ELSE [f \in Families |-> IF f = request[r].family THEN Expiry(r)
                                   ELSE IF full THEN 0 ELSE cache[i][f]]]
    /\ Ends(r)
    /\ UNCHANGED <<lockoutVars, account, family, exchanged, reused, escaped, crashes>>

-----------------------------------------------------------------------------

FamilyExpires(f) ==
    /\ family[f].status = "ACTIVE" /\ ~family[f].expired
    /\ family' = [family EXCEPT ![f].expired = TRUE]
    /\ UNCHANGED <<lockoutVars, account, request, cache, exchanged, reused, escaped, crashes>>

\* The instance dies with the operation and its cache, or a statement fails and
\* ends the operation alone.  What is done in memory does not fail.
OperationDies(r) ==
    /\ request[r].op \in {"signout", "forget", "reuse"}
    /\ crashes < MaxCrashes
    /\ crashes' = crashes + 1
    /\ \/ cache' = [i \in Instances |-> IF i \in request[r].at THEN [f \in Families |-> 0] ELSE cache[i]]
       \/ request[r].op # "forget" /\ cache' = cache
    /\ reused' = reused \ {request[r].family}
    /\ escaped' = IF request[r].op = "signout" THEN escaped \cup {f \in Families : family[f].status = "ACTIVE"} ELSE escaped
    /\ Ends(r)
    /\ UNCHANGED <<lockoutVars, account, family, exchanged>>

Tick ==
    /\ time < MaxTime
    /\ time' = time + 1
    /\ UNCHANGED <<lockout, tries, account, family, request, cache, exchanged, reused, escaped, crashes>>

AccessStep ==
    \/ \E r \in Requests :
         \/ LoginReads(r) \/ LoginCounted(r) \/ LoginWrong(r) \/ LoginRight(r)
         \/ RefreshReadsUser(r) \/ RefreshRotates(r) \/ ReuseDetected(r)
         \/ RevokeAllForUser(r) \/ Invalidate(r) \/ ResolveQueries(r) \/ OperationDies(r)
         \/ \E full \in BOOLEAN : ResolveRemembers(r, full)
         \/ \E f \in Families : IssueSession(r, f) \/ \E n \in 1..MaxTokens : RefreshReads(r, f, n)
         \/ \E i \in Instances :
              \/ Logout(r, i) \/ PasswordChanges(r, i) \/ Deactivate(r, i) \/ Reactivate(r, i)
              \/ \E f \in Families : ResolveMisses(r, i, f)
    \/ \E f \in Families : FamilyExpires(f)
    \/ Tick

Watch == lastLive' = [f \in Families |-> IF Live(f)' THEN time' ELSE lastLive[f]]

AccessInit == LockoutInit /\ SessionInit

AccessNext == AccessStep /\ Watch

AccessSpec == AccessInit /\ [][AccessNext]_accessVars

-----------------------------------------------------------------------------
(* Properties.                                                             *)

\* resolve against revocations in any instance: no entry of a cache outlives
\* the session by more than the TTL, however late the lookup stored it.
CacheIsRecent == \A i \in Instances, f \in Families : cache[i][f] <= lastLive[f] + Ttl

\* rotate: of the refreshes that present one token, one gets a new token.
TokenRotatesOnce == \A f \in Families, n \in 1..MaxTokens : exchanged[f][n] <= 1

\* refresh and handleReuseDetected: a family of which an old token was presented
\* is revoked, or about to be, and no refresh under way brings it back, unless
\* the instance died, or the statement failed, before it revoked the family.
ReusedIsRevoked ==
    \A f \in reused :
        \/ family[f].status # "ACTIVE"
        \/ \E r \in Requests : request[r].op = "reuse" /\ request[r].family = f

\* What refreshes, reuse and lookups that race leave of a session: one token, no
\* way back from a reuse, and no cache that knows it much longer than it lives.
AccessInv == LockoutTypeOK /\ SessionTypeOK /\ CacheIsRecent /\ TokenRotatesOnce /\ ReusedIsRevoked

\* changePassword and resetPassword: a session of an older password ends with
\* the change, unless its login began before the change and ended after it, or
\* the instance died, or a statement failed, between the new password and the
\* revocation.
OldPasswordEnds ==
    \A f \in Families \ escaped :
        \/ family[f].status # "ACTIVE"
        \/ family[f].password = account.password
        \/ \E r \in Requests : request[r].op = "signout"
=============================================================================
