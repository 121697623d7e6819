---------------------------- MODULE MCUserSessions ----------------------------
(***************************************************************************)
(* Two questions in one run, told apart by scope: who gets how many        *)
(* attempts, with logins alone and many hours, and what becomes of the     *)
(* sessions, with logins that know the password.                           *)
(***************************************************************************)
EXTENDS UserSessions

VARIABLE scope

\* Requests are interchangeable: the first idle one begins.
FirstIdle ==
    \A u, v \in Requests : request[v].op = "idle" /\ request'[v].op # "idle" /\ u < v => request[u].op # "idle"

\* The caches of two instances never meet: one is followed, and the other
\* instance signs out without telling it.

\* bound: the time that matters to the sessions
SessionTime == 2

LoginIsUnderWay == \E r \in Requests : request[r].op \in {"login", "password", "issue"}

MCNext ==
    /\ AccessNext
    /\ FirstIdle
    /\ CASE scope = "attempts" ->
              /\ \A r \in Requests : request'[r].op \in {"idle", "login", "password", "issue"}
              /\ \A f \in Families : family'[f].status = "NONE"
         [] scope = "sessions" ->
              /\ \A f \in Families : cache'[1][f] = 0
              /\ time' <= SessionTime
              /\ LoginIsUnderWay => time' = time
              /\ \A r \in Requests : request[r].op # "login" /\ request'[r].op = "login" =>
                    \E f \in Families : family[f].status = "NONE"
              /\ \A r \in Requests : LoginRight(r) \/ ~(request[r].op = "password" /\ request'[r].op # "password")
    /\ UNCHANGED scope

MCInit == AccessInit /\ scope \in {"attempts", "sessions"}

MCSpec == MCInit /\ [][MCNext]_<<accessVars, scope>>
=============================================================================
