----------------------------- MODULE FeatureFlags -----------------------------
(***************************************************************************)
(* FeatureFlagsService with the guard and the interceptor that call it,    *)
(* for one module of the application that may be switched off: its row of  *)
(* feature_flag, the copy each instance decides by, the circuit that opens *)
(* when requests fail and closes when a probe succeeds, and the reloads    *)
(* that bring the copies up to date.  A reload may come at any time, for   *)
(* NOTIFY, for a reconnection, for the timer or after a write that found   *)
(* nothing to do; it begins here when it reads the row, since one that is  *)
(* overtaken by a write of its own instance before that has no effect.  A  *)
(* time the module was switched off at is a number; waited says how many   *)
(* of them are further back than the cooldown.  version counts the writes  *)
(* of the row: no code reads it.                                           *)
(***************************************************************************)
EXTENDS Naturals

CONSTANTS
    FlagInstances,
    CircuitThreshold,    \* features.circuitThreshold
    ReloadSlots,         \* bound: reloads of an instance that have read and not applied
    MaxInFlight,         \* bound: requests of an instance under way
    MaxUpsets            \* bound: failing requests, errors of the database, changes by hand and restarts

ASSUME FlagsAssumption ==
    CircuitThreshold \in Nat \ {0} /\ MaxInFlight \in Nat /\ MaxUpsets \in Nat

VARIABLES
    flag,      \* the row of feature_flag; no row is the same as one that is enabled
    node,      \* what each instance has in memory
    switchoff, \* how many times were taken for disabled_at, and how many of them have been waited for
    upsets

flagVars == <<flag, node, switchoff, upsets>>

FlagRow == [enabled : BOOLEAN, reason : {"NONE", "MANUAL", "CIRCUIT"}, at : Nat, version : Nat]

NoWrite == [op |-> "none", pc |-> "idle", at |-> 0, read |-> [enabled |-> TRUE, reason |-> "NONE", at |-> 0, version |-> 0]]

FlagWrite == [op : {"none", "trip", "recover", "rearm", "enable", "disable"},
              pc : {"idle", "db", "done", "missed", "failed"}, at : Nat, read : FlagRow]

\* Writes of the circuit and of an administrator.
Writers == {"circuit", "admin"}

NodeRecord ==
    [stored : FlagRow,       \* what it decides by
     own : Nat,              \* the last version it wrote
     failures : 0..CircuitThreshold, probe : {"none", "out", "lapsed"}, inFlight : 0..MaxInFlight,
     write : [Writers -> FlagWrite],
     reload : [ReloadSlots -> [pc : {"idle", "read"}, row : FlagRow]]]

FlagTypeOK ==
    /\ flag \in FlagRow
    /\ node \in [FlagInstances -> NodeRecord]
    /\ switchoff \in [taken : Nat, waited : Nat]
    /\ upsets \in 0..MaxUpsets

Enabled(v) == [enabled |-> TRUE, reason |-> "NONE", at |-> 0, version |-> v]

\* toOverride: an enabled row has no reason.
Override(row) == IF row.enabled THEN Enabled(row.version) ELSE row

NoReload == [pc |-> "idle", row |-> Enabled(0)]

\* onModuleInit reads the table before the instance serves.
Started(row) ==
    [stored |-> Override(row), own |-> row.version, failures |-> 0, probe |-> "none", inFlight |-> 0,
     write |-> [k \in Writers |-> NoWrite], reload |-> [s \in ReloadSlots |-> NoReload]]

FlagInit ==
    /\ flag = Enabled(0)
    /\ node = [i \in FlagInstances |-> Started(Enabled(0))]
    /\ switchoff = [taken |-> 0, waited |-> 0]
    /\ upsets = 0

Upset == upsets < MaxUpsets /\ upsets' = upsets + 1

-----------------------------------------------------------------------------
(* Requests.                                                               *)

\* circuitPhase
HalfOpen(i) ==
    LET s == node[i].stored
    IN  ~s.enabled /\ s.reason = "CIRCUIT" /\ s.at <= switchoff.waited

\* Mutation: a reload that began before the end of a write still counts.
KeepsReloads(n) == n

\* write, when it begins and when it ends: no reload under way counts any more.
Mutates(n) == [n EXCEPT !.reload = [s \in ReloadSlots |-> NoReload]]

Begins(n, k, op, at) ==
    [Mutates(n) EXCEPT !.write[k] = [op |-> op, pc |-> "db", at |-> at, read |-> flag]]

CircuitIdle(i) == node[i].write["circuit"].op = "none"

\* Mutation: a probe that never answered keeps its turn.
NoProbeOut(i) == node[i].probe = "none"

ProbeTurn(i) == node[i].probe # "out"

\* FeatureGuard.canActivate, by admit: the module is enabled, or the request is
\* the probe.
Admit(i) ==
    /\ node[i].inFlight < MaxInFlight
    /\ \/ /\ node[i].stored.enabled
          /\ node' = [node EXCEPT ![i].inFlight = @ + 1]
       \/ /\ HalfOpen(i)
          /\ ProbeTurn(i)
          /\ node' = [node EXCEPT ![i].inFlight = @ + 1, ![i].probe = "out"]
    /\ UNCHANGED <<flag, switchoff, upsets>>

Answered(i) == [node[i] EXCEPT !.inFlight = @ - 1]

\* recordSuccess: whichever request it is, the probe has succeeded.
RequestSucceeds(i) ==
    LET closes == node[i].probe # "none" /\ HalfOpen(i)
        after  == [Answered(i) EXCEPT !.probe = "none"]
    IN  /\ node[i].inFlight > 0
        /\ closes => CircuitIdle(i)
        /\ node' = [node EXCEPT ![i] = IF closes THEN Begins(after, "circuit", "recover", 0) ELSE after]
        /\ UNCHANGED <<flag, switchoff, upsets>>

\* recordFailure, when a probe is out: the wait begins again.
ProbeFails(i) ==
    LET now   == switchoff.taken + 1
        after == [Answered(i) EXCEPT !.probe = "none"]
    IN  /\ node[i].inFlight > 0
        /\ node[i].probe # "none"
        /\ Upset
        /\ HalfOpen(i) => CircuitIdle(i)
        /\ node' = [node EXCEPT ![i] = IF HalfOpen(i) THEN Begins(after, "circuit", "rearm", now) ELSE after]
        /\ switchoff' = IF HalfOpen(i) THEN [switchoff EXCEPT !.taken = now] ELSE switchoff
        /\ UNCHANGED flag

\* recordFailure, otherwise: failures are counted while the module is enabled,
\* and enough of them open the circuit, once.
RequestFails(i) ==
    LET counted == node[i].failures + 1
        now     == switchoff.taken + 1
        trips   == node[i].stored.enabled /\ counted >= CircuitThreshold /\ node[i].write["circuit"].op # "trip"
    IN  /\ node[i].inFlight > 0
        /\ node[i].probe = "none"
        /\ Upset
        /\ trips => CircuitIdle(i)
        /\ node' = [node EXCEPT ![i] =
              IF trips THEN Begins([Answered(i) EXCEPT !.failures = 0], "circuit", "trip", now)
              ELSE IF node[i].stored.enabled /\ counted <= CircuitThreshold
                   THEN [Answered(i) EXCEPT !.failures = counted]
              ELSE Answered(i)]
        /\ switchoff' = IF trips THEN [switchoff EXCEPT !.taken = now] ELSE switchoff
        /\ UNCHANGED flag

\* releaseProbe: an answer that is the fault of who asked.
RequestIsRefused(i) ==
    /\ node[i].inFlight > 0
    /\ Upset
    /\ node' = [node EXCEPT ![i] = [Answered(i) EXCEPT !.probe = "none"]]
    /\ UNCHANGED <<flag, switchoff>>

\* A request that never answers.
RequestHangs(i) ==
    /\ node[i].inFlight > 0
    /\ Upset
    /\ node' = [node EXCEPT ![i] = Answered(i)]
    /\ UNCHANGED <<flag, switchoff>>

-----------------------------------------------------------------------------
(* Time.                                                                   *)

\* The cooldown after the oldest time that is still waited for.
CooldownEnds ==
    /\ switchoff.waited < switchoff.taken
    /\ switchoff' = [switchoff EXCEPT !.waited = @ + 1]
    /\ UNCHANGED <<flag, node, upsets>>

\* PROBE_LEASE_MS
ProbeLapses(i) ==
    /\ node[i].probe = "out"
    /\ node' = [node EXCEPT ![i].probe = "lapsed"]
    /\ UNCHANGED <<flag, switchoff, upsets>>

\* A failure falls out of the window.
FailureAges(i) ==
    /\ node[i].failures > 0
    /\ node' = [node EXCEPT ![i].failures = @ - 1]
    /\ UNCHANGED <<flag, switchoff, upsets>>

-----------------------------------------------------------------------------
(* Writes.                                                                 *)

\* setEnabled: Repository.save reads the row ...
AdminSets(i, op) ==
    /\ node[i].write["admin"].op = "none"
    /\ Upset
    /\ node' = [node EXCEPT ![i] = Begins(node[i], "admin", op, 0)]
    /\ UNCHANGED <<flag, switchoff>>

\* ... and then updates the columns that differ from what it read.
Saved(w) ==
    LET to == [enabled |-> w.op = "enable", reason |-> IF w.op = "enable" THEN "NONE" ELSE "MANUAL"]
    IN  [flag EXCEPT !.enabled = IF to.enabled # w.read.enabled THEN to.enabled ELSE @,
                     !.reason  = IF to.reason # w.read.reason THEN to.reason ELSE @,
                     !.at      = IF w.op = "disable" \/ w.read.reason # "NONE" THEN 0 ELSE @]

\* Mutation: the probe closes whatever is off.
ClosesAnything(w) ==
    CASE w.op = "trip" -> flag.enabled
      [] w.op = "recover" -> ~flag.enabled
      [] w.op = "rearm" -> ~flag.enabled /\ flag.reason = "CIRCUIT"
      [] OTHER -> TRUE

\* TRIP_SQL and the conditions of the updates.
Applies(w) ==
    CASE w.op = "trip" -> flag.enabled
      [] w.op \in {"recover", "rearm"} -> ~flag.enabled /\ flag.reason = "CIRCUIT"
      [] OTHER -> TRUE

Written(w) ==
    CASE w.op \in {"trip", "rearm"} -> [flag EXCEPT !.enabled = FALSE, !.reason = "CIRCUIT", !.at = w.at]
      [] w.op = "recover" -> [flag EXCEPT !.enabled = TRUE, !.reason = "NONE", !.at = 0]
      [] OTHER -> Saved(w)

WriteRuns(i, k) ==
    LET w   == node[i].write[k]
        row == [Written(w) EXCEPT !.version = flag.version + 1]
    IN  /\ w.pc = "db"
        /\ flag' = IF Applies(w) THEN row ELSE flag
        /\ node' = [node EXCEPT ![i].write[k] = IF Applies(w) THEN [w EXCEPT !.pc = "done", !.read = row]
                                                ELSE [w EXCEPT !.pc = "missed"]]
        /\ UNCHANGED <<switchoff, upsets>>

WriteFails(i, k) ==
    /\ node[i].write[k].pc = "db"
    /\ Upset
    /\ node' = [node EXCEPT ![i].write[k].pc = "failed"]
    /\ UNCHANGED <<flag, switchoff>>

\* What the instance takes for the state of the module after its write.
Believed(w, s) ==
    CASE w.op \in {"trip", "rearm"} -> [enabled |-> FALSE, reason |-> "CIRCUIT", at |-> w.at,
                                        version |-> IF w.pc = "done" THEN w.read.version ELSE s.version]
      [] w.op \in {"recover", "enable"} -> Enabled(w.read.version)
      [] w.op = "disable" -> [enabled |-> FALSE, reason |-> "MANUAL", at |-> 0, version |-> w.read.version]

Ended(n, k) == [Mutates(n) EXCEPT !.write[k] = NoWrite]

\* The write comes back: trip, rearm, recordSuccess and setEnabled go on.  trip
\* and rearm do so although the database did not take it.
WriteEnds(i, k) ==
    LET w == node[i].write[k]
        n == Ended(node[i], k)
    IN  /\ \/ w.pc = "done"
           \/ w.pc = "failed" /\ w.op \in {"trip", "rearm"}
        /\ node' = [node EXCEPT ![i] =
              [n EXCEPT !.stored = Believed(w, node[i].stored),
                        !.own = IF w.pc = "done" THEN w.read.version ELSE @,
                        !.failures = IF w.op \in {"recover", "enable", "disable"} THEN 0 ELSE @,
                        !.probe = IF k = "admin" THEN "none" ELSE @]]
        /\ UNCHANGED <<flag, switchoff, upsets>>

\* Somebody else was there first: the row is read again, by a reload.
WriteMissed(i, k) ==
    /\ node[i].write[k].pc = "missed"
    /\ node' = [node EXCEPT ![i] = Ended(node[i], k)]
    /\ UNCHANGED <<flag, switchoff, upsets>>

\* The error is logged, or returned to the administrator.
WriteIsLost(i, k) ==
    /\ node[i].write[k].pc = "failed"
    /\ node[i].write[k].op \in {"recover", "enable", "disable"}
    /\ node' = [node EXCEPT ![i] = Ended(node[i], k)]
    /\ UNCHANGED <<flag, switchoff, upsets>>

-----------------------------------------------------------------------------
(* Reloads.  One that fails leaves no trace.                               *)

\* reloadAll, reloadOne
ReloadReads(i, s) ==
    /\ node[i].reload[s].pc = "idle"
    /\ node' = [node EXCEPT ![i].reload[s] = [pc |-> "read", row |-> Override(flag)]]
    /\ UNCHANGED <<flag, switchoff, upsets>>

\* apply
ReloadApplies(i, s) ==
    LET row == node[i].reload[s].row
    IN  /\ node[i].reload[s].pc = "read"
        /\ node' = [node EXCEPT ![i].stored = row,
                                ![i].probe = IF row.reason = "CIRCUIT" THEN @ ELSE "none",
                                ![i].reload[s] = NoReload]
        /\ UNCHANGED <<flag, switchoff, upsets>>

\* The statement of DEPLOY 12 that switches the module on by hand.
SqlEnables ==
    /\ Upset
    /\ flag' = Enabled(flag.version + 1)
    /\ UNCHANGED <<node, switchoff>>

Restart(i) ==
    /\ Upset
    /\ node' = [node EXCEPT ![i] = Started(flag)]
    /\ UNCHANGED <<flag, switchoff>>

-----------------------------------------------------------------------------

\* What an instance does as long as it runs and is asked.
Answers(i) == Admit(i) \/ RequestSucceeds(i) \/ ProbeLapses(i)

Writes(i, k) ==
    WriteRuns(i, k) \/ WriteEnds(i, k) \/ WriteMissed(i, k) \/ WriteIsLost(i, k)

Reloads(i, s) == ReloadReads(i, s) \/ ReloadApplies(i, s)

Serves(i) ==
    Answers(i) \/ (\E k \in Writers : Writes(i, k)) \/ (\E s \in ReloadSlots : Reloads(i, s))

Upsets(i) ==
    \/ ProbeFails(i) \/ RequestFails(i) \/ RequestIsRefused(i) \/ RequestHangs(i) \/ Restart(i)
    \/ \E op \in {"enable", "disable"} : AdminSets(i, op)
    \/ \E k \in Writers : WriteFails(i, k)

FlagNext == CooldownEnds \/ SqlEnables \/ \E i \in FlagInstances : Serves(i) \/ Upsets(i) \/ FailureAges(i)

FlagSpec == FlagInit /\ [][FlagNext]_flagVars

-----------------------------------------------------------------------------
(* Properties.                                                             *)

\* DEPLOY 12, "only CIRCUIT recovers by itself": what was switched off by hand
\* stays so until somebody switches it on, whatever the instances believe.
ManualStays ==
    [][~flag.enabled /\ flag.reason = "MANUAL" /\ flag' # flag =>
          SqlEnables \/ \E i \in FlagInstances : WriteRuns(i, "admin")]_flagVars

\* writeSeq: no reload brings back a state of the module from before the last
\* write of the instance itself, however late it arrives.
ReloadIsNewer ==
    \A i \in FlagInstances : \A s \in ReloadSlots :
        node[i].reload[s].pc = "read" => node[i].reload[s].row.version >= node[i].own

FlagInv == FlagTypeOK /\ ReloadIsNewer
=============================================================================
