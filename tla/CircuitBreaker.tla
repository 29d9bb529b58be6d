--------------------------- MODULE CircuitBreaker ---------------------------
(***************************************************************************)
(* One cluster behind the circuit breaker and the retry plugin.            *)
(*                                                                         *)
(* A request passes CircuitBreakerMiddleware and, when its route retries,  *)
(* RequestRetryMiddleware inside it (PluginRuntimeDomainManager's          *)
(* ProxyPluginOrder), then YARP, which picks one of the available          *)
(* destinations.  Both middlewares ask DestinationCandidateCoordinator for *)
(* the candidates, which acquires each destination's circuit in            *)
(* InMemoryCircuitStateStore, one lock at a time, and both record the      *)
(* outcome.  Besides the circuits of the destinations there is the         *)
(* circuit AnyKey of the cluster, which the middleware checks and which    *)
(* counts the requests that reached no destination.                        *)
(*                                                                         *)
(* Time is abstract: RecoveryElapses lets an open circuit's timeout pass,  *)
(* and recording an outcome lets any number of old samples fall out of the *)
(* window.  MaxCircuitCount (10000) is not reached.  ConsecutiveFailures   *)
(* of a destination's circuit is only displayed and is left out.           *)
(***************************************************************************)
EXTENDS Naturals, Sequences, FiniteSets

CONSTANTS
    Requests,           \* concurrent requests
    Retrying,           \* the ones whose route has the retry plugin
    Dests,              \* destinations of the cluster
    AnyKey,             \* the key of the cluster's own circuit
    Null,               \* no destination (ProxiedDestination is null)
    MaxRetries, UseDifferentDestination, RetryOnExceptions,
    MaxHalfOpenAttempts, MinimumThroughput, FailureThreshold,
    RatioNum, RatioDen, \* FailureRatio
    MayShortCircuit,    \* a step further in may answer by itself (response cache, session affinity)
    MayThrow,           \* the pipeline may throw
    MayAbort,           \* the client may go away
    MaxSamples,         \* bound on the samples of the window
    MaxTrips,           \* bound on the recovery timeouts of a circuit
    MaxResets           \* bound on calls of ResetAll

ASSUME BreakerAssumption ==
    /\ Retrying \subseteq Requests /\ AnyKey \notin Dests /\ Null \notin Dests \cup {AnyKey}
    /\ MaxRetries \in Nat /\ MaxHalfOpenAttempts \in Nat \ {0} /\ MinimumThroughput \in Nat \ {0}
    /\ FailureThreshold \in Nat \ {0} /\ RatioNum \in Nat \ {0} /\ RatioDen \in Nat \ {0}
    /\ {UseDifferentDestination, RetryOnExceptions, MayShortCircuit, MayThrow, MayAbort} \subseteq BOOLEAN
    /\ {MaxSamples, MaxTrips, MaxResets} \subseteq Nat

VARIABLES
    circuit,    \* the CircuitState of each destination and of the cluster
    req,        \* each request: where it is and what it holds
    reset,      \* ResetAll: the circuits still to be reset, and the one being reset
    resets

vars == <<circuit, req, reset, resets>>

Keys == Dests \cup {AnyKey}
Statuses == {"Closed", "Open", "HalfOpen"}

\* A response code: the route retries "busy" and "fail" (429 and 503, if it lists both), the
\* circuit breaker counts "fail" and "error" (of at least 500 or in FailureStatusCodes).
Codes == {"ok", "busy", "fail", "error"}
Retried == {"busy", "fail"}
Failed == {"fail", "error"}

\* trips counts the half-open periods of the circuit, to tell their requests apart.
FreshCircuit == [status |-> "Closed", permits |-> 0, samples |-> <<>>, failures |-> 0,
                 elapsed |-> FALSE, trips |-> 0]
NoProbe == [k \in Keys |-> 0]
Idle == [pc |-> "idle", attempt |-> 0, attempted |-> {}, todo |-> {}, avail |-> {}, dest |-> Null,
         code |-> "ok", thrown |-> FALSE, probe |-> NoProbe]

Init ==
    /\ circuit = [k \in Keys |-> FreshCircuit]
    /\ req = [r \in Requests |-> Idle]
    /\ reset = [todo |-> {}, cur |-> Null]
    /\ resets = 0

-----------------------------------------------------------------------------
(* InMemoryCircuitStateStore *)

\* An open circuit whose timeout has passed turns half-open with no permit given.
HalfOpened(c) == [c EXCEPT !.status = "HalfOpen", !.permits = 0, !.elapsed = FALSE, !.trips = @ + 1]

Entering(c) == IF c.status = "Open" /\ c.elapsed THEN HalfOpened(c) ELSE c

Admits(c) ==
    \/ Entering(c).status = "Closed"
    \/ Entering(c).status = "HalfOpen" /\ Entering(c).permits < MaxHalfOpenAttempts

\* Mutant of TryAcquire: the permit is checked and not taken.
TryAcquire_NotCounted(c) == Entering(c)

\* What TryAcquire leaves, whether it admits or not.
TryAcquire(c) ==
    LET e == Entering(c)
    IN IF e.status = "HalfOpen" /\ Admits(c) THEN [e EXCEPT !.permits = @ + 1] ELSE e

Failures(s) == Cardinality({i \in DOMAIN s : s[i]})

Trips(s, f) == Len(s) >= MinimumThroughput /\ f * RatioDen >= RatioNum * Len(s)

\* Mutant of Sampled: samples leave the window without leaving the failure counter.
Sampled_NoDecrement(c, failed, k) ==
    LET s == SubSeq(Append(c.samples, failed), k + 1, Len(c.samples) + 1)
        f == c.failures + (IF failed THEN 1 ELSE 0)
    IN [c EXCEPT !.samples = s, !.failures = f, !.status = IF Trips(s, f) THEN "Open" ELSE "Closed"]

\* A closed circuit takes a sample, k older ones leave the window.
Sampled(c, failed, k) ==
    LET s == SubSeq(Append(c.samples, failed), k + 1, Len(c.samples) + 1)
        f == c.failures + (IF failed THEN 1 ELSE 0) - Failures(SubSeq(c.samples, 1, k))
    IN [c EXCEPT !.samples = s, !.failures = f, !.status = IF Trips(s, f) THEN "Open" ELSE "Closed"]

\* The numbers of old samples that may leave (MaxSamples bounds the window).
Expiring(c) == {k \in 0 .. Len(c.samples) : Len(c.samples) + 1 - k <= MaxSamples}

ResetClosed(c) == [FreshCircuit EXCEPT !.trips = c.trips]

\* The circuits RecordOutcome can leave.
RecordOutcome(c, failed) ==
    CASE c.status = "HalfOpen" -> {IF failed THEN [c EXCEPT !.status = "Open", !.elapsed = FALSE, !.permits = 0]
                                   ELSE ResetClosed(c)}
      [] c.status = "Open" -> {c}
      [] c.status = "Closed" -> {Sampled(c, failed, k) : k \in Expiring(c)}

Recorded(d, failed) ==
    \E c \in RecordOutcome(circuit[d], failed) : circuit' = [circuit EXCEPT ![d] = c]

RecoveryElapses(k) ==
    /\ circuit[k].status = "Open" /\ ~circuit[k].elapsed /\ circuit[k].trips < MaxTrips
    /\ circuit' = [circuit EXCEPT ![k].elapsed = TRUE]
    /\ UNCHANGED <<req, reset, resets>>

\* ResetAll visits the circuits under a lock that no operation on them takes, so its writes
\* interleave with theirs: first the status, then the counters.  The samples are kept.
ResetAll ==
    /\ reset.todo = {} /\ resets < MaxResets
    /\ reset' = [todo |-> Keys, cur |-> Null]
    /\ resets' = resets + 1
    /\ UNCHANGED <<circuit, req>>

ResetStatus(k) ==
    /\ reset.cur = Null /\ k \in reset.todo
    /\ circuit' = [circuit EXCEPT ![k].status = "Closed", ![k].elapsed = FALSE]
    /\ reset' = [reset EXCEPT !.cur = k]
    /\ UNCHANGED <<req, resets>>

\* ConsecutiveFailures is the failure count of AnyKey; a destination's is SampleFailures, kept.
ResetCounters(k) ==
    /\ reset.cur = k
    /\ circuit' = [circuit EXCEPT ![k].permits = 0, ![k].failures = IF k = AnyKey THEN 0 ELSE @]
    /\ reset' = [todo |-> reset.todo \ {k}, cur |-> Null]
    /\ UNCHANGED <<req, resets>>

\* CleanupStale removes a closed circuit nobody has used for three hours (requests do not
\* last that long); the next use makes a new one.
CleanupStale(k) ==
    /\ circuit[k].status = "Closed"
    /\ \A r \in Requests : req[r].pc = "idle"
    /\ circuit' = [circuit EXCEPT ![k] = ResetClosed(circuit[k])]
    /\ UNCHANGED <<req, reset, resets>>

-----------------------------------------------------------------------------
(* DestinationCandidateCoordinator.ApplyAsync *)

StartCandidates(q, pc, ds) == [q EXCEPT !.pc = pc, !.todo = ds, !.avail = {}]

\* The circuit k, as it is before TryAcquire or the check, counts q among its probes.
Probing(q, k) ==
    LET e == Entering(circuit[k])
    IN [q EXCEPT !.probe[k] = IF e.status = "HalfOpen" THEN e.trips ELSE @]

\* One destination of the loop.
ApplyCandidate(r, d) ==
    /\ req[r].pc \in {"candidates", "retryCandidates"} /\ d \in req[r].todo
    /\ circuit' = [circuit EXCEPT ![d] = TryAcquire(circuit[d])]
    /\ LET q == [req[r] EXCEPT !.todo = @ \ {d}]
       IN req' = [req EXCEPT ![r] = IF Admits(circuit[d]) THEN Probing([q EXCEPT !.avail = @ \cup {d}], d) ELSE q]
    /\ UNCHANGED <<reset, resets>>

\* cancellationToken.ThrowIfCancellationRequested(), asked for every destination, the ones the
\* loop then skips included: inside the retry loop the exception still passes the finally
\* block of the circuit breaker, with the destination of the attempt before.
AbortCandidates(r) ==
    /\ MayAbort
    /\ req[r].pc \in {"candidates", "retryCandidates"}
    /\ req[r].todo # {} \/ (UseDifferentDestination /\ req[r].attempted # {})
    /\ req' = [req EXCEPT ![r].pc = IF @ = "candidates" THEN "done" ELSE "record", ![r].thrown = TRUE]
    /\ UNCHANGED <<circuit, reset, resets>>

-----------------------------------------------------------------------------
(* CircuitBreakerMiddleware.InvokeAsync *)

Arrive(r) ==
    /\ req[r].pc = "idle"
    /\ req' = [req EXCEPT ![r] = StartCandidates(Idle, "candidates", Dests)]
    /\ UNCHANGED <<circuit, reset, resets>>

\* What the check leaves of the circuit AnyKey: the request that finds it open after the
\* timeout goes on without a permit.
AnyChecked(c) ==
    CASE c.status = "Open" -> Entering(c)
      [] c.status = "HalfOpen" -> TryAcquire(c)
      [] c.status = "Closed" -> c

\* No candidate: 503.  Otherwise the circuit AnyKey decides, and the request goes on to the
\* retry plugin or to YARP.
Check(r) ==
    /\ req[r].pc = "candidates" /\ req[r].todo = {}
    /\ IF req[r].avail = {}
       THEN /\ req' = [req EXCEPT ![r].pc = "done", ![r].code = "fail"]
            /\ UNCHANGED circuit
       ELSE /\ circuit' = [circuit EXCEPT ![AnyKey] = AnyChecked(@)]
            /\ req' = [req EXCEPT ![r] =
                         IF ~Admits(circuit[AnyKey]) THEN [@ EXCEPT !.pc = "done", !.code = "fail"]
                         ELSE IF r \in Retrying THEN Probing(StartCandidates(@, "retryCandidates", Dests), AnyKey)
                         ELSE Probing([@ EXCEPT !.pc = "forward"], AnyKey)]
    /\ UNCHANGED <<reset, resets>>

\* UpdateCircuitState (the failure count stops at the threshold, beyond which it is not
\* told apart).
UpdateCircuitState(c, failed) ==
    LET f == IF c.failures < FailureThreshold THEN c.failures + 1 ELSE c.failures
    IN IF ~failed THEN [c EXCEPT !.failures = 0, !.status = IF @ = "HalfOpen" THEN "Closed" ELSE @]
       ELSE IF c.status = "HalfOpen" \/ f >= FailureThreshold
       THEN [c EXCEPT !.failures = f, !.status = "Open", !.elapsed = FALSE]
       ELSE [c EXCEPT !.failures = f]

\* The finally block.  An exception leaves the status code of the response as it was.
Record(r) ==
    /\ req[r].pc = "record"
    /\ IF req[r].dest # Null THEN Recorded(req[r].dest, req[r].code \in Failed)
       ELSE circuit' = [circuit EXCEPT ![AnyKey] = UpdateCircuitState(@, req[r].code \in Failed)]
    /\ req' = [req EXCEPT ![r] = [Idle EXCEPT !.pc = "done"]]
    /\ UNCHANGED <<reset, resets>>

\* The response is on its way; what was acquired and not used stays acquired.
Respond(r) ==
    /\ req[r].pc = "done"
    /\ req' = [req EXCEPT ![r] = Idle]
    /\ UNCHANGED <<circuit, reset, resets>>

-----------------------------------------------------------------------------
(* RequestRetryMiddleware.InvokeAsync, and YARP *)

\* ApplyAsync has cleared ProxiedDestination.  When an attempt finds no candidate the loop
\* ends and the response stays as it is, 200 and empty.
RetryChecked(r) ==
    /\ req[r].pc = "retryCandidates" /\ req[r].todo = {}
    /\ req' = [req EXCEPT ![r].pc = IF req[r].avail = {} THEN "record" ELSE "forward", ![r].dest = Null]
    /\ UNCHANGED <<circuit, reset, resets>>

\* YARP forwards to one of the available destinations (external), or a step before it
\* answers; the response is a success or a failure, or the pipeline throws.
Forward(r, d, code, throws) ==
    /\ req[r].pc = "forward"
    /\ d \in req[r].avail \/ (d = Null /\ (MayShortCircuit \/ throws))
    /\ throws => MayThrow /\ code = "ok"
    /\ req' = [req EXCEPT ![r].pc = IF r \in Retrying THEN "retryRecord" ELSE "record",
                          ![r].dest = d, ![r].code = code, ![r].thrown = throws]
    /\ UNCHANGED <<circuit, reset, resets>>

\* Mutant of NextAttempt: an attempt that threw does not count.
NextAttempt_ThrowFree(q) == IF q.thrown THEN q.attempt ELSE q.attempt + 1

NextAttempt(q) == q.attempt + 1

\* After an attempt: its outcome is recorded, and it is retried while attempts are left.  An
\* exception of the last attempt, or after the client has left, is not caught; a client that
\* leaves during the backoff ends the loop with the status already set back to 200.
RetryRecord(r, left) ==
    LET q == req[r]
        uncaught == q.thrown /\ (~RetryOnExceptions \/ q.attempt = MaxRetries \/ left = "attempt")
        failed == q.thrown \/ q.code \in Retried
        tried == IF q.dest = Null THEN q.attempted ELSE q.attempted \cup {q.dest}
        next == [q EXCEPT !.attempt = NextAttempt(q), !.attempted = tried, !.code = "ok", !.thrown = FALSE]
    IN /\ q.pc = "retryRecord"
       /\ left # "no" => MayAbort
       /\ IF uncaught \/ q.dest = Null THEN UNCHANGED circuit ELSE Recorded(q.dest, failed)
       /\ req' = [req EXCEPT ![r] =
                    IF uncaught THEN [q EXCEPT !.pc = "record"]
                    ELSE IF ~failed \/ q.attempt = MaxRetries THEN [q EXCEPT !.pc = "record", !.attempted = tried]
                    ELSE IF left # "no" THEN [next EXCEPT !.pc = "record"]
                    ELSE StartCandidates(next, "retryCandidates", IF UseDifferentDestination THEN Dests \ tried ELSE Dests)]
       /\ UNCHANGED <<reset, resets>>

-----------------------------------------------------------------------------
RequestStep(r) ==
    \/ \E d \in Dests : ApplyCandidate(r, d)
    \/ AbortCandidates(r) \/ Check(r) \/ RetryChecked(r)
    \/ \E d \in Dests \cup {Null}, code \in Codes, throws \in BOOLEAN : Forward(r, d, code, throws)
    \/ \E left \in {"no", "attempt", "backoff"} : RetryRecord(r, left)
    \/ Record(r) \/ Respond(r)

Next ==
    \/ \E r \in Requests : Arrive(r) \/ RequestStep(r)
    \/ \E k \in Keys : RecoveryElapses(k) \/ CleanupStale(k) \/ ResetStatus(k) \/ ResetCounters(k)
    \/ ResetAll

Spec == Init /\ [][Next]_vars

\* A request that has arrived goes on until it is answered.
FairSpec == Spec /\ \A r \in Requests : WF_vars(RequestStep(r))

-----------------------------------------------------------------------------
(* Properties *)

\* Type invariant of the circuits and the requests: in particular HalfOpenRequests stays
\* within MaxHalfOpenAttempts and no attempt is beyond MaxRetries.
TypeOK ==
    /\ circuit \in [Keys -> [status : Statuses, permits : 0 .. MaxHalfOpenAttempts, samples : Seq(BOOLEAN),
                             failures : Nat, elapsed : BOOLEAN, trips : 0 .. MaxTrips]]
    /\ req \in [Requests -> [pc : {"idle", "candidates", "retryCandidates", "forward", "retryRecord",
                                   "record", "done"},
                             attempt : 0 .. MaxRetries, attempted : SUBSET Dests, todo : SUBSET Dests,
                             avail : SUBSET Dests, dest : Dests \cup {Null},
                             code : Codes, thrown : BOOLEAN, probe : [Keys -> 0 .. MaxTrips]]]
    /\ reset \in [todo : SUBSET Keys, cur : Keys \cup {Null}]
    /\ resets \in 0 .. MaxResets

Probes(k) == {r \in Requests : circuit[k].status = "HalfOpen" /\ req[r].probe[k] = circuit[k].trips}

\* TryAcquire: in one half-open period of a destination's circuit no more than
\* MaxHalfOpenAttempts requests in flight were let through, however the requests that
\* acquire, record and let the circuit trip again interleave (a call of ResetAll, which
\* takes no lock of the circuits, may admit more).
ProbesBounded == resets = 0 => \A d \in Dests : Cardinality(Probes(d)) <= MaxHalfOpenAttempts

\* RecordOutcome and ResetAll: SampleFailures is the number of failures among the samples of
\* the window, which the ratio that trips the circuit rests on.
FailureCounterExact == \A d \in Dests : circuit[d].failures = Failures(circuit[d].samples)

\* RequestRetryMiddleware's loop and both finally blocks: whatever fails, throws or is
\* aborted, a request is answered.
RequestEnds == \A r \in Requests : req[r].pc # "idle" ~> req[r].pc = "idle"

\* TryAcquire and RecordOutcome together: a half-open circuit of a destination with no permit
\* left waits for the outcome of a request in flight.
HalfOpenHasProbe ==
    \A d \in Dests : circuit[d].status = "HalfOpen" => Admits(circuit[d]) \/ Probes(d) # {}

=============================================================================
