------------------------- MODULE CircuitBreakerProofs -------------------------
(***************************************************************************)
(* What the circuits promise, for any number of requests and destinations: *)
(* the failure counter counts the failures of the window, and a half-open  *)
(* period admits no more probes than it has permits.                       *)
(***************************************************************************)
EXTENDS CircuitBreaker, FiniteSetTheorems, FunctionTheorems, TLAPS

Circuits == [status : Statuses, permits : 0 .. MaxHalfOpenAttempts, samples : Seq(BOOLEAN),
             failures : Nat, elapsed : BOOLEAN, trips : 0 .. MaxTrips]

\* A circuit whose timeout has passed has a half-open period left.
Sound(c) == c \in Circuits /\ (c.elapsed => c.trips < MaxTrips)
Exact(c) == c.failures = Failures(c.samples)

\* A step that starts no half-open period and gives no permit.
Kept(c, e) == e.trips = c.trips /\ (e.status = "HalfOpen" => c.status = "HalfOpen" /\ e.permits = c.permits)

-----------------------------------------------------------------------------
(* The failures of a window *)

\* A sequence has finitely many failures.
LEMMA FailuresFinite ==
    \A s \in Seq(BOOLEAN) : IsFiniteSet({i \in DOMAIN s : s[i]}) /\ Failures(s) \in Nat
  <1> SUFFICES ASSUME NEW s \in Seq(BOOLEAN)
               PROVE  IsFiniteSet({i \in DOMAIN s : s[i]}) /\ Failures(s) \in Nat
    OBVIOUS
  <1>1. IsFiniteSet(1 .. Len(s)) /\ {i \in DOMAIN s : s[i]} \in SUBSET (1 .. Len(s))
    BY FS_Interval
  <1>2. IsFiniteSet({i \in DOMAIN s : s[i]})
    BY <1>1, FS_Subset
  <1> QED
    BY <1>2, FS_CardinalityType DEF Failures

\* The window loses its k oldest samples and gains one: the failures follow.
LEMMA WindowSlides ==
    ASSUME NEW s \in Seq(BOOLEAN), NEW x \in BOOLEAN, NEW k \in 0 .. Len(s)
    PROVE  LET t == SubSeq(Append(s, x), k + 1, Len(s) + 1)
           IN  /\ t \in Seq(BOOLEAN)
               /\ Failures(t) = Failures(s) + (IF x THEN 1 ELSE 0) - Failures(SubSeq(s, 1, k))
  <1> DEFINE n == Len(s)
             a == Append(s, x)
             t == SubSeq(a, k + 1, n + 1)
             u == SubSeq(s, 1, k)
             S == {i \in DOMAIN s : s[i]}
             A == {i \in 1 .. n + 1 : a[i]}
             T == {i \in DOMAIN t : t[i]}
             U == {i \in DOMAIN u : u[i]}
             V == {i \in k + 1 .. n + 1 : a[i]}
  <1>n. n \in Nat /\ k \in Nat /\ k <= n
    OBVIOUS
  <1>a. a \in Seq(BOOLEAN) /\ Len(a) = n + 1 /\ a[n + 1] = x /\ \A i \in 1 .. n : a[i] = s[i]
    OBVIOUS
  <1>t. /\ t \in Seq(BOOLEAN) /\ DOMAIN t = 1 .. n + 1 - k
        /\ \A i \in 1 .. n + 1 - k : t[i] = a[i + k]
    BY <1>n, <1>a
  <1>u. u \in Seq(BOOLEAN) /\ DOMAIN u = 1 .. k /\ \A i \in 1 .. k : u[i] = s[i]
    BY <1>n
  <1>f. IsFiniteSet(S) /\ IsFiniteSet(T) /\ IsFiniteSet(U)
    BY <1>t, <1>u, FailuresFinite
  <1>1. Cardinality(A) = Cardinality(S) + (IF x THEN 1 ELSE 0) /\ IsFiniteSet(A)
    <2>1. n + 1 \notin S
      BY <1>n
    <2>2. Cardinality(S) \in Nat
      <3> HIDE DEF S
      <3> QED
        BY <1>f, FS_CardinalityType
    <2>3. CASE x
      <3>1. A = S \cup {n + 1}
        BY <1>n, <1>a, <2>3
      <3>2. IsFiniteSet(S \cup {n + 1}) /\ Cardinality(S \cup {n + 1}) = Cardinality(S) + 1
        <4> HIDE DEF S
        <4> QED
          BY <2>1, <1>f, FS_AddElement
      <3> HIDE DEF A, S
      <3> QED
        BY <2>3, <3>1, <3>2
    <2>4. CASE ~x
      <3>1. A = S
        BY <1>n, <1>a, <2>4
      <3> HIDE DEF A, S
      <3> QED
        BY <2>2, <2>4, <3>1, <1>f
    <2> QED
      BY <2>3, <2>4
  <1>2. A = U \cup V /\ U \cap V = {}
    BY <1>n, <1>a, <1>u
  <1>v. IsFiniteSet(V) /\ Cardinality(A) = Cardinality(U) + Cardinality(V)
    <2>1. IsFiniteSet(V)
      <3> HIDE DEF A, U, V
      <3> QED
        BY <1>1, <1>2, FS_Subset
    <2> HIDE DEF A, U, V
    <2>2. Cardinality(U) \in Nat /\ Cardinality(V) \in Nat
      BY <2>1, <1>f, FS_CardinalityType
    <2>3. Cardinality(U \cup V) = Cardinality(U) + Cardinality(V) - Cardinality(U \cap V)
      BY <2>1, <1>f, FS_Union
    <2>4. Cardinality(U \cap V) = 0
      BY <1>2, FS_EmptySet
    <2> QED
      BY <1>2, <2>1, <2>2, <2>3, <2>4
  <1>3. Cardinality(V) = Cardinality(T)
    <2> DEFINE g == [i \in T |-> i + k]
    <2>i. \A i \in T : i \in Nat /\ i + k \in V
      <3> HIDE DEF a, t
      <3>1. \A i \in T : i \in 1 .. n + 1 - k /\ a[i + k]
        BY <1>t
      <3>2. \A i \in 1 .. n + 1 - k : i \in Nat /\ i + k \in k + 1 .. n + 1
        BY <1>n
      <3> QED
        BY <3>1, <3>2
    <2>1. g \in [T -> V]
      <3> HIDE DEF T, V
      <3> QED
        BY <2>i
    <2>2. \A i, j \in T : g[i] = g[j] => i = j
      <3> HIDE DEF T, V
      <3> QED
        BY <2>i, <1>n
    <2>3. \A j \in V : \E i \in T : g[i] = j
      <3> SUFFICES ASSUME NEW j \in V PROVE \E i \in T : g[i] = j
        OBVIOUS
      <3>1. j - k \in 1 .. n + 1 - k /\ (j - k) + k = j
        BY <1>n
      <3>2. j - k \in T
        <4> HIDE DEF a, t
        <4> QED
          BY <3>1, <1>t
      <3> QED
        BY <3>1, <3>2
    <2>4. ExistsBijection(T, V)
      <3> HIDE DEF g, T, V
      <3> QED
        BY <2>1, <2>2, <2>3, Fun_IsBij DEF ExistsBijection
    <2> HIDE DEF T, V
    <2> QED
      BY <2>4, <1>f, FS_Bijection
  <1>4. Cardinality(S) \in Nat /\ Cardinality(T) \in Nat /\ Cardinality(U) \in Nat
    <2> HIDE DEF S, T, U
    <2> QED
      BY <1>f, FS_CardinalityType
  <1>5. Failures(t) = Cardinality(T) /\ Failures(s) = Cardinality(S) /\ Failures(u) = Cardinality(U)
    BY DEF Failures
  <1>6. Failures(t) = Failures(s) + (IF x THEN 1 ELSE 0) - Failures(u)
    <2> HIDE DEF S, T, U, V, A, t, u
    <2>1. Cardinality(T) = Cardinality(S) + (IF x THEN 1 ELSE 0) - Cardinality(U)
      BY <1>1, <1>v, <1>3, <1>4
    <2> QED
      BY <2>1, <1>5
  <1> QED
    BY <1>6, <1>t

-----------------------------------------------------------------------------
(* What the operations leave of a circuit *)

\* A circuit that enters the half-open state stays sound, and its window is not touched.
LEMMA EnteringSound ==
    ASSUME NEW c, Sound(c)
    PROVE  LET e == Entering(c)
           IN  /\ Sound(e) /\ e.samples = c.samples /\ e.failures = c.failures
               /\ e = c \/ (e.status = "HalfOpen" /\ e.permits = 0 /\ e.trips = c.trips + 1 /\ c.status = "Open")
  <1> DEFINE e == HalfOpened(c)
  <1>b. MaxTrips \in Nat /\ MaxHalfOpenAttempts \in Nat \ {0}
    BY BreakerAssumption
  <1>1. CASE c.status = "Open" /\ c.elapsed
    <2>1. c \in Circuits /\ c.trips + 1 \in 0 .. MaxTrips /\ 0 \in 0 .. MaxHalfOpenAttempts
      BY <1>1, <1>b DEF Sound, Circuits
    <2>2. e = [c EXCEPT !.status = "HalfOpen", !.permits = 0, !.elapsed = FALSE, !.trips = c.trips + 1]
      BY DEF HalfOpened
    <2>3. e \in Circuits /\ e.status = "HalfOpen" /\ e.permits = 0 /\ e.trips = c.trips + 1
          /\ e.elapsed = FALSE /\ e.samples = c.samples /\ e.failures = c.failures
      BY <2>1, <2>2 DEF Circuits, Statuses
    <2> QED
      BY <1>1, <2>3 DEF Entering, Sound
  <1>2. CASE ~(c.status = "Open" /\ c.elapsed)
    BY <1>2 DEF Entering
  <1> QED
    BY <1>1, <1>2

\* TryAcquire: an admitted request takes a permit of the half-open circuit, or the circuit is
\* closed; the others leave no more than the turn to half-open.
LEMMA TryAcquireSound ==
    ASSUME NEW c, Sound(c)
    PROVE  LET t == TryAcquire(c)
               e == Entering(c)
           IN  /\ Sound(t) /\ t.samples = c.samples /\ t.failures = c.failures
               /\ t.status = e.status /\ t.trips = e.trips
               /\ t.permits = IF e.status = "HalfOpen" /\ Admits(c) THEN e.permits + 1 ELSE e.permits
  <1> DEFINE t == TryAcquire(c)
             e == Entering(c)
  <1>e. Sound(e) /\ e.samples = c.samples /\ e.failures = c.failures
    BY EnteringSound
  <1>1. CASE e.status = "HalfOpen" /\ Admits(c)
    <2>1. t = [e EXCEPT !.permits = e.permits + 1]
      BY <1>1 DEF TryAcquire
    <2>2. e \in Circuits /\ e.permits + 1 \in 0 .. MaxHalfOpenAttempts
      <3>1. e \in Circuits /\ e.permits < MaxHalfOpenAttempts
        BY <1>1, <1>e DEF Sound, Admits
      <3> HIDE DEF e
      <3>2. e.permits \in 0 .. MaxHalfOpenAttempts
        BY <3>1 DEF Circuits
      <3> QED
        BY <3>1, <3>2, BreakerAssumption
    <2> HIDE DEF e, t
    <2>3. t \in Circuits /\ t.status = e.status /\ t.trips = e.trips /\ t.elapsed = e.elapsed
          /\ t.samples = e.samples /\ t.failures = e.failures /\ t.permits = e.permits + 1
      BY <2>1, <2>2 DEF Circuits
    <2>4. Sound(t) /\ t.samples = c.samples /\ t.failures = c.failures
      BY <2>3, <1>e DEF Sound
    <2> QED
      BY <1>1, <2>3, <2>4 DEF t, e
  <1>2. CASE ~(e.status = "HalfOpen" /\ Admits(c))
    <2>1. t = e
      BY <1>2 DEF TryAcquire
    <2> QED
      BY <1>2, <2>1, <1>e
  <1> QED
    BY <1>1, <1>2

\* A circuit that is closed and emptied.
LEMMA ResetClosedSound ==
    ASSUME NEW c, Sound(c)
    PROVE  LET e == ResetClosed(c)
           IN  Sound(e) /\ Exact(e) /\ Kept(c, e)
  <1> DEFINE e == ResetClosed(c)
  <1>1. c.trips \in 0 .. MaxTrips
    BY DEF Sound, Circuits
  <1>2. FreshCircuit \in Circuits /\ FreshCircuit.status = "Closed" /\ FreshCircuit.samples = <<>>
        /\ FreshCircuit.failures = 0 /\ FreshCircuit.elapsed = FALSE
    BY BreakerAssumption DEF FreshCircuit, Circuits, Statuses
  <1>3. /\ e \in Circuits /\ e.status = "Closed" /\ e.samples = <<>> /\ e.failures = 0 /\ e.elapsed = FALSE
        /\ e.trips = c.trips
    <2>1. e = [FreshCircuit EXCEPT !.trips = c.trips]
      BY DEF ResetClosed
    <2> HIDE DEF e
    <2> QED
      BY <2>1, <1>1, <1>2 DEF Circuits
  <1>4. {i \in DOMAIN e.samples : e.samples[i]} = {}
    BY <1>3
  <1>5. Exact(e)
    BY <1>3, <1>4, FS_EmptySet DEF Exact, Failures
  <1> QED
    BY <1>3, <1>5 DEF Sound, Kept

\* RecordOutcome: the counter follows the window, and no half-open period begins.
LEMMA OutcomeSound ==
    ASSUME NEW c, Sound(c), Exact(c), NEW failed \in BOOLEAN, NEW e \in RecordOutcome(c, failed)
    PROVE  Sound(e) /\ Exact(e) /\ Kept(c, e)
  <1>c. c \in Circuits /\ c.status \in {"Closed", "Open", "HalfOpen"}
    BY DEF Sound, Circuits, Statuses
  <1>1. CASE c.status = "HalfOpen"
    <2>1. e = IF failed THEN [c EXCEPT !.status = "Open", !.elapsed = FALSE, !.permits = 0] ELSE ResetClosed(c)
      BY <1>1 DEF RecordOutcome
    <2>2. CASE failed
      <3>1. e = [c EXCEPT !.status = "Open", !.elapsed = FALSE, !.permits = 0]
        BY <2>1, <2>2
      <3>2. e \in Circuits /\ e.status = "Open" /\ e.elapsed = FALSE /\ e.trips = c.trips
            /\ e.samples = c.samples /\ e.failures = c.failures
        <4>1. "Open" \in Statuses /\ FALSE \in BOOLEAN /\ 0 \in 0 .. MaxHalfOpenAttempts
          BY BreakerAssumption DEF Statuses
        <4> QED
          BY <3>1, <4>1, <1>c DEF Circuits
      <3> QED
        BY <3>2 DEF Sound, Exact, Kept
    <2>3. CASE ~failed
      BY <2>1, <2>3, ResetClosedSound
    <2> QED
      BY <2>2, <2>3
  <1>2. CASE c.status = "Open"
    BY <1>2 DEF RecordOutcome, Kept
  <1>3. CASE c.status = "Closed"
    <2>1. PICK k \in Expiring(c) : e = Sampled(c, failed, k)
      BY <1>3 DEF RecordOutcome
    <2> DEFINE s == SubSeq(Append(c.samples, failed), k + 1, Len(c.samples) + 1)
               f == c.failures + (IF failed THEN 1 ELSE 0) - Failures(SubSeq(c.samples, 1, k))
               st == IF Trips(s, f) THEN "Open" ELSE "Closed"
    <2>2. c.samples \in Seq(BOOLEAN) /\ k \in 0 .. Len(c.samples) /\ c.failures = Failures(c.samples)
      BY <1>c DEF Expiring, Circuits, Exact
    <2>3. s \in Seq(BOOLEAN) /\ f = Failures(s) /\ f \in Nat
      <3>1. s \in Seq(BOOLEAN)
            /\ Failures(s) = Failures(c.samples) + (IF failed THEN 1 ELSE 0) - Failures(SubSeq(c.samples, 1, k))
        BY <2>2, WindowSlides
      <3> HIDE DEF s
      <3>2. f = Failures(s)
        BY <2>2, <3>1
      <3> HIDE DEF f
      <3> QED
        BY <3>1, <3>2, FailuresFinite
    <2>4. e = [c EXCEPT !.samples = s, !.failures = f, !.status = st]
      BY <2>1 DEF Sampled
    <2>5. st \in Statuses /\ st # "HalfOpen"
      BY DEF Statuses
    <2> HIDE DEF s, f, st
    <2>6. e \in Circuits /\ e.status = st /\ e.elapsed = c.elapsed /\ e.trips = c.trips
          /\ e.samples = s /\ e.failures = f
      BY <2>3, <2>4, <2>5, <1>c DEF Circuits
    <2> QED
      BY <2>3, <2>5, <2>6 DEF Sound, Exact, Kept
  <1> QED
    BY <1>c, <1>1, <1>2, <1>3

\* UpdateCircuitState, for the circuit of the cluster.
LEMMA UpdateSound ==
    ASSUME NEW c, Sound(c), NEW failed \in BOOLEAN
    PROVE  LET e == UpdateCircuitState(c, failed) IN Sound(e) /\ Kept(c, e)
  <1> DEFINE f == IF c.failures < FailureThreshold THEN c.failures + 1 ELSE c.failures
             e == UpdateCircuitState(c, failed)
             st == IF c.status = "HalfOpen" THEN "Closed" ELSE c.status
  <1>c. c \in Circuits /\ f \in Nat /\ c.status \in Statuses /\ st \in Statuses
    BY DEF Sound, Circuits, Statuses
  <1>1. CASE ~failed
    <2>1. e = [c EXCEPT !.failures = 0, !.status = st]
      BY <1>1 DEF UpdateCircuitState
    <2>2. e \in Circuits /\ e.status = st /\ e.elapsed = c.elapsed /\ e.trips = c.trips /\ e.permits = c.permits
      <3> HIDE DEF e, st, f
      <3> QED
        BY <2>1, <1>c DEF Circuits
    <2> QED
      BY <2>2 DEF Sound, Kept
  <1>2. CASE failed /\ (c.status = "HalfOpen" \/ f >= FailureThreshold)
    <2>1. e = [c EXCEPT !.failures = f, !.status = "Open", !.elapsed = FALSE]
      BY <1>2 DEF UpdateCircuitState
    <2>2. e \in Circuits /\ e.status = "Open" /\ e.elapsed = FALSE /\ e.trips = c.trips /\ e.permits = c.permits
      <3> HIDE DEF e, f
      <3> QED
        BY <2>1, <1>c DEF Circuits, Statuses
    <2> QED
      BY <2>2 DEF Sound, Kept
  <1>3. CASE failed /\ ~(c.status = "HalfOpen" \/ f >= FailureThreshold)
    <2>1. e = [c EXCEPT !.failures = f]
      BY <1>3 DEF UpdateCircuitState
    <2>2. e \in Circuits /\ e.status = c.status /\ e.elapsed = c.elapsed /\ e.trips = c.trips /\ e.permits = c.permits
      <3> HIDE DEF e, f
      <3> QED
        BY <2>1, <1>c DEF Circuits
    <2> QED
      BY <2>2 DEF Sound, Kept
  <1> QED
    BY <1>1, <1>2, <1>3

-----------------------------------------------------------------------------
(* Types and counters *)

Pcs == {"idle", "candidates", "retryCandidates", "forward", "retryRecord", "record", "done"}
Reqs == [pc : Pcs, attempt : 0 .. MaxRetries, attempted : SUBSET Dests, todo : SUBSET Dests,
         avail : SUBSET Dests, dest : Dests \cup {Null}, code : Codes, thrown : BOOLEAN,
         probe : [Keys -> 0 .. MaxTrips]]

CircuitInv ==
    /\ circuit \in [Keys -> Circuits]
    /\ \A k \in Keys : Sound(circuit[k])
    /\ \A d \in Dests : Exact(circuit[d])

ReqInv == req \in [Requests -> Reqs]

ResetInv == reset \in [todo : SUBSET Keys, cur : Keys \cup {Null}] /\ resets \in 0 .. MaxResets

TypeInv == CircuitInv /\ ReqInv /\ ResetInv

\* No request begins to count as a probe.
NoNewProbe == \A r \in Requests, k \in Keys : req'[r].probe[k] \in {0, req[r].probe[k]}
AllKept == \A k \in Keys : Kept(circuit[k], circuit'[k])

\* A step that changes one circuit soundly.
LEMMA CircuitStep ==
    ASSUME CircuitInv, NEW k \in Keys, NEW e, Sound(e), k \in Dests => Exact(e),
           circuit' = [circuit EXCEPT ![k] = e]
    PROVE  CircuitInv' /\ (Kept(circuit[k], e) => AllKept)
  <1>1. circuit' \in [Keys -> Circuits] /\ circuit'[k] = e /\ \A j \in Keys \ {k} : circuit'[j] = circuit[j]
    BY DEF CircuitInv, Sound
  <1>2. Dests \subseteq Keys /\ \A j \in Keys : Kept(circuit[j], circuit[j])
    BY DEF Keys, Kept
  <1> QED
    BY <1>1, <1>2 DEF CircuitInv, AllKept

\* A step that changes one request.
LEMMA ReqStep ==
    ASSUME ReqInv, NEW r \in Requests, NEW q \in Reqs, req' = [req EXCEPT ![r] = q]
    PROVE  /\ ReqInv'
           /\ (q.probe = req[r].probe \/ q.probe = NoProbe) => NoNewProbe
           /\ req'[r] = q /\ \A s \in Requests \ {r} : req'[s] = req[s]
  <1>1. ReqInv' /\ req'[r] = q /\ \A s \in Requests \ {r} : req'[s] = req[s]
    BY DEF ReqInv
  <1>2. \A k \in Keys : NoProbe[k] = 0
    BY DEF NoProbe
  <1> QED
    BY <1>1, <1>2 DEF NoNewProbe

\* A request that has not arrived.
LEMMA IdleType == Idle \in Reqs /\ Idle.probe = NoProbe
  BY BreakerAssumption DEF Idle, Reqs, Pcs, Codes, NoProbe

-----------------------------------------------------------------------------
(* The steps that start no half-open period and give no permit *)

Quiet == CircuitInv' /\ ReqInv' /\ ResetInv' /\ AllKept /\ NoNewProbe

\* A recorded outcome.
LEMMA RecordedQuiet ==
    ASSUME CircuitInv, NEW d \in Dests, NEW failed \in BOOLEAN, Recorded(d, failed)
    PROVE  CircuitInv' /\ AllKept
  <1>1. PICK e \in RecordOutcome(circuit[d], failed) : circuit' = [circuit EXCEPT ![d] = e]
    BY DEF Recorded
  <1>2. d \in Keys /\ Sound(circuit[d]) /\ Exact(circuit[d])
    BY DEF Keys, CircuitInv
  <1>3. Sound(e) /\ Exact(e) /\ Kept(circuit[d], e)
    BY <1>2, OutcomeSound
  <1> QED
    BY <1>1, <1>2, <1>3, CircuitStep

\* Nothing but requests changes.
LEMMA SameCircuits ==
    ASSUME CircuitInv, UNCHANGED circuit
    PROVE  CircuitInv' /\ AllKept
  BY DEF CircuitInv, Sound, Exact, AllKept, Kept

LEMMA SameReset ==
    ASSUME ResetInv, UNCHANGED <<reset, resets>>
    PROVE  ResetInv'
  BY DEF ResetInv

\* The steps of a request but the ones that acquire.
LEMMA RequestQuiet ==
    ASSUME TypeInv, NEW r \in Requests,
           \/ AbortCandidates(r) \/ Arrive(r) \/ Record(r) \/ Respond(r) \/ RetryChecked(r)
           \/ \E d \in Dests \cup {Null}, code \in Codes, throws \in BOOLEAN : Forward(r, d, code, throws)
           \/ \E left \in {"no", "attempt", "backoff"} : RetryRecord(r, left)
    PROVE  Quiet
  <1> DEFINE q == req[r]
  <1>q. q \in Reqs
    BY DEF TypeInv, ReqInv
  <1>b. q.code \in Codes /\ (q.code \in Failed) \in BOOLEAN /\ Null \notin Keys
    BY <1>q, BreakerAssumption DEF Reqs, Keys
  <1>1. CASE AbortCandidates(r)
    <2> DEFINE n == [q EXCEPT !.pc = IF q.pc = "candidates" THEN "done" ELSE "record", !.thrown = TRUE]
    <2>1. n \in Reqs /\ n.probe = q.probe
      BY <1>q DEF Reqs, Pcs
    <2>2. req' = [req EXCEPT ![r] = n]
      BY <1>1 DEF AbortCandidates, TypeInv, ReqInv
    <2>3. ReqInv' /\ NoNewProbe
      <3> HIDE DEF n
      <3> QED
        BY <2>1, <2>2, ReqStep DEF TypeInv
    <2> QED
      BY <1>1, <2>3, SameCircuits, SameReset DEF AbortCandidates, Quiet, TypeInv
  <1>2. CASE Arrive(r)
    <2> DEFINE n == StartCandidates(Idle, "candidates", Dests)
    <2>1. n \in Reqs /\ n.probe = NoProbe
      BY IdleType DEF StartCandidates, Reqs, Pcs
    <2>2. req' = [req EXCEPT ![r] = n]
      BY <1>2 DEF Arrive
    <2>3. ReqInv' /\ NoNewProbe
      <3> HIDE DEF n
      <3> QED
        BY <2>1, <2>2, ReqStep DEF TypeInv
    <2> QED
      BY <1>2, <2>3, SameCircuits, SameReset DEF Arrive, Quiet, TypeInv
  <1>3. CASE Record(r)
    <2> DEFINE n == [Idle EXCEPT !.pc = "done"]
    <2>1. n \in Reqs /\ n.probe = NoProbe
      BY IdleType DEF Reqs, Pcs
    <2>2. req' = [req EXCEPT ![r] = n]
      BY <1>3 DEF Record, TypeInv, ReqInv
    <2>3. ReqInv' /\ NoNewProbe
      <3> HIDE DEF n
      <3> QED
        BY <2>1, <2>2, ReqStep DEF TypeInv
    <2>4. CASE q.dest # Null
      <3>1. q.dest \in Dests /\ Recorded(q.dest, q.code \in Failed)
        BY <1>3, <1>q, <2>4 DEF Record, Reqs
      <3> QED
        BY <1>3, <1>b, <2>3, <3>1, RecordedQuiet, SameReset DEF Record, Quiet, TypeInv
    <2>5. CASE q.dest = Null
      <3> DEFINE e == UpdateCircuitState(circuit[AnyKey], q.code \in Failed)
      <3>1. circuit' = [circuit EXCEPT ![AnyKey] = e]
        BY <1>3, <2>5 DEF Record
      <3>2. AnyKey \in Keys /\ AnyKey \notin Dests /\ Sound(circuit[AnyKey])
        BY BreakerAssumption DEF Keys, TypeInv, CircuitInv
      <3>3. Sound(e) /\ Kept(circuit[AnyKey], e)
        BY <1>b, <3>2, UpdateSound
      <3>4. CircuitInv' /\ AllKept
        <4> HIDE DEF e
        <4> QED
          BY <3>1, <3>2, <3>3, CircuitStep DEF TypeInv
      <3> QED
        BY <1>3, <2>3, <3>4, SameReset DEF Record, Quiet, TypeInv
    <2> QED
      BY <2>4, <2>5
  <1>4. CASE Respond(r)
    <2>1. ReqInv' /\ NoNewProbe
      BY <1>4, IdleType, ReqStep DEF Respond, TypeInv
    <2> QED
      BY <1>4, <2>1, SameCircuits, SameReset DEF Respond, Quiet, TypeInv
  <1>5. CASE RetryChecked(r)
    <2> DEFINE n == [q EXCEPT !.pc = IF q.avail = {} THEN "record" ELSE "forward", !.dest = Null]
    <2>1. n \in Reqs /\ n.probe = q.probe
      BY <1>q DEF Reqs, Pcs
    <2>2. req' = [req EXCEPT ![r] = n]
      BY <1>5 DEF RetryChecked, TypeInv, ReqInv
    <2>3. ReqInv' /\ NoNewProbe
      <3> HIDE DEF n
      <3> QED
        BY <2>1, <2>2, ReqStep DEF TypeInv
    <2> QED
      BY <1>5, <2>3, SameCircuits, SameReset DEF RetryChecked, Quiet, TypeInv
  <1>6. ASSUME NEW d \in Dests \cup {Null}, NEW code \in Codes, NEW throws \in BOOLEAN, Forward(r, d, code, throws)
        PROVE  Quiet
    <2> DEFINE n == [q EXCEPT !.pc = IF r \in Retrying THEN "retryRecord" ELSE "record",
                              !.dest = d, !.code = code, !.thrown = throws]
    <2>1. n \in Reqs /\ n.probe = q.probe
      BY <1>q DEF Reqs, Pcs
    <2>2. req' = [req EXCEPT ![r] = n]
      BY <1>6 DEF Forward, TypeInv, ReqInv
    <2>3. ReqInv' /\ NoNewProbe
      <3> HIDE DEF n
      <3> QED
        BY <2>1, <2>2, ReqStep DEF TypeInv
    <2> QED
      BY <1>6, <2>3, SameCircuits, SameReset DEF Forward, Quiet, TypeInv
  <1>7. ASSUME NEW left \in {"no", "attempt", "backoff"}, RetryRecord(r, left)
        PROVE  Quiet
    <2> DEFINE failed == q.thrown \/ q.code \in Retried
               tried == IF q.dest = Null THEN q.attempted ELSE q.attempted \cup {q.dest}
               next == [q EXCEPT !.attempt = NextAttempt(q), !.attempted = tried, !.code = "ok", !.thrown = FALSE]
    <2>1. failed \in BOOLEAN /\ tried \in SUBSET Dests
      BY <1>q DEF Reqs
    <2>2. CircuitInv' /\ AllKept
      <3>1. CASE UNCHANGED circuit
        BY <3>1, SameCircuits DEF TypeInv
      <3>2. CASE q.dest # Null /\ Recorded(q.dest, failed)
        <4>1. q.dest \in Dests
          BY <1>q, <3>2 DEF Reqs
        <4> QED
          BY <2>1, <3>2, <4>1, RecordedQuiet DEF TypeInv
      <3> QED
        BY <1>7, <3>1, <3>2 DEF RetryRecord
    <2>3. \E n \in Reqs : n.probe = q.probe /\ req' = [req EXCEPT ![r] = n]
      <3>1. CASE req' = [req EXCEPT ![r] = [q EXCEPT !.pc = "record"]]
        BY <1>q, <3>1 DEF Reqs, Pcs
      <3>2. CASE req' = [req EXCEPT ![r] = [q EXCEPT !.pc = "record", !.attempted = tried]]
        <4> HIDE DEF tried
        <4> QED
          BY <1>q, <2>1, <3>2 DEF Reqs, Pcs
      <3>3. CASE /\ q.attempt # MaxRetries
                 /\ \/ req' = [req EXCEPT ![r] = [next EXCEPT !.pc = "record"]]
                    \/ req' = [req EXCEPT ![r] = StartCandidates(next, "retryCandidates",
                                              IF UseDifferentDestination THEN Dests \ tried ELSE Dests)]
        <4>1. NextAttempt(q) \in 0 .. MaxRetries
          BY <1>q, <3>3, BreakerAssumption DEF Reqs, NextAttempt
        <4>2. next \in Reqs /\ next.probe = q.probe
          <5> HIDE DEF tried
          <5> QED
            BY <1>q, <2>1, <4>1 DEF Reqs, Codes
        <4> HIDE DEF next
        <4>3. CASE req' = [req EXCEPT ![r] = [next EXCEPT !.pc = "record"]]
          BY <4>2, <4>3 DEF Reqs, Pcs
        <4>4. CASE req' = [req EXCEPT ![r] = StartCandidates(next, "retryCandidates",
                                              IF UseDifferentDestination THEN Dests \ tried ELSE Dests)]
          <5> DEFINE ds == IF UseDifferentDestination THEN Dests \ tried ELSE Dests
                     n == [next EXCEPT !.pc = "retryCandidates", !.todo = ds, !.avail = {}]
          <5>1. ds \in SUBSET Dests
            OBVIOUS
          <5>2. req' = [req EXCEPT ![r] = n]
            BY <4>4 DEF StartCandidates
          <5>3. n \in Reqs /\ n.probe = q.probe
            <6> HIDE DEF ds
            <6> QED
              BY <4>2, <5>1 DEF Reqs, Pcs
          <5> HIDE DEF n
          <5> QED
            BY <5>2, <5>3
        <4> QED
          BY <3>3, <4>3, <4>4
      <3> QED
        BY <1>7, <3>1, <3>2, <3>3 DEF RetryRecord
    <2>4. ReqInv' /\ NoNewProbe
      BY <2>3, ReqStep DEF TypeInv
    <2> QED
      BY <1>7, <2>2, <2>4, SameReset DEF RetryRecord, Quiet, TypeInv
  <1> QED
    BY <1>1, <1>2, <1>3, <1>4, <1>5, <1>6, <1>7

-----------------------------------------------------------------------------
(* The bound on the probes of a half-open period *)

\* A period is numbered from 1, a request's probe is of a period that has begun, and until the
\* first reset the permits of a destination cover its probes.
ProbeInv ==
    /\ \A k \in Keys : circuit[k].status = "HalfOpen" => circuit[k].trips > 0
    /\ \A r \in Requests, k \in Keys : req[r].probe[k] <= circuit[k].trips
    /\ resets = 0 => reset = [todo |-> {}, cur |-> Null]
    /\ resets = 0 => \A d \in Dests : circuit[d].status = "HalfOpen" =>
                         IsFiniteSet(Probes(d)) /\ Cardinality(Probes(d)) <= circuit[d].permits

\* A quiet step keeps the probes within their permits.
LEMMA QuietProbes ==
    ASSUME TypeInv, ProbeInv, Quiet, UNCHANGED <<reset, resets>>
    PROVE  ProbeInv'
  <1>t. /\ \A k \in Keys : circuit[k].trips \in Nat /\ circuit'[k].trips \in Nat
        /\ \A r \in Requests, k \in Keys : req[r].probe[k] \in Nat /\ req'[r].probe[k] \in Nat
    <2>1. \A x \in Circuits : x.trips \in Nat
      BY BreakerAssumption DEF Circuits
    <2>2. \A x \in Reqs, k \in Keys : x.probe[k] \in Nat
      BY BreakerAssumption DEF Reqs
    <2>3. circuit \in [Keys -> Circuits] /\ circuit' \in [Keys -> Circuits]
      BY DEF TypeInv, CircuitInv, Quiet
    <2>4. req \in [Requests -> Reqs] /\ req' \in [Requests -> Reqs]
      BY DEF TypeInv, ReqInv, Quiet
    <2> HIDE DEF Circuits, Reqs
    <2> QED
      BY <2>1, <2>2, <2>3, <2>4
  <1>1. \A k \in Keys : circuit'[k].trips = circuit[k].trips
    BY DEF Quiet, AllKept, Kept
  <1>2. \A k \in Keys : circuit'[k].status = "HalfOpen" => circuit[k].status = "HalfOpen"
                                                          /\ circuit'[k].permits = circuit[k].permits
    BY DEF Quiet, AllKept, Kept
  <1>3. \A k \in Keys : circuit'[k].status = "HalfOpen" => circuit'[k].trips > 0
    BY <1>1, <1>2 DEF ProbeInv
  <1>4. \A r \in Requests, k \in Keys : req'[r].probe[k] <= circuit'[k].trips
    BY <1>t, <1>1 DEF ProbeInv, Quiet, NoNewProbe
  <1>5. ASSUME resets' = 0, NEW d \in Dests, circuit'[d].status = "HalfOpen"
        PROVE  IsFiniteSet(Probes(d)') /\ Cardinality(Probes(d)') <= circuit'[d].permits
    <2>1. d \in Keys
      BY DEF Keys
    <2>2. Probes(d)' \in SUBSET Probes(d)
      BY <1>5, <1>1, <1>2, <1>3, <1>t, <2>1 DEF Probes, Quiet, NoNewProbe
    <2>3. IsFiniteSet(Probes(d)) /\ Cardinality(Probes(d)) <= circuit[d].permits /\ circuit'[d].permits = circuit[d].permits
      BY <1>5, <1>2, <2>1 DEF ProbeInv
    <2>4. IsFiniteSet(Probes(d)') /\ Cardinality(Probes(d)') <= Cardinality(Probes(d))
      BY <2>2, <2>3, FS_Subset
    <2>5. Cardinality(Probes(d)') \in Nat /\ Cardinality(Probes(d)) \in Nat /\ circuit[d].permits \in Nat
      BY <2>1, <2>3, <2>4, FS_CardinalityType, BreakerAssumption DEF TypeInv, CircuitInv, Circuits
    <2> QED
      BY <2>3, <2>4, <2>5
  <1>6. resets' = 0 => reset' = [todo |-> {}, cur |-> Null]
    BY DEF ProbeInv
  <1> QED
    BY <1>3, <1>4, <1>5, <1>6 DEF ProbeInv

\* A request passes the circuit k: the new circuit is the old one but for a half-open period
\* that begins or a permit taken, and the request counts as a probe of the period it enters.
Passes(r, k) ==
    LET c == circuit[k]
        e == Entering(c)
        t == circuit'[k]
        new == IF e.status = "HalfOpen" THEN e.trips ELSE req[r].probe[k]
    IN  /\ \A j \in Keys \ {k} : circuit'[j] = circuit[j]
        /\ t.status = e.status /\ t.trips = e.trips
        /\ k \in Dests => t.permits = IF e.status = "HalfOpen" /\ Admits(c) THEN e.permits + 1 ELSE e.permits
        /\ \A s \in Requests, j \in Keys :
              (s # r \/ j # k) => req'[s].probe[j] \in {0, req[s].probe[j]}
        /\ req'[r].probe[k] \in {0, req[r].probe[k]} \/ (Admits(c) /\ req'[r].probe[k] = new)

\* Passing a circuit keeps the probes within their permits.
LEMMA PassesProbes ==
    ASSUME TypeInv, ProbeInv, CircuitInv', ReqInv', UNCHANGED <<reset, resets>>,
           NEW r \in Requests, NEW k \in Keys, Passes(r, k)
    PROVE  ProbeInv'
  <1> DEFINE c == circuit[k]
             e == Entering(c)
  <1>c. Sound(c) /\ c \in Circuits
    BY DEF TypeInv, CircuitInv
  <1>e. /\ Sound(e) /\ e \in Circuits
        /\ e = c \/ (e.status = "HalfOpen" /\ e.permits = 0 /\ e.trips = c.trips + 1 /\ c.status = "Open")
    <2>1. Sound(e) /\ (e = c \/ (e.status = "HalfOpen" /\ e.permits = 0 /\ e.trips = c.trips + 1 /\ c.status = "Open"))
      BY <1>c, EnteringSound
    <2> QED
      BY <2>1 DEF Sound
  <1>t. /\ \A j \in Keys : circuit[j].trips \in Nat /\ circuit'[j].trips \in Nat /\ circuit[j].permits \in Nat
        /\ \A s \in Requests, j \in Keys : req[s].probe[j] \in Nat /\ req'[s].probe[j] \in Nat
        /\ c.trips \in Nat /\ e.trips \in Nat /\ e.permits \in Nat
    <2>1. \A x \in Circuits : x.trips \in Nat /\ x.permits \in Nat
      BY BreakerAssumption DEF Circuits
    <2>2. \A x \in Reqs, j \in Keys : x.probe[j] \in Nat
      BY BreakerAssumption DEF Reqs
    <2> HIDE DEF e, c
    <2> QED
      BY <1>c, <1>e, <2>1, <2>2 DEF TypeInv, CircuitInv, ReqInv
  <1>p. /\ \A j \in Keys \ {k} : circuit'[j] = circuit[j]
        /\ circuit'[k].status = e.status /\ circuit'[k].trips = e.trips
        /\ k \in Dests => circuit'[k].permits = IF e.status = "HalfOpen" /\ Admits(c) THEN e.permits + 1 ELSE e.permits
        /\ \A s \in Requests, j \in Keys : (s # r \/ j # k) => req'[s].probe[j] \in {0, req[s].probe[j]}
        /\ \/ req'[r].probe[k] \in {0, req[r].probe[k]}
           \/ Admits(c) /\ e.status = "HalfOpen" /\ req'[r].probe[k] = e.trips
    BY DEF Passes
  <1> HIDE DEF e, c
  <1>g. c.trips <= e.trips /\ (e.status = "HalfOpen" => e.trips > 0)
    BY <1>e, <1>t DEF ProbeInv, c
  <1>1. \A j \in Keys : circuit'[j].status = "HalfOpen" => circuit'[j].trips > 0
    BY <1>p, <1>g DEF ProbeInv
  <1>2. \A s \in Requests, j \in Keys : req'[s].probe[j] <= circuit'[j].trips
    <2> SUFFICES ASSUME NEW s \in Requests, NEW j \in Keys PROVE req'[s].probe[j] <= circuit'[j].trips
      OBVIOUS
    <2>1. req[s].probe[j] <= circuit[j].trips /\ circuit[j].trips <= circuit'[j].trips
      BY <1>p, <1>g, <1>t DEF ProbeInv, c
    <2> QED
      BY <1>p, <1>t, <2>1
  <1>3. resets' = 0 => reset' = [todo |-> {}, cur |-> Null]
    BY DEF ProbeInv
  <1>4. ASSUME resets' = 0, NEW d \in Dests, circuit'[d].status = "HalfOpen"
        PROVE  IsFiniteSet(Probes(d)') /\ Cardinality(Probes(d)') <= circuit'[d].permits
    <2>d. d \in Keys
      BY DEF Keys
    <2>1. CASE d # k
      <3>1. circuit'[d] = circuit[d] /\ circuit'[d].trips > 0
        BY <1>1, <1>4, <1>p, <2>1, <2>d
      <3>2. Probes(d)' \in SUBSET Probes(d)
        BY <1>p, <1>t, <2>1, <2>d, <3>1 DEF Probes
      <3>3. IsFiniteSet(Probes(d)) /\ Cardinality(Probes(d)) <= circuit[d].permits
        BY <1>4, <3>1 DEF ProbeInv
      <3>4. IsFiniteSet(Probes(d)') /\ Cardinality(Probes(d)') <= Cardinality(Probes(d))
        BY <3>2, <3>3, FS_Subset
      <3>5. Cardinality(Probes(d)') \in Nat /\ Cardinality(Probes(d)) \in Nat /\ circuit[d].permits \in Nat
        BY <2>d, <3>3, <3>4, <1>t, FS_CardinalityType
      <3> QED
        BY <3>1, <3>3, <3>4, <3>5
    <2>2. CASE d = k /\ e # c
      <3>1. e.status = "HalfOpen" /\ e.permits = 0 /\ e.trips = c.trips + 1 /\ circuit'[k].trips = c.trips + 1
        BY <1>e, <1>p, <2>2
      <3>2. Admits(c)
        BY <1>t, <3>1, BreakerAssumption DEF Admits, e
      <3>3. circuit'[k].permits = 1
        BY <1>p, <2>2, <3>1, <3>2
      <3>4. \A s \in Requests \ {r} : req'[s].probe[k] # circuit'[k].trips
        <4> SUFFICES ASSUME NEW s \in Requests \ {r} PROVE req'[s].probe[k] # circuit'[k].trips
          OBVIOUS
        <4>1. req[s].probe[k] <= c.trips /\ req'[s].probe[k] \in {0, req[s].probe[k]}
          BY <1>p DEF ProbeInv, c
        <4> QED
          BY <3>1, <4>1, <1>t
      <3>5. Probes(d)' \in SUBSET {r}
        BY <2>2, <3>4 DEF Probes
      <3>6. IsFiniteSet(Probes(d)') /\ Cardinality(Probes(d)') <= 1
        <4>1. IsFiniteSet({r}) /\ Cardinality({r}) = 1
          BY FS_Singleton
        <4>2. IsFiniteSet(Probes(d)') /\ Cardinality(Probes(d)') <= Cardinality({r})
          BY <3>5, <4>1, FS_Subset
        <4> QED
          BY <4>1, <4>2
      <3> QED
        BY <2>2, <3>3, <3>6
    <2>3. CASE d = k /\ e = c
      <3>1. c.status = "HalfOpen" /\ circuit'[k].trips = c.trips /\ c.trips > 0
        BY <1>4, <1>p, <1>g, <2>3
      <3>2. IsFiniteSet(Probes(d)) /\ Cardinality(Probes(d)) <= c.permits
        BY <1>4, <2>3, <3>1 DEF ProbeInv, c
      <3>3. Cardinality(Probes(d)) \in Nat /\ c.permits \in Nat
        BY <2>3, <3>2, <1>t, FS_CardinalityType
      <3>4. CASE Admits(c)
        <4>1. circuit'[k].permits = c.permits + 1
          BY <1>p, <2>3, <3>1, <3>4
        <4>2. Probes(d)' \in SUBSET (Probes(d) \cup {r})
          BY <1>p, <1>t, <2>3, <3>1 DEF Probes, c
        <4>3. /\ IsFiniteSet(Probes(d) \cup {r}) /\ Cardinality(Probes(d) \cup {r}) \in Nat
              /\ Cardinality(Probes(d) \cup {r}) <= Cardinality(Probes(d)) + 1
          <5>1. /\ IsFiniteSet(Probes(d) \cup {r})
                /\ Cardinality(Probes(d) \cup {r}) = IF r \in Probes(d) THEN Cardinality(Probes(d))
                                                     ELSE Cardinality(Probes(d)) + 1
            BY <3>2, FS_AddElement
          <5> QED
            BY <3>3, <5>1
        <4>4. IsFiniteSet(Probes(d)') /\ Cardinality(Probes(d)') <= Cardinality(Probes(d) \cup {r})
          BY <4>2, <4>3, FS_Subset
        <4>5. Cardinality(Probes(d)') \in Nat
          BY <4>4, FS_CardinalityType
        <4> QED
          BY <2>3, <3>2, <3>3, <4>1, <4>3, <4>4, <4>5
      <3>5. CASE ~Admits(c)
        <4>1. circuit'[k].permits = c.permits
          BY <1>p, <2>3, <3>5
        <4>2. Probes(d)' \in SUBSET Probes(d)
          BY <1>p, <1>t, <2>3, <3>1, <3>5 DEF Probes, c
        <4>3. IsFiniteSet(Probes(d)') /\ Cardinality(Probes(d)') <= Cardinality(Probes(d))
          BY <3>2, <4>2, FS_Subset
        <4>4. Cardinality(Probes(d)') \in Nat
          BY <4>3, FS_CardinalityType
        <4> QED
          BY <2>3, <3>2, <3>3, <4>1, <4>3, <4>4
      <3> QED
        BY <3>4, <3>5
    <2> QED
      BY <2>1, <2>2, <2>3
  <1> QED
    BY <1>1, <1>2, <1>3, <1>4 DEF ProbeInv

-----------------------------------------------------------------------------
(* The invariant of the circuits and the requests *)

Inv == TypeInv /\ ProbeInv

\* The candidate loop takes a permit of one destination.
LEMMA ApplyCandidateInv ==
    ASSUME Inv, NEW r \in Requests, NEW d \in Dests, ApplyCandidate(r, d)
    PROVE  Inv'
  <1> DEFINE c == circuit[d]
             e == Entering(c)
             t == TryAcquire(c)
             q == [req[r] EXCEPT !.todo = @ \ {d}]
             q2 == [q EXCEPT !.avail = @ \cup {d}]
             n == IF Admits(c) THEN Probing(q2, d) ELSE q
  <1>d. d \in Keys /\ Sound(c) /\ Exact(c) /\ req[r] \in Reqs
    BY DEF Keys, Inv, TypeInv, CircuitInv, ReqInv
  <1>e. Sound(e)
    BY <1>d, EnteringSound
  <1>t. /\ Sound(t) /\ t.samples = c.samples /\ t.failures = c.failures
        /\ t.status = e.status /\ t.trips = e.trips
        /\ t.permits = IF e.status = "HalfOpen" /\ Admits(c) THEN e.permits + 1 ELSE e.permits
    BY <1>d, TryAcquireSound
  <1>q. q \in Reqs /\ q.probe = req[r].probe
    BY <1>d DEF Reqs
  <1>q2. q2 \in Reqs /\ q2.probe = req[r].probe
    <2> HIDE DEF q
    <2> QED
      BY <1>q DEF Reqs
  <1>1. circuit' = [circuit EXCEPT ![d] = t] /\ req' = [req EXCEPT ![r] = n] /\ UNCHANGED <<reset, resets>>
    BY DEF ApplyCandidate
  <1>2. CircuitInv' /\ circuit'[d] = t /\ \A j \in Keys \ {d} : circuit'[j] = circuit[j]
    <2>1. Exact(t)
      BY <1>d, <1>t DEF Exact
    <2>2. CircuitInv /\ circuit \in [Keys -> Circuits]
      BY DEF Inv, TypeInv, CircuitInv
    <2> HIDE DEF t
    <2> QED
      BY <1>1, <1>d, <1>t, <2>1, <2>2, CircuitStep
  <1>3. /\ n \in Reqs
        /\ \A j \in Keys \ {d} : n.probe[j] = req[r].probe[j]
        /\ n.probe[d] = req[r].probe[d] \/ (Admits(c) /\ e.status = "HalfOpen" /\ n.probe[d] = e.trips)
    <2>1. CASE ~Admits(c)
      BY <1>q, <2>1
    <2>2. CASE Admits(c)
      <3> DEFINE v == IF e.status = "HalfOpen" THEN e.trips ELSE q2.probe[d]
      <3>1. n = [q2 EXCEPT !.probe = [q2.probe EXCEPT ![d] = v]]
        BY <2>2 DEF Probing
      <3>2. v \in 0 .. MaxTrips /\ q2.probe \in [Keys -> 0 .. MaxTrips]
        <4> HIDE DEF q2, e
        <4> QED
          BY <1>e, <1>q2, <1>d DEF Sound, Circuits, Reqs
      <3>3. [q2.probe EXCEPT ![d] = v] \in [Keys -> 0 .. MaxTrips]
        <4> HIDE DEF v, q2
        <4> QED
          BY <3>2
      <3> HIDE DEF n, q2, e
      <3>4. n \in Reqs /\ n.probe = [q2.probe EXCEPT ![d] = v]
        BY <1>q2, <3>1, <3>3 DEF Reqs
      <3> QED
        BY <1>d, <1>q2, <2>2, <3>2, <3>4
    <2> QED
      BY <2>1, <2>2
  <1>4. ReqInv' /\ req'[r] = n /\ \A s \in Requests \ {r} : req'[s] = req[s]
    <2> HIDE DEF n
    <2> QED
      BY <1>1, <1>3, ReqStep DEF Inv, TypeInv
  <1>5. Passes(r, d)
    <2> HIDE DEF n, t, e, c
    <2>1. req'[r].probe[d] \in {0, req[r].probe[d]}
          \/ (Admits(c) /\ req'[r].probe[d] = IF e.status = "HalfOpen" THEN e.trips ELSE req[r].probe[d])
      BY <1>3, <1>4
    <2>2. \A s \in Requests, j \in Keys : (s # r \/ j # d) => req'[s].probe[j] \in {0, req[s].probe[j]}
      BY <1>3, <1>4
    <2> QED
      BY <1>2, <1>t, <2>1, <2>2 DEF Passes, e, c
  <1>6. ResetInv'
    BY <1>1, SameReset DEF Inv, TypeInv
  <1>7. ProbeInv'
    <2>1. UNCHANGED <<reset, resets>>
      BY <1>1
    <2> HIDE DEF n, t, e, c
    <2> QED
      BY <1>d, <1>2, <1>4, <1>5, <2>1, PassesProbes DEF Inv
  <1> QED
    BY <1>2, <1>4, <1>6, <1>7 DEF Inv, TypeInv

\* The circuit of the cluster is checked.
LEMMA CheckInv ==
    ASSUME Inv, NEW r \in Requests, Check(r)
    PROVE  Inv'
  <1> DEFINE c == circuit[AnyKey]
             e == Entering(c)
             t == AnyChecked(c)
  <1>k. AnyKey \in Keys /\ AnyKey \notin Dests /\ Sound(c) /\ req[r] \in Reqs
    BY BreakerAssumption DEF Keys, Inv, TypeInv, CircuitInv, ReqInv
  <1>r. ResetInv' /\ UNCHANGED <<reset, resets>>
    BY SameReset DEF Check, Inv, TypeInv
  <1>1. CASE req[r].avail = {}
    <2> DEFINE n == [req[r] EXCEPT !.pc = "done", !.code = "fail"]
    <2>1. n \in Reqs /\ n.probe = req[r].probe
      BY <1>k DEF Reqs, Pcs, Codes
    <2>2. req' = [req EXCEPT ![r] = n] /\ UNCHANGED circuit
      BY <1>1 DEF Check, Inv, TypeInv, ReqInv
    <2>3. ReqInv' /\ NoNewProbe
      <3> HIDE DEF n
      <3> QED
        BY <2>1, <2>2, ReqStep DEF Inv, TypeInv
    <2>4. Quiet
      BY <1>r, <2>2, <2>3, SameCircuits DEF Quiet, Inv, TypeInv
    <2> QED
      BY <1>r, <2>4, QuietProbes DEF Inv, TypeInv, Quiet
  <1>2. CASE req[r].avail # {}
    <2> DEFINE q0 == [req[r] EXCEPT !.pc = "done", !.code = "fail"]
               q1 == StartCandidates(req[r], "retryCandidates", Dests)
               q2 == [req[r] EXCEPT !.pc = "forward"]
    <2>1. circuit' = [circuit EXCEPT ![AnyKey] = t]
      BY <1>2 DEF Check
    <2>2. PICK n : /\ req' = [req EXCEPT ![r] = n]
                   /\ \/ n = q0 
                      \/ Admits(c) /\ (n = Probing(q1, AnyKey) \/ n = Probing(q2, AnyKey))
      BY <1>2 DEF Check
    <2>e. Sound(e)
      BY <1>k, EnteringSound
    <2>3. Sound(t) /\ t.status = e.status /\ t.trips = e.trips
      <3>1. c.status \in {"Closed", "Open", "HalfOpen"}
        BY <1>k DEF Sound, Circuits, Statuses
      <3>2. CASE c.status = "Open"
        BY <2>e, <3>2 DEF AnyChecked
      <3>3. CASE c.status = "HalfOpen"
        <4>1. t = TryAcquire(c)
          BY <3>3 DEF AnyChecked
        <4> QED
          BY <1>k, <4>1, TryAcquireSound
      <3>4. CASE c.status = "Closed"
        BY <1>k, <3>4 DEF AnyChecked, Entering
      <3> QED
        BY <3>1, <3>2, <3>3, <3>4
    <2>4. CircuitInv' /\ circuit'[AnyKey] = t /\ \A j \in Keys \ {AnyKey} : circuit'[j] = circuit[j]
      <3>1. CircuitInv /\ circuit \in [Keys -> Circuits]
        BY DEF Inv, TypeInv, CircuitInv
      <3> HIDE DEF t
      <3> QED
        BY <1>k, <2>1, <2>3, <3>1, CircuitStep
    <2>5. q0 \in Reqs /\ q1 \in Reqs /\ q2 \in Reqs
          /\ q0.probe = req[r].probe /\ q1.probe = req[r].probe /\ q2.probe = req[r].probe
      <3>1. q0 \in Reqs /\ q0.probe = req[r].probe
        BY <1>k DEF Reqs, Pcs, Codes
      <3>2. q1 \in Reqs /\ q1.probe = req[r].probe
        <4>1. q1 = [req[r] EXCEPT !.pc = "retryCandidates", !.todo = Dests, !.avail = {}]
          BY DEF StartCandidates
        <4> QED
          BY <1>k, <4>1 DEF Reqs, Pcs
      <3>3. q2 \in Reqs /\ q2.probe = req[r].probe
        BY <1>k DEF Reqs, Pcs
      <3> QED
        BY <3>1, <3>2, <3>3
    <2>6. ASSUME NEW q \in Reqs, q.probe = req[r].probe
          PROVE  LET m == Probing(q, AnyKey)
                 IN  /\ m \in Reqs
                     /\ \A j \in Keys \ {AnyKey} : m.probe[j] = req[r].probe[j]
                     /\ m.probe[AnyKey] = IF e.status = "HalfOpen" THEN e.trips ELSE req[r].probe[AnyKey]
      <3> DEFINE v == IF e.status = "HalfOpen" THEN e.trips ELSE q.probe[AnyKey]
                 m == Probing(q, AnyKey)
      <3>1. m = [q EXCEPT !.probe = [q.probe EXCEPT ![AnyKey] = v]]
        BY DEF Probing
      <3>2. v \in 0 .. MaxTrips /\ q.probe \in [Keys -> 0 .. MaxTrips]
        <4> HIDE DEF e
        <4> QED
          BY <2>e, <2>6, <1>k DEF Sound, Circuits, Reqs
      <3>3. [q.probe EXCEPT ![AnyKey] = v] \in [Keys -> 0 .. MaxTrips]
        <4> HIDE DEF v
        <4> QED
          BY <3>2
      <3> HIDE DEF m, e
      <3>4. m \in Reqs /\ m.probe = [q.probe EXCEPT ![AnyKey] = v]
        BY <2>6, <3>1, <3>3 DEF Reqs
      <3> QED
        BY <1>k, <2>6, <3>2, <3>4 DEF m
    <2>7. /\ n \in Reqs
          /\ \A j \in Keys \ {AnyKey} : n.probe[j] = req[r].probe[j]
          /\ \/ n.probe[AnyKey] = req[r].probe[AnyKey]
             \/ Admits(c) /\ n.probe[AnyKey] = IF e.status = "HalfOpen" THEN e.trips ELSE req[r].probe[AnyKey]
      <3> HIDE DEF q0, q1, q2, e, c
      <3> QED
        BY <2>2, <2>5, <2>6
    <2>8. ReqInv' /\ req'[r] = n /\ \A s \in Requests \ {r} : req'[s] = req[s]
      BY <2>2, <2>7, ReqStep DEF Inv, TypeInv
    <2>9. Passes(r, AnyKey)
      <3> HIDE DEF t, e, c
      <3> QED
        BY <1>k, <2>3, <2>4, <2>7, <2>8 DEF Passes, e, c
    <2>10. ProbeInv'
      BY <1>k, <1>r, <2>4, <2>8, <2>9, PassesProbes DEF Inv
    <2> QED
      BY <1>r, <2>4, <2>8, <2>10 DEF Inv, TypeInv
  <1> QED
    BY <1>1, <1>2

\* The steps of a request.
LEMMA RequestInv ==
    ASSUME Inv, NEW r \in Requests, Arrive(r) \/ RequestStep(r)
    PROVE  Inv'
  <1>1. CASE \E d \in Dests : ApplyCandidate(r, d)
    BY <1>1, ApplyCandidateInv
  <1>2. CASE Check(r)
    BY <1>2, CheckInv
  <1>3. CASE \/ AbortCandidates(r) \/ Arrive(r) \/ Record(r) \/ Respond(r) \/ RetryChecked(r)
             \/ \E d \in Dests \cup {Null}, code \in Codes, throws \in BOOLEAN : Forward(r, d, code, throws)
             \/ \E left \in {"no", "attempt", "backoff"} : RetryRecord(r, left)
    <2>1. Quiet
      BY <1>3, RequestQuiet DEF Inv
    <2>2. UNCHANGED <<reset, resets>>
      BY <1>3 DEF AbortCandidates, Arrive, Record, Respond, RetryChecked, Forward, RetryRecord
    <2> QED
      BY <2>1, <2>2, QuietProbes DEF Inv, TypeInv, Quiet
  <1> QED
    BY <1>1, <1>2, <1>3 DEF RequestStep

\* Once there was a reset, only the numbering of the periods is left to keep.
LEMMA ResetProbes ==
    ASSUME TypeInv, ProbeInv, resets' # 0, UNCHANGED req,
           \A k \in Keys : /\ circuit'[k].trips = circuit[k].trips
                           /\ circuit'[k].status = "HalfOpen" => circuit[k].status = "HalfOpen"
    PROVE  ProbeInv'
  BY DEF ProbeInv

\* Time passes, or the circuits are reset or removed.
LEMMA CircuitsInv ==
    ASSUME Inv,
           \/ \E k \in Keys : RecoveryElapses(k) \/ CleanupStale(k) \/ ResetStatus(k) \/ ResetCounters(k)
           \/ ResetAll
    PROVE  Inv'
  <1>t. circuit \in [Keys -> Circuits] /\ CircuitInv /\ ReqInv /\ ResetInv
    BY DEF Inv, TypeInv, CircuitInv
  <1>1. ASSUME NEW k \in Keys, RecoveryElapses(k) PROVE Inv'
    <2> DEFINE e == [circuit[k] EXCEPT !.elapsed = TRUE]
    <2>1. Sound(circuit[k]) /\ circuit[k] \in Circuits /\ circuit[k].trips < MaxTrips
          /\ circuit' = [circuit EXCEPT ![k] = e]
      BY <1>1, <1>t DEF CircuitInv, RecoveryElapses
    <2>2. e \in Circuits /\ e.trips = circuit[k].trips /\ e.status = circuit[k].status
          /\ e.permits = circuit[k].permits /\ e.samples = circuit[k].samples /\ e.failures = circuit[k].failures
      BY <2>1 DEF Circuits
    <2>3. Sound(e) /\ Kept(circuit[k], e) /\ (k \in Dests => Exact(e))
      BY <1>t, <2>1, <2>2 DEF Sound, Kept, Exact, CircuitInv
    <2>4. CircuitInv' /\ AllKept
      <3> HIDE DEF e
      <3> QED
        BY <1>t, <2>1, <2>3, CircuitStep
    <2>5. UNCHANGED <<req, reset, resets>>
      BY <1>1 DEF RecoveryElapses
    <2>6. Quiet
      BY <1>t, <2>4, <2>5 DEF Quiet, ReqInv, ResetInv, NoNewProbe
    <2> QED
      BY <2>5, <2>6, QuietProbes DEF Inv, TypeInv, Quiet
  <1>2. ASSUME NEW k \in Keys, CleanupStale(k) PROVE Inv'
    <2>1. Sound(circuit[k]) /\ circuit' = [circuit EXCEPT ![k] = ResetClosed(circuit[k])]
      BY <1>2, <1>t DEF CircuitInv, CleanupStale
    <2>2. CircuitInv' /\ AllKept
      BY <1>t, <2>1, ResetClosedSound, CircuitStep
    <2>3. UNCHANGED <<req, reset, resets>>
      BY <1>2 DEF CleanupStale
    <2>4. Quiet
      BY <1>t, <2>2, <2>3 DEF Quiet, ReqInv, ResetInv, NoNewProbe
    <2> QED
      BY <2>3, <2>4, QuietProbes DEF Inv, TypeInv, Quiet
  <1>n. ASSUME reset # [todo |-> {}, cur |-> Null] PROVE resets # 0
    BY <1>n DEF Inv, ProbeInv
  <1>3. ASSUME NEW k \in Keys, ResetStatus(k) PROVE Inv'
    <2> DEFINE e == [circuit[k] EXCEPT !.status = "Closed", !.elapsed = FALSE]
    <2>1. Sound(circuit[k]) /\ circuit[k] \in Circuits /\ circuit' = [circuit EXCEPT ![k] = e]
      BY <1>3, <1>t DEF CircuitInv, ResetStatus
    <2>2. e \in Circuits /\ e.trips = circuit[k].trips /\ e.status = "Closed" /\ e.elapsed = FALSE
          /\ e.samples = circuit[k].samples /\ e.failures = circuit[k].failures
      BY <2>1 DEF Circuits, Statuses
    <2>3. Sound(e) /\ Kept(circuit[k], e) /\ (k \in Dests => Exact(e))
      BY <1>t, <2>1, <2>2 DEF Sound, Kept, Exact, CircuitInv
    <2>4. CircuitInv' /\ AllKept
      <3> HIDE DEF e
      <3> QED
        BY <1>t, <2>1, <2>3, CircuitStep
    <2>5. UNCHANGED <<req, resets>> /\ resets # 0
      BY <1>3, <1>n DEF ResetStatus
    <2>6. ReqInv' /\ ResetInv'
      BY <1>3, <1>t, <2>5 DEF ReqInv, ResetInv, ResetStatus
    <2>7. ProbeInv'
      BY <2>4, <2>5, ResetProbes DEF Inv, AllKept, Kept
    <2> QED
      BY <2>4, <2>6, <2>7 DEF Inv, TypeInv
  <1>4. ASSUME NEW k \in Keys, ResetCounters(k) PROVE Inv'
    <2> DEFINE f == IF k = AnyKey THEN 0 ELSE circuit[k].failures
               e == [circuit[k] EXCEPT !.permits = 0, !.failures = f]
    <2>1. Sound(circuit[k]) /\ circuit[k] \in Circuits /\ circuit' = [circuit EXCEPT ![k] = e]
      BY <1>4, <1>t DEF CircuitInv, ResetCounters
    <2>2. f \in Nat /\ 0 \in 0 .. MaxHalfOpenAttempts /\ (k \in Dests => f = circuit[k].failures)
      BY <2>1, BreakerAssumption DEF Circuits
    <2>3. e \in Circuits /\ e.trips = circuit[k].trips /\ e.status = circuit[k].status
          /\ e.elapsed = circuit[k].elapsed /\ e.samples = circuit[k].samples /\ e.failures = f
      <3> HIDE DEF f
      <3> QED
        BY <2>1, <2>2 DEF Circuits
    <2>4. Sound(e) /\ (k \in Dests => Exact(e))
      <3> HIDE DEF f, e
      <3> QED
        BY <1>t, <2>1, <2>2, <2>3 DEF Sound, Exact, CircuitInv
    <2>5. CircuitInv'
      <3> HIDE DEF e
      <3> QED
        BY <1>t, <2>1, <2>4, CircuitStep
    <2>6. UNCHANGED <<req, resets>> /\ resets # 0
      BY <1>4, <1>n, BreakerAssumption DEF ResetCounters, Keys
    <2>7. ReqInv' /\ ResetInv'
      BY <1>4, <1>t, <2>6 DEF ReqInv, ResetInv, ResetCounters
    <2>8. \A j \in Keys : circuit'[j].trips = circuit[j].trips /\ circuit'[j].status = circuit[j].status
      <3> HIDE DEF e
      <3> QED
        BY <1>t, <2>1, <2>3
    <2>9. ProbeInv'
      BY <2>6, <2>8, ResetProbes DEF Inv
    <2> QED
      BY <2>5, <2>7, <2>9 DEF Inv, TypeInv
  <1>5. CASE ResetAll
    <2>1. UNCHANGED <<circuit, req>> /\ resets' # 0
      BY <1>5, <1>t, BreakerAssumption DEF ResetAll, ResetInv
    <2>2. CircuitInv' /\ ReqInv'
      BY <1>t, <2>1, SameCircuits DEF ReqInv
    <2>3. ResetInv'
      BY <1>5, <1>t, BreakerAssumption DEF ResetAll, ResetInv
    <2>4. ProbeInv'
      BY <2>1, ResetProbes DEF Inv
    <2> QED
      BY <2>2, <2>3, <2>4 DEF Inv, TypeInv
  <1> QED
    BY <1>1, <1>2, <1>3, <1>4, <1>5

\* Everything starts closed and idle.
LEMMA InitInv == Init => Inv
  <1> SUFFICES ASSUME Init PROVE Inv
    OBVIOUS
  <1>c. FreshCircuit \in Circuits /\ FreshCircuit.status = "Closed" /\ FreshCircuit.samples = <<>>
        /\ FreshCircuit.failures = 0 /\ FreshCircuit.elapsed = FALSE /\ FreshCircuit.trips = 0
    BY BreakerAssumption DEF FreshCircuit, Circuits, Statuses
  <1>e. Sound(FreshCircuit) /\ Exact(FreshCircuit)
    <2>1. {i \in DOMAIN FreshCircuit.samples : FreshCircuit.samples[i]} = {}
      BY <1>c
    <2> QED
      BY <1>c, <2>1, FS_EmptySet DEF Sound, Exact, Failures
  <1>1. CircuitInv
    BY <1>c, <1>e DEF Init, CircuitInv, Keys
  <1>2. ReqInv /\ \A r \in Requests, k \in Keys : req[r].probe[k] = 0
    BY IdleType DEF Init, ReqInv, NoProbe
  <1>3. ResetInv /\ resets = 0 /\ reset = [todo |-> {}, cur |-> Null]
    BY BreakerAssumption DEF Init, ResetInv
  <1>4. \A k \in Keys : circuit[k].status = "Closed" /\ circuit[k].trips = 0
    BY <1>c DEF Init
  <1>5. ProbeInv
    <2>1. Dests \subseteq Keys
      BY DEF Keys
    <2> QED
      BY <1>2, <1>3, <1>4, <2>1 DEF ProbeInv
  <1> QED
    BY <1>1, <1>2, <1>3, <1>5 DEF Inv, TypeInv

\* Every step keeps the invariant.
LEMMA NextInv == Inv /\ [Next]_vars => Inv'
  <1>1. Inv /\ UNCHANGED vars => Inv'
    BY DEF vars, Inv, TypeInv, CircuitInv, ReqInv, ResetInv, Sound, Exact, ProbeInv, Probes
  <1> QED
    BY <1>1, RequestInv, CircuitsInv DEF Next

\* The invariant holds throughout.
LEMMA AlwaysInv == Spec => []Inv
  BY InitInv, NextInv, PTL DEF Spec

\* The types of circuits and requests (CircuitState, and the locals of the middlewares):
\* HalfOpenRequests within MaxHalfOpenAttempts, the attempts within MaxRetries.
THEOREM TypeCorrect == Spec => []TypeOK
  <1>1. Inv => TypeOK
    BY DEF Inv, TypeInv, CircuitInv, ReqInv, ResetInv, TypeOK, Circuits, Reqs, Pcs
  <1> QED
    BY <1>1, AlwaysInv, PTL

\* TryAcquire (InMemoryCircuitStateStore): until the first ResetAll a half-open period of a
\* destination never has more probes in flight than MaxHalfOpenAttempts.
THEOREM ProbesStayBounded == Spec => []ProbesBounded
  <1>1. Inv => ProbesBounded
    <2> SUFFICES ASSUME Inv, resets = 0, NEW d \in Dests
                 PROVE  Cardinality(Probes(d)) <= MaxHalfOpenAttempts
      BY DEF ProbesBounded
    <2>1. circuit[d].permits \in 0 .. MaxHalfOpenAttempts
      BY DEF Inv, TypeInv, CircuitInv, Circuits, Keys
    <2>2. CASE circuit[d].status = "HalfOpen"
      <3>1. IsFiniteSet(Probes(d)) /\ Cardinality(Probes(d)) <= circuit[d].permits
        BY <2>2 DEF Inv, ProbeInv
      <3>2. Cardinality(Probes(d)) \in Nat
        BY <3>1, FS_CardinalityType
      <3> QED
        BY <2>1, <3>1, <3>2, BreakerAssumption
    <2>3. CASE circuit[d].status # "HalfOpen"
      <3>1. Probes(d) = {}
        BY <2>3 DEF Probes
      <3> QED
        BY <3>1, FS_EmptySet, BreakerAssumption
    <2> QED
      BY <2>2, <2>3
  <1> QED
    BY <1>1, AlwaysInv, PTL

\* RecordOutcome (InMemoryCircuitStateStore): SampleFailures is the number of failures among
\* the samples of the window, whatever number of them each outcome drops.
THEOREM FailuresCounted == Spec => []FailureCounterExact
  <1>1. Inv => FailureCounterExact
    BY DEF Inv, TypeInv, CircuitInv, Exact, FailureCounterExact
  <1> QED
    BY <1>1, AlwaysInv, PTL

=============================================================================
