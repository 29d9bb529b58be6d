------------------------ MODULE PluginRuntimeProofs ------------------------
(***************************************************************************)
(* Proofs about what a request takes from the plugin runtime without       *)
(* waiting for those who replace it: its lease on a domain                 *)
(* (PluginRuntimeDomain) and the execution plan (ExecutionPlanCache), for  *)
(* any number of requests, transitions, domains, readers and publications. *)
(***************************************************************************)
EXTENDS PluginRuntimeDomain, ExecutionPlanCache, FiniteSetTheorems, TLAPS

(* The domain                                                              *)

\* Where the candidates of unfinished transitions stand: made, not current,
\* untouched by any retirement, and each owned by one transition.
Candidates ==
    /\ \A t \in Transitions : tr[t].pc # "idle" =>
         /\ ~stopped
         /\ tr[t].cand \in made /\ tr[t].cand # current
         /\ task[tr[t].cand] = "none"
         /\ tr[t].cand \notin disposed
    /\ \A t, u \in Transitions :
         tr[t].pc # "idle" /\ tr[u].pc # "idle" /\ tr[t].cand = tr[u].cand => t = u

\* How far the life of a domain has gone, read off its retirement.
Lifecycle ==
    /\ current \in made
    /\ ~stopped => task[current] = "none"
    /\ \A d \in Domains :
         /\ d \notin made => task[d] = "none" /\ d \notin disposed
         /\ task[d] \in {"none", "start"} => d \notin retired
         /\ task[d] \in {"count", "wait", "done"} => d \in retired
         /\ d \in drained => d \in retired
         /\ d \in disposed => \/ d \in drained
                              \/ task[d] = "none" /\ d # current

\* A request past LoadCurrent works on a domain that is or was current.
OnCommitted ==
    \A r \in Requests : req[r].pc \notin {"idle", "load"} =>
        /\ req[r].dom \in Domains
        /\ req[r].dom = current \/ task[req[r].dom] # "none"

\* Once a domain is retired with no release astride the retirement, neither a
\* completed drain nor a release about to complete it leaves a running request.
DrainedIsIdle ==
    \A d \in retired \ straddled : \A q \in Requests :
        (d \in drained \/ \E r \in Requests : At(r, "signal", d)) => ~At(q, "running", d)

DomainInv == TypeOK /\ Candidates /\ Lifecycle /\ OnCommitted /\ ActiveCountsRequests /\ DrainedIsIdle

-----------------------------------------------------------------------------
(* The counter *)

\* The requests inside a domain are finitely many; the counter is zero exactly
\* when there is none, and positive while one is there.
LEMMA InsideFacts ==
    ASSUME TypeOK, ActiveCountsRequests, NEW d \in Domains
    PROVE  /\ IsFiniteSet(Inside(d))
           /\ active[d] = 0 => Inside(d) = {}
           /\ \A r \in Inside(d) : active[d] - 1 \in Nat
<1>1. IsFiniteSet(Inside(d))
  BY FS_Subset, DomainsAssumption DEF Inside
<1>2. active[d] = Cardinality(Inside(d))
  BY DEF ActiveCountsRequests
<1>3. active[d] = 0 => Inside(d) = {}
  BY <1>1, <1>2, FS_EmptySet
<1>4. active[d] \in Nat
  BY DEF TypeOK
<1> QED
  BY <1>1, <1>3, <1>4, SMT

\* A step that moves no request in or out of a domain keeps the count.
LEMMA SameInside ==
    ASSUME ActiveCountsRequests, active' = active, \A d \in Domains : Inside(d)' = Inside(d)
    PROVE  ActiveCountsRequests'
BY DEF ActiveCountsRequests

\* Every step keeps the counter equal to the number of requests inside.
LEMMA CountStep ==
    ASSUME DomainInv, [Next]_vars
    PROVE  ActiveCountsRequests'
<1> USE DEF DomainInv
<1>1. ASSUME UNCHANGED reqVars
      PROVE  ActiveCountsRequests'
  BY <1>1, SameInside DEF reqVars, Inside
<1>2. ASSUME NEW r \in Requests, TryAcquireEnter(r)
      PROVE  ActiveCountsRequests'
  <2>1. PICK e \in Domains : e = req[r].dom /\ req[r].pc = "enter"
    BY <1>2 DEF TryAcquireEnter, OnCommitted
  <2>2. Inside(e)' = Inside(e) \cup {r} /\ r \notin Inside(e)
    BY <1>2, <2>1 DEF TryAcquireEnter, Step, Inside, TypeOK
  <2>3. \A d \in Domains \ {e} : Inside(d)' = Inside(d)
    BY <1>2, <2>1 DEF TryAcquireEnter, Step, Inside, TypeOK
  <2>4. Cardinality(Inside(e)') = Cardinality(Inside(e)) + 1
    BY <2>1, <2>2, InsideFacts, FS_AddElement
  <2>5. active' = [active EXCEPT ![e] = @ + 1]
    BY <1>2, <2>1 DEF TryAcquireEnter
  <2>6. active'[e] = Cardinality(Inside(e)')
    BY <2>1, <2>4, <2>5 DEF ActiveCountsRequests, TypeOK
  <2>7. ASSUME NEW d \in Domains, d # e
        PROVE  active'[d] = Cardinality(Inside(d)')
    BY <2>3, <2>5, <2>7 DEF ActiveCountsRequests, TypeOK
  <2> QED
    BY <2>6, <2>7 DEF ActiveCountsRequests
<1>3. ASSUME NEW r \in Requests, ReleaseDecrement(r)
      PROVE  ActiveCountsRequests'
  <2>1. PICK e \in Domains : e = req[r].dom /\ req[r].pc = "release"
    BY <1>3 DEF ReleaseDecrement, OnCommitted
  <2>2. r \in Inside(e) /\ Inside(e)' = Inside(e) \ {r}
    BY <1>3, <2>1 DEF ReleaseDecrement, AfterRelease, NoRequest, Inside, TypeOK
  <2>3. \A d \in Domains \ {e} : Inside(d)' = Inside(d)
    BY <1>3, <2>1 DEF ReleaseDecrement, AfterRelease, NoRequest, Inside, TypeOK
  <2>4. Cardinality(Inside(e)') = Cardinality(Inside(e)) - 1
    <3>1. IsFiniteSet(Inside(e))
      BY <2>1, InsideFacts
    <3> QED
      BY <2>2, <3>1, FS_RemoveElement
  <2>5. active' = [active EXCEPT ![e] = active[e] - 1]
    BY <1>3, <2>1 DEF ReleaseDecrement
  <2>6. active'[e] = Cardinality(Inside(e)')
    BY <2>1, <2>4, <2>5 DEF ActiveCountsRequests, TypeOK
  <2>7. ASSUME NEW d \in Domains, d # e
        PROVE  active'[d] = Cardinality(Inside(d)')
    BY <2>3, <2>5, <2>7 DEF ActiveCountsRequests, TypeOK
  <2> QED
    BY <2>6, <2>7 DEF ActiveCountsRequests
<1>4. ASSUME NEW r \in Requests,
             Arrive(r) \/ LoadCurrent(r) \/ TryAcquireCheck(r) \/ TryAcquireRecheck(r)
               \/ PipelineEnds(r) \/ ReleaseSignal(r)
      PROVE  ActiveCountsRequests'
  <2>1. active' = active
    BY <1>4 DEF Arrive, LoadCurrent, TryAcquireCheck, TryAcquireRecheck, PipelineEnds, ReleaseSignal
  <2>2. ASSUME NEW d \in Domains
        PROVE  Inside(d)' = Inside(d)
    <3>1. \A q \in Requests \ {r} : req'[q] = req[q]
      BY <1>4 DEF Arrive, LoadCurrent, TryAcquireCheck, TryAcquireRecheck, PipelineEnds,
                  ReleaseSignal, Step, TypeOK
    <3>2. (req'[r].dom = d /\ req'[r].pc \in {"recheck", "running", "release"})
            <=> (req[r].dom = d /\ req[r].pc \in {"recheck", "running", "release"})
      BY <1>4 DEF Arrive, LoadCurrent, TryAcquireCheck, TryAcquireRecheck, PipelineEnds,
                  ReleaseSignal, AfterRelease, NoRequest, Step, TypeOK
    <3> QED
      BY <3>1, <3>2 DEF Inside
  <2> QED
    BY <2>1, <2>2, SameInside
<1> QED
  BY <1>1, <1>2, <1>3, <1>4 DEF Next, vars, reqVars, Transition, Retirement, InFlight, PrepareAsync,
     CheckHealthAsync, DisposeCandidate, CommitAsync, RetireExchange, RetireCount, DisposeDrained,
     ManagerDispose, Exited

-----------------------------------------------------------------------------
(* Types *)

\* The requests a step does not name stay as they are, and the one it names
\* keeps the type of its record.
LEMMA RequestType ==
    ASSUME DomainInv, NEW r \in Requests, Arrive(r) \/ InFlight(r)
    PROVE  /\ req' \in [Requests -> [pc : RequestSteps, dom : Domains \cup {None}, won : BOOLEAN]]
           /\ \A q \in Requests \ {r} : req'[q] = req[q]
<1> USE DEF DomainInv, TypeOK, RequestSteps
<1>1. CASE Arrive(r)
  BY <1>1 DEF Arrive, Step
<1>2. CASE LoadCurrent(r)
  BY <1>2 DEF LoadCurrent
<1>3. CASE TryAcquireCheck(r)
  BY <1>3 DEF TryAcquireCheck, Step
<1>4. CASE TryAcquireEnter(r)
  BY <1>4 DEF TryAcquireEnter, Step
<1>5. CASE TryAcquireRecheck(r)
  BY <1>5 DEF TryAcquireRecheck, Step
<1>6. CASE PipelineEnds(r)
  BY <1>6 DEF PipelineEnds, Step
<1>7. CASE ReleaseDecrement(r)
  <2> DEFINE Records == [pc : RequestSteps, dom : Domains \cup {None}, won : BOOLEAN]
  <2>1. req[r] \in Records /\ req \in [Requests -> Records]
    OBVIOUS
  <2>2. [req[r] EXCEPT !.pc = "signal"] \in Records
    BY <2>1
  <2>3. AfterRelease(r) \in Records
    BY DEF AfterRelease, NoRequest
  <2>4. PICK new : new \in Records /\ req' = [req EXCEPT ![r] = new]
    BY <1>7, <2>2, <2>3 DEF ReleaseDecrement
  <2> HIDE DEF Records
  <2>5. req' \in [Requests -> Records] /\ \A q \in Requests \ {r} : req'[q] = req[q]
    BY <2>1, <2>4
  <2> QED
    BY <2>5 DEF Records
<1>8. CASE ReleaseSignal(r)
  BY <1>8 DEF ReleaseSignal, AfterRelease, NoRequest
<1> QED
  BY <1>1, <1>2, <1>3, <1>4, <1>5, <1>6, <1>7, <1>8 DEF InFlight

\* Every step keeps the types.
LEMMA TypeStep ==
    ASSUME DomainInv, [Next]_vars
    PROVE  TypeOK'
<1> USE DEF DomainInv
<1>1. ASSUME UNCHANGED vars
      PROVE  TypeOK'
  BY <1>1 DEF TypeOK, vars
<1>2. ASSUME NEW t \in Transitions, Transition(t)
      PROVE  TypeOK'
  BY <1>2 DEF Transition, PrepareAsync, CheckHealthAsync, DisposeCandidate, CommitAsync, NoTransition,
              TypeOK, TaskSteps, Candidates, reqVars
<1>3. ASSUME NEW d \in Domains, Retirement(d)
      PROVE  TypeOK'
  BY <1>3 DEF Retirement, RetireExchange, RetireCount, DisposeDrained, TypeOK, TaskSteps, reqVars
<1>4. ASSUME NEW r \in Requests, Arrive(r) \/ InFlight(r)
      PROVE  TypeOK'
  <2>1. /\ UNCHANGED <<current, made, retired, disposed, task, tr, stopped, straddled>>
        /\ req' \in [Requests -> [pc : RequestSteps, dom : Domains \cup {None}, won : BOOLEAN]]
    BY <1>4, RequestType DEF Arrive, InFlight, LoadCurrent, TryAcquireCheck, TryAcquireEnter,
       TryAcquireRecheck, PipelineEnds, ReleaseDecrement, ReleaseSignal, ReqOnly
  <2>2. drained' \subseteq Domains
    BY <1>4 DEF Arrive, InFlight, LoadCurrent, TryAcquireCheck, TryAcquireEnter,
       TryAcquireRecheck, PipelineEnds, ReleaseDecrement, ReleaseSignal, OnCommitted, TypeOK
  <2>3. active' \in [Domains -> Nat]
    <3>1. CASE ReleaseDecrement(r)
      <4>1. req[r].dom \in Domains /\ r \in Inside(req[r].dom)
        BY <3>1 DEF ReleaseDecrement, OnCommitted, Inside
      <4>2. active[req[r].dom] - 1 \in Nat
        BY <4>1, InsideFacts
      <4> QED
        BY <3>1, <4>1, <4>2 DEF ReleaseDecrement, TypeOK
    <3>2. CASE TryAcquireEnter(r)
      BY <3>2 DEF TryAcquireEnter, OnCommitted, TypeOK
    <3> QED
      BY <1>4, <3>1, <3>2 DEF Arrive, InFlight, LoadCurrent, TryAcquireCheck, TryAcquireRecheck,
         PipelineEnds, ReleaseSignal, TypeOK
  <2> QED
    BY <2>1, <2>2, <2>3 DEF TypeOK
<1>5. ASSUME ManagerDispose
      PROVE  TypeOK'
  BY <1>5 DEF ManagerDispose, TypeOK, TaskSteps, reqVars
<1> QED
  BY <1>1, <1>2, <1>3, <1>4, <1>5 DEF Next, Exited

-----------------------------------------------------------------------------
(* The life of a domain *)

\* What a request step leaves alone.
LEMMA RequestFrame ==
    ASSUME NEW r \in Requests, Arrive(r) \/ InFlight(r)
    PROVE  UNCHANGED <<current, made, retired, disposed, task, tr, stopped, straddled>>
BY DEF Arrive, InFlight, LoadCurrent, TryAcquireCheck, TryAcquireEnter, TryAcquireRecheck,
       PipelineEnds, ReleaseDecrement, ReleaseSignal, ReqOnly

\* Every step keeps candidates apart from what is current or retired.
LEMMA CandidatesStep ==
    ASSUME DomainInv, [Next]_vars
    PROVE  Candidates'
<1> USE DEF DomainInv
<1>1. ASSUME UNCHANGED vars
      PROVE  Candidates'
  BY <1>1 DEF Candidates, vars
<1>2. ASSUME NEW t \in Transitions, PrepareAsync(t)
      PROVE  Candidates'
  BY <1>2 DEF PrepareAsync, Candidates, Lifecycle, TypeOK, reqVars
<1>3. ASSUME NEW t \in Transitions, CheckHealthAsync(t)
      PROVE  Candidates'
  BY <1>3 DEF CheckHealthAsync, Candidates, TypeOK, reqVars
<1>4. ASSUME NEW t \in Transitions, DisposeCandidate(t)
      PROVE  Candidates'
  BY <1>4 DEF DisposeCandidate, NoTransition, Candidates, TypeOK, reqVars
<1>5. ASSUME NEW t \in Transitions, CommitAsync(t)
      PROVE  Candidates'
  BY <1>5 DEF CommitAsync, NoTransition, Candidates, TypeOK, reqVars
<1>6. ASSUME NEW d \in Domains, Retirement(d)
      PROVE  Candidates'
  BY <1>6 DEF Retirement, RetireExchange, RetireCount, DisposeDrained, Candidates, TypeOK, reqVars
<1>7. ASSUME NEW r \in Requests, Arrive(r) \/ InFlight(r)
      PROVE  Candidates'
  BY <1>7, RequestFrame DEF Candidates
<1>8. ASSUME ManagerDispose
      PROVE  Candidates'
  BY <1>8 DEF ManagerDispose, Candidates
<1> QED
  BY <1>1, <1>2, <1>3, <1>4, <1>5, <1>6, <1>7, <1>8 DEF Next, Transition, Exited

\* Every step moves each domain forward in its life and no further.
LEMMA LifecycleStep ==
    ASSUME DomainInv, [Next]_vars
    PROVE  Lifecycle'
<1> USE DEF DomainInv
<1>1. ASSUME UNCHANGED vars
      PROVE  Lifecycle'
  BY <1>1 DEF Lifecycle, vars
<1>2. ASSUME NEW t \in Transitions, PrepareAsync(t)
      PROVE  Lifecycle'
  BY <1>2 DEF PrepareAsync, Lifecycle, TypeOK, reqVars
<1>3. ASSUME NEW t \in Transitions, CheckHealthAsync(t)
      PROVE  Lifecycle'
  BY <1>3 DEF CheckHealthAsync, Lifecycle, TypeOK, reqVars
<1>4. ASSUME NEW t \in Transitions, DisposeCandidate(t)
      PROVE  Lifecycle'
  BY <1>4 DEF DisposeCandidate, Candidates, Lifecycle, TypeOK, reqVars
<1>5. ASSUME NEW t \in Transitions, CommitAsync(t)
      PROVE  Lifecycle'
  BY <1>5 DEF CommitAsync, Candidates, Lifecycle, TypeOK, TaskSteps, reqVars
<1>6. ASSUME NEW d \in Domains, Retirement(d)
      PROVE  Lifecycle'
  BY <1>6 DEF Retirement, RetireExchange, RetireCount, DisposeDrained, Lifecycle, TypeOK, TaskSteps, reqVars
<1>7. ASSUME NEW r \in Requests, Arrive(r) \/ InFlight(r)
      PROVE  Lifecycle'
  <2>1. \A d \in Domains : d \in drained' => d \in drained \/ d \in retired
    BY <1>7 DEF Arrive, InFlight, LoadCurrent, TryAcquireCheck, TryAcquireEnter, TryAcquireRecheck,
       PipelineEnds, ReleaseDecrement, ReleaseSignal
  <2>2. drained \subseteq drained'
    BY <1>7 DEF Arrive, InFlight, LoadCurrent, TryAcquireCheck, TryAcquireEnter, TryAcquireRecheck,
       PipelineEnds, ReleaseDecrement, ReleaseSignal
  <2> QED
    BY <1>7, <2>1, <2>2, RequestFrame DEF Lifecycle
<1>8. ASSUME ManagerDispose
      PROVE  Lifecycle'
  BY <1>8 DEF ManagerDispose, Lifecycle, TypeOK, TaskSteps, reqVars
<1> QED
  BY <1>1, <1>2, <1>3, <1>4, <1>5, <1>6, <1>7, <1>8 DEF Next, Transition, Exited

\* Every step keeps the domain of a request among those that were current.
LEMMA OnCommittedStep ==
    ASSUME DomainInv, [Next]_vars
    PROVE  OnCommitted'
<1> USE DEF DomainInv
<1>1. ASSUME UNCHANGED vars
      PROVE  OnCommitted'
  BY <1>1 DEF OnCommitted, vars
<1>2. ASSUME NEW t \in Transitions, Transition(t)
      PROVE  OnCommitted'
  BY <1>2 DEF Transition, PrepareAsync, CheckHealthAsync, DisposeCandidate, CommitAsync,
              OnCommitted, TypeOK, reqVars
<1>3. ASSUME NEW d \in Domains, Retirement(d)
      PROVE  OnCommitted'
  BY <1>3 DEF Retirement, RetireExchange, RetireCount, DisposeDrained, OnCommitted, TypeOK, reqVars
<1>4. ASSUME NEW r \in Requests, Arrive(r) \/ InFlight(r)
      PROVE  OnCommitted'
  <2>1. \A q \in Requests \ {r} : req'[q] = req[q]
    BY <1>4, RequestType
  <2>2. req'[r].pc \notin {"idle", "load"} =>
           /\ req'[r].dom \in Domains
           /\ req'[r].dom = current \/ task[req'[r].dom] # "none"
    BY <1>4 DEF Arrive, InFlight, LoadCurrent, TryAcquireCheck, TryAcquireEnter, TryAcquireRecheck,
       PipelineEnds, ReleaseDecrement, ReleaseSignal, AfterRelease, NoRequest, Step, OnCommitted, TypeOK
  <2> QED
    BY <1>4, <2>1, <2>2, RequestFrame DEF OnCommitted
<1>5. ASSUME ManagerDispose
      PROVE  OnCommitted'
  BY <1>5 DEF ManagerDispose, OnCommitted, TypeOK, reqVars
<1> QED
  BY <1>1, <1>2, <1>3, <1>4, <1>5 DEF Next, Exited

-----------------------------------------------------------------------------
(* The drain *)

\* Every step keeps a drained domain free of running requests, unless a
\* release straddled its retirement.
LEMMA DrainStep ==
    ASSUME DomainInv, [Next]_vars, TypeOK', ActiveCountsRequests'
    PROVE  DrainedIsIdle'
<1> USE DEF DomainInv
<1>1. ASSUME UNCHANGED <<retired, drained, req, straddled>>
      PROVE  DrainedIsIdle'
  BY <1>1 DEF DrainedIsIdle, At
<1>2. ASSUME NEW d \in Domains, RetireExchange(d)
      PROVE  DrainedIsIdle'
  <2>1. d \notin drained
    BY <1>2 DEF RetireExchange, Lifecycle
  <2> QED
    BY <1>2, <2>1 DEF RetireExchange, DrainedIsIdle, At, reqVars
<1>3. ASSUME NEW d \in Domains, RetireCount(d)
      PROVE  DrainedIsIdle'
  <2>1. active[d] = 0 => \A q \in Requests : ~At(q, "running", d)
    BY InsideFacts DEF Inside, At
  <2> QED
    BY <1>3, <2>1 DEF RetireCount, DrainedIsIdle, At, reqVars
<1>4. ASSUME NEW r \in Requests, ReleaseDecrement(r)
      PROVE  DrainedIsIdle'
  <2>1. PICK e \in Domains : e = req[r].dom /\ req[r].pc = "release"
    BY <1>4 DEF ReleaseDecrement, OnCommitted
  <2>2. \A q \in Requests : req'[q].pc = "running" => req'[q] = req[q]
    BY <1>4 DEF ReleaseDecrement, AfterRelease, NoRequest, TypeOK
  <2>3. \A q \in Requests : req'[q].pc = "signal" =>
           req'[q] = req[q] \/ (req'[q].dom = e /\ active'[e] = 0)
    BY <1>4, <2>1 DEF ReleaseDecrement, AfterRelease, NoRequest, TypeOK
  <2>4. active'[e] = 0 => \A q \in Requests : ~(req'[q].pc = "running" /\ req'[q].dom = e)
    <3>1. active'[e] = 0 => Inside(e)' = {}
      <4>1. IsFiniteSet(Inside(e)')
        BY FS_Subset, DomainsAssumption DEF Inside
      <4>2. active'[e] = Cardinality(Inside(e)')
        BY DEF ActiveCountsRequests
      <4> QED
        BY <4>1, <4>2, FS_EmptySet
    <3> QED
      BY <3>1 DEF Inside
  <2>5. UNCHANGED <<retired, drained, straddled>>
    BY <1>4 DEF ReleaseDecrement, ReqOnly
  <2> QED
    BY <2>2, <2>3, <2>4, <2>5 DEF DrainedIsIdle, At
<1>5. ASSUME NEW r \in Requests, ReleaseSignal(r)
      PROVE  DrainedIsIdle'
  <2>1. \A q \in Requests : req'[q].pc \in {"running", "signal"} => req'[q] = req[q]
    BY <1>5 DEF ReleaseSignal, AfterRelease, NoRequest, TypeOK
  <2>2. UNCHANGED <<retired, straddled>>
    BY <1>5 DEF ReleaseSignal, ReqOnly
  <2>3. \A d \in retired : d \in drained' => d \in drained \/ At(r, "signal", d)
    BY <1>5 DEF ReleaseSignal, At
  <2> QED
    BY <2>1, <2>2, <2>3 DEF DrainedIsIdle, At
<1>6. ASSUME NEW r \in Requests, TryAcquireRecheck(r)
      PROVE  DrainedIsIdle'
  <2>1. \A q \in Requests : req'[q].pc = "running" =>
           req'[q] = req[q] \/ req'[q].dom \notin retired
    BY <1>6 DEF TryAcquireRecheck, Step, TypeOK
  <2>2. \A q \in Requests : req'[q].pc = "signal" => req'[q] = req[q]
    BY <1>6 DEF TryAcquireRecheck, Step, TypeOK
  <2>3. UNCHANGED <<retired, drained, straddled>>
    BY <1>6 DEF TryAcquireRecheck, ReqOnly
  <2> QED
    BY <2>1, <2>2, <2>3 DEF DrainedIsIdle, At
<1>7. ASSUME NEW r \in Requests,
             Arrive(r) \/ LoadCurrent(r) \/ TryAcquireCheck(r) \/ TryAcquireEnter(r) \/ PipelineEnds(r)
      PROVE  DrainedIsIdle'
  <2>1. \A q \in Requests : req'[q].pc \in {"running", "signal"} => req'[q] = req[q]
    BY <1>7 DEF Arrive, LoadCurrent, TryAcquireCheck, TryAcquireEnter, PipelineEnds, Step, TypeOK
  <2>2. UNCHANGED <<retired, drained, straddled>>
    BY <1>7 DEF Arrive, LoadCurrent, TryAcquireCheck, TryAcquireEnter, PipelineEnds, ReqOnly
  <2> QED
    BY <2>1, <2>2 DEF DrainedIsIdle, At
<1> QED
  BY <1>1, <1>2, <1>3, <1>4, <1>5, <1>6, <1>7 DEF Next, vars, reqVars, Transition, Retirement, InFlight,
     PrepareAsync, CheckHealthAsync, DisposeCandidate, CommitAsync, DisposeDrained, ManagerDispose, Exited

-----------------------------------------------------------------------------
(* Theorems *)

\* The invariant holds when the manager is constructed.
LEMMA InitInv == Init => DomainInv
<1> SUFFICES ASSUME Init PROVE DomainInv
  OBVIOUS
<1>1. TypeOK
  BY DomainsAssumption DEF Init, TypeOK, TaskSteps, RequestSteps, NoRequest, NoTransition
<1>2. Candidates /\ Lifecycle /\ OnCommitted /\ DrainedIsIdle
  BY DomainsAssumption DEF Init, Candidates, Lifecycle, OnCommitted, DrainedIsIdle, NoRequest, NoTransition
<1>3. \A d \in Domains : Inside(d) = {} /\ active[d] = 0
  BY DEF Init, Inside, NoRequest
<1>4. ActiveCountsRequests
  BY <1>3, FS_EmptySet DEF ActiveCountsRequests
<1> QED
  BY <1>1, <1>2, <1>4 DEF DomainInv

\* The invariant is inductive.
LEMMA StepInv == DomainInv /\ [Next]_vars => DomainInv'
<1> SUFFICES ASSUME DomainInv, [Next]_vars PROVE DomainInv'
  OBVIOUS
<1>1. TypeOK' /\ ActiveCountsRequests'
  BY TypeStep, CountStep
<1>2. Candidates' /\ Lifecycle' /\ OnCommitted'
  BY CandidatesStep, LifecycleStep, OnCommittedStep
<1>3. DrainedIsIdle'
  BY <1>1, DrainStep
<1> QED
  BY <1>1, <1>2, <1>3 DEF DomainInv

\* DomainInv holds in every reachable state.
LEMMA Invariance == Spec => []DomainInv
BY InitInv, StepInv, PTL DEF Spec

\* The counter a retirement reads is the number of requests inside the domain,
\* for any number of threads.
THEOREM CounterIsExact == Spec => []ActiveCountsRequests
<1>1. DomainInv => ActiveCountsRequests
  BY DEF DomainInv
<1> QED
  BY <1>1, Invariance, PTL

\* A request runs inside a disposed domain only if a release straddled the
\* retirement: that window is the only one.
THEOREM DrainIsSafe == Spec => []SafeDrain
<1>1. DomainInv => SafeDrain
  <2> SUFFICES ASSUME DomainInv, NEW r \in Requests, req[r].pc = "running",
                      req[r].dom \in disposed, req[r].dom \notin straddled
               PROVE  FALSE
    BY DEF SafeDrain
  <2>1. req[r].dom \in Domains /\ (req[r].dom = current \/ task[req[r].dom] # "none")
    BY DEF DomainInv, OnCommitted
  <2>2. req[r].dom \in drained /\ req[r].dom \in retired
    BY <2>1 DEF DomainInv, Lifecycle
  <2> QED
    BY <2>2 DEF DomainInv, DrainedIsIdle, At
<1> QED
  BY <1>1, Invariance, PTL

\* New requests always find a domain that is open, whatever transitions are
\* under way.
THEOREM CurrentStaysOpen == Spec => []CurrentIsOpen
<1>1. DomainInv => CurrentIsOpen
  <2> SUFFICES ASSUME DomainInv, ~stopped PROVE current \notin retired \cup disposed
    BY DEF CurrentIsOpen
  <2>1. current \in Domains /\ task[current] = "none"
    BY DEF DomainInv, TypeOK, Lifecycle
  <2> QED
    BY <2>1 DEF DomainInv, Lifecycle
<1> QED
  BY <1>1, Invariance, PTL

-----------------------------------------------------------------------------
(* The execution plan                                                      *)

\* The reader past EnterLock is the lock holder, and how far it has got says
\* which of the two cached fields already belong to its snapshot.
LockProtocol ==
    \A r \in Readers :
        /\ reader[r].pc \in {"locked", "compiled", "stored"} <=> sync = r
        /\ reader[r].pc = "locked" => snapshot = Null \/ plan = snapshot
        /\ reader[r].pc = "compiled" => plan = reader[r].seen
        /\ reader[r].pc = "stored" => plan = reader[r].seen /\ snapshot = reader[r].seen

CacheInv == CacheTypeOK /\ LockProtocol /\ CacheCoherent

\* Nothing is cached at start and nobody is inside.
LEMMA CacheInvInit == CacheInit => CacheInv
BY CacheAssumption DEF CacheInit, CacheInv, CacheTypeOK, LockProtocol, CacheCoherent, Versions, Steps

\* Every step keeps the types.
LEMMA CacheTypeStep ==
    ASSUME CacheTypeOK, [CacheNext]_cacheVars
    PROVE  CacheTypeOK'
<1> USE CacheAssumption DEF CacheTypeOK, Versions, Steps
<1>1. CASE UNCHANGED cacheVars
  BY <1>1 DEF cacheVars
<1>2. CASE Publish
  BY <1>2 DEF Publish
<1>3. ASSUME NEW r \in Readers, Current(r)
      PROVE  CacheTypeOK'
  <2>1. CASE ReadPublished(r)
    BY <2>1 DEF ReadPublished
  <2>2. CASE CompareUnlocked(r)
    BY <2>2 DEF CompareUnlocked, Goto
  <2>3. CASE ReturnUnlocked(r)
    BY <2>3 DEF ReturnUnlocked, Goto
  <2>4. CASE EnterLock(r)
    BY <2>4 DEF EnterLock, Goto
  <2>5. CASE StorePlan(r)
    BY <2>5 DEF StorePlan, Goto
  <2>6. CASE StoreSnapshot(r)
    BY <2>6 DEF StoreSnapshot, Goto
  <2>7. CASE ReturnLocked(r)
    BY <2>7 DEF ReturnLocked, Goto
  <2> QED
    BY <1>3, <2>1, <2>2, <2>3, <2>4, <2>5, <2>6, <2>7 DEF Current
<1> QED
  BY <1>1, <1>2, <1>3 DEF CacheNext

\* Every step of a reader keeps the lock protocol and the coherence.
LEMMA ProtocolStep ==
    ASSUME CacheInv, [CacheNext]_cacheVars
    PROVE  LockProtocol' /\ CacheCoherent'
<1> USE CacheAssumption DEF CacheInv, CacheTypeOK, LockProtocol, CacheCoherent
<1>1. CASE UNCHANGED cacheVars
  BY <1>1 DEF cacheVars
<1>2. CASE Publish
  BY <1>2 DEF Publish
<1>3. ASSUME NEW r \in Readers, Current(r)
      PROVE  LockProtocol' /\ CacheCoherent'
  <2>1. CASE ReadPublished(r)
    BY <2>1 DEF ReadPublished
  <2>2. CASE CompareUnlocked(r)
    BY <2>2 DEF CompareUnlocked, Goto
  <2>3. CASE ReturnUnlocked(r)
    BY <2>3 DEF ReturnUnlocked, Goto
  <2>4. CASE EnterLock(r)
    BY <2>4 DEF EnterLock, Goto, Versions
  <2>5. CASE StorePlan(r)
    BY <2>5 DEF StorePlan, Goto
  <2>6. CASE StoreSnapshot(r)
    BY <2>6 DEF StoreSnapshot, Goto
  <2>7. CASE ReturnLocked(r)
    BY <2>7 DEF ReturnLocked, Goto
  <2> QED
    BY <1>3, <2>1, <2>2, <2>3, <2>4, <2>5, <2>6, <2>7 DEF Current
<1> QED
  BY <1>1, <1>2, <1>3 DEF CacheNext

\* CacheInv holds in every reachable state.
LEMMA CacheInvariance == CacheSpec => []CacheInv
<1>1. CacheInv /\ [CacheNext]_cacheVars => CacheInv'
  BY CacheTypeStep, ProtocolStep DEF CacheInv
<1> QED
  BY <1>1, CacheInvInit, PTL DEF CacheSpec

\* Out of the lock, the cached plan is the plan of the cached snapshot.
THEOREM CacheStaysCoherent == CacheSpec => []CacheCoherent
<1>1. CacheInv => CacheCoherent
  BY DEF CacheInv
<1> QED
  BY <1>1, CacheInvariance, PTL

\* A reader leaves the lock with the plan of the snapshot it read.
THEOREM LockedAnswersAreExact == CacheSpec => []LockedAnswerExact
<1>1. CacheInv => LockedAnswerExact
  BY DEF CacheInv, LockProtocol, LockedAnswerExact
<1> QED
  BY <1>1, CacheInvariance, PTL
=============================================================================
