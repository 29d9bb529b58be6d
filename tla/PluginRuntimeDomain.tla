------------------------ MODULE PluginRuntimeDomain ------------------------
(***************************************************************************)
(* The swap of plugin runtime domains under traffic.  A request leases the *)
(* current domain (its service provider and middleware), a transition      *)
(* prepares a candidate, swaps it in and retires the previous one, which   *)
(* is disposed once its requests have drained.  No lock is taken: the code *)
(* uses one counter, one flag and one completion source per domain, and    *)
(* every interlocked or volatile access is a step here.                    *)
(***************************************************************************)
EXTENDS Naturals, FiniteSets

CONSTANTS
    Requests,       \* request threads
    Transitions,    \* callers of PrepareAsync / CommitAsync
    Domains,        \* domain objects a run may create (bound)
    Empty,          \* PluginRuntimeDomain.Empty, the first current domain
    None            \* no domain

ASSUME DomainsAssumption ==
    /\ IsFiniteSet(Requests)
    /\ Empty \in Domains
    /\ None \notin Domains

VARIABLES
    current,    \* PluginRuntimeDomainManager._current
    made,       \* the domains constructed so far
    retired,    \* the domains whose _retired is 1
    active,     \* _activeRequests of each domain
    drained,    \* the domains whose _drained task is completed
    disposed,   \* the domains whose _disposed is 1
    task,       \* progress of RetireAndDisposeAsync on each domain
    req,        \* each request: where it is, on which domain, whether it got its lease
    tr,         \* each transition: where it is and its candidate
    stopped,    \* the host has stopped
    straddled   \* history: retired while a Release sat between its decrement and its read of _retired

reqVars == <<active, req>>
vars == <<current, made, retired, active, drained, disposed, task, req, tr, stopped, straddled>>

TaskSteps == {"none", "start", "count", "wait", "done"}
RequestSteps == {"idle", "load", "check", "enter", "recheck", "running", "release", "signal"}

TypeOK ==
    /\ current \in Domains
    /\ made \subseteq Domains
    /\ retired \subseteq Domains /\ drained \subseteq Domains
    /\ disposed \subseteq Domains /\ straddled \subseteq Domains
    /\ active \in [Domains -> Nat]
    /\ task \in [Domains -> TaskSteps]
    /\ req \in [Requests -> [pc : RequestSteps, dom : Domains \cup {None}, won : BOOLEAN]]
    /\ tr \in [Transitions -> [pc : {"idle", "prepared", "healthy"}, cand : Domains \cup {None}]]
    /\ stopped \in BOOLEAN

NoRequest == [pc |-> "idle", dom |-> None, won |-> FALSE]
NoTransition == [pc |-> "idle", cand |-> None]

Init ==
    /\ current = Empty
    /\ made = {Empty}
    /\ retired = {} /\ drained = {} /\ disposed = {} /\ straddled = {}
    /\ active = [d \in Domains |-> 0]
    /\ task = [d \in Domains |-> "none"]
    /\ req = [r \in Requests |-> NoRequest]
    /\ tr = [t \in Transitions |-> NoTransition]
    /\ stopped = FALSE

-----------------------------------------------------------------------------
(* Transitions *)

\* A candidate is built; a build that throws leaves nothing behind.
PrepareAsync(t) ==
    /\ ~stopped /\ tr[t].pc = "idle"
    /\ \E d \in Domains \ made :
         /\ made' = made \cup {d}
         /\ tr' = [tr EXCEPT ![t] = [pc |-> "prepared", cand |-> d]]
    /\ UNCHANGED <<current, retired, drained, disposed, task, reqVars, stopped, straddled>>

CheckHealthAsync(t) ==
    /\ tr[t].pc = "prepared"
    /\ tr' = [tr EXCEPT ![t].pc = "healthy"]
    /\ UNCHANGED <<current, made, retired, drained, disposed, task, reqVars, stopped, straddled>>

\* The candidate is unhealthy, or the caller is cancelled before the swap: the
\* preparation disposes it.
DisposeCandidate(t) ==
    /\ tr[t].pc \in {"prepared", "healthy"}
    /\ disposed' = disposed \cup {tr[t].cand}
    /\ tr' = [tr EXCEPT ![t] = NoTransition]
    /\ UNCHANGED <<current, made, retired, drained, task, reqVars, stopped, straddled>>

\* Mutant: the new domain is retired in place of the old.
CommitAsync_RetiresCandidate(t) ==
    /\ tr[t].pc = "healthy"
    /\ current' = tr[t].cand
    /\ task' = [task EXCEPT ![tr[t].cand] = "start"]
    /\ tr' = [tr EXCEPT ![t] = NoTransition]
    /\ UNCHANGED <<made, retired, drained, disposed, reqVars, stopped, straddled>>

\* Interlocked.Exchange(ref _current, candidate); the previous domain is
\* retired by a task nobody waits for.
CommitAsync(t) ==
    /\ tr[t].pc = "healthy"
    /\ current' = tr[t].cand
    /\ task' = [task EXCEPT ![current] = "start"]
    /\ tr' = [tr EXCEPT ![t] = NoTransition]
    /\ UNCHANGED <<made, retired, drained, disposed, reqVars, stopped, straddled>>

-----------------------------------------------------------------------------
(* RetireAndDisposeAsync *)

At(r, s, d) == req[r].pc = s /\ req[r].dom = d

\* Interlocked.Exchange(ref _retired, 1)
RetireExchange(d) ==
    /\ task[d] = "start"
    /\ retired' = retired \cup {d}
    /\ task' = [task EXCEPT ![d] = IF d \in retired THEN "wait" ELSE "count"]
    /\ straddled' = IF \E r \in Requests : At(r, "signal", d) THEN straddled \cup {d} ELSE straddled
    /\ UNCHANGED <<current, made, drained, disposed, reqVars, tr, stopped>>

\* Mutant: the counter is not read at retirement.
RetireCount_Skipped(d) ==
    /\ task[d] = "count"
    /\ task' = [task EXCEPT ![d] = "wait"]
    /\ UNCHANGED <<current, made, retired, drained, disposed, reqVars, tr, stopped, straddled>>

\* Volatile.Read(ref _activeRequests) == 0
RetireCount(d) ==
    /\ task[d] = "count"
    /\ drained' = IF active[d] = 0 THEN drained \cup {d} ELSE drained
    /\ task' = [task EXCEPT ![d] = "wait"]
    /\ UNCHANGED <<current, made, retired, disposed, reqVars, tr, stopped, straddled>>

\* await _drained.Task, then DisposeAsync
DisposeDrained(d) ==
    /\ task[d] = "wait"
    /\ d \in drained
    /\ disposed' = disposed \cup {d}
    /\ task' = [task EXCEPT ![d] = "done"]
    /\ UNCHANGED <<current, made, retired, drained, reqVars, tr, stopped, straddled>>

\* The container disposes the manager after the server has stopped serving.
ManagerDispose ==
    /\ ~stopped
    /\ \A r \in Requests : req[r].pc = "idle"
    /\ \A t \in Transitions : tr[t].pc = "idle"
    /\ stopped' = TRUE
    /\ task' = [task EXCEPT ![current] = "start"]
    /\ UNCHANGED <<current, made, retired, drained, disposed, reqVars, tr, straddled>>

-----------------------------------------------------------------------------
(* A request: InvokeCurrentPipelineAsync, TryAcquire, the pipeline, Release *)

Step(r, s) == req' = [req EXCEPT ![r].pc = s]
ReqOnly == UNCHANGED <<current, made, retired, disposed, task, tr, stopped, straddled>>

Arrive(r) ==
    /\ ~stopped /\ req[r].pc = "idle"
    /\ Step(r, "load")
    /\ UNCHANGED <<active, drained>> /\ ReqOnly

LoadCurrent(r) ==
    /\ req[r].pc = "load"
    /\ req' = [req EXCEPT ![r] = [pc |-> "check", dom |-> current, won |-> FALSE]]
    /\ UNCHANGED <<active, drained>> /\ ReqOnly

\* First read of _retired: a retired domain sends the request round the loop.
TryAcquireCheck(r) ==
    /\ req[r].pc = "check"
    /\ Step(r, IF req[r].dom \in retired THEN "load" ELSE "enter")
    /\ UNCHANGED <<active, drained>> /\ ReqOnly

\* Interlocked.Increment(ref _activeRequests)
TryAcquireEnter(r) ==
    /\ req[r].pc = "enter"
    /\ active' = [active EXCEPT ![req[r].dom] = @ + 1]
    /\ Step(r, "recheck")
    /\ UNCHANGED drained /\ ReqOnly

\* Mutant: the second read of _retired is dropped.
TryAcquireRecheck_Unchecked(r) ==
    /\ req[r].pc = "recheck"
    /\ req' = [req EXCEPT ![r].pc = "running", ![r].won = TRUE]
    /\ UNCHANGED <<active, drained>> /\ ReqOnly

\* Mutant: a request that finds the domain retired goes round without Release.
TryAcquireRecheck_NoRelease(r) ==
    /\ req[r].pc = "recheck"
    /\ IF req[r].dom \in retired
         THEN Step(r, "load")
         ELSE req' = [req EXCEPT ![r].pc = "running", ![r].won = TRUE]
    /\ UNCHANGED <<active, drained>> /\ ReqOnly

\* Second read of _retired: the lease is granted, or given back at once.
TryAcquireRecheck(r) ==
    /\ req[r].pc = "recheck"
    /\ IF req[r].dom \in retired
         THEN Step(r, "release")
         ELSE req' = [req EXCEPT ![r].pc = "running", ![r].won = TRUE]
    /\ UNCHANGED <<active, drained>> /\ ReqOnly

\* The pipeline has returned or thrown; the lease is disposed.
PipelineEnds(r) ==
    /\ req[r].pc = "running"
    /\ Step(r, "release")
    /\ UNCHANGED <<active, drained>> /\ ReqOnly

\* A request with a lease is finished, one without goes round the loop.
AfterRelease(r) == IF req[r].won THEN NoRequest ELSE [NoRequest EXCEPT !.pc = "load"]

\* Interlocked.Decrement(ref _activeRequests)
ReleaseDecrement(r) ==
    LET left == active[req[r].dom] - 1 IN
    /\ req[r].pc = "release"
    /\ active' = [active EXCEPT ![req[r].dom] = left]
    /\ req' = [req EXCEPT ![r] = IF left = 0 THEN [@ EXCEPT !.pc = "signal"] ELSE AfterRelease(r)]
    /\ UNCHANGED drained /\ ReqOnly

\* The counter was 0: read _retired and complete _drained.
ReleaseSignal(r) ==
    /\ req[r].pc = "signal"
    /\ drained' = IF req[r].dom \in retired THEN drained \cup {req[r].dom} ELSE drained
    /\ req' = [req EXCEPT ![r] = AfterRelease(r)]
    /\ UNCHANGED active /\ ReqOnly

-----------------------------------------------------------------------------
Transition(t) == PrepareAsync(t) \/ CheckHealthAsync(t) \/ DisposeCandidate(t) \/ CommitAsync(t)
Retirement(d) == RetireExchange(d) \/ RetireCount(d) \/ DisposeDrained(d)
InFlight(r) ==
    \/ LoadCurrent(r) \/ TryAcquireCheck(r) \/ TryAcquireEnter(r) \/ TryAcquireRecheck(r)
    \/ PipelineEnds(r) \/ ReleaseDecrement(r) \/ ReleaseSignal(r)

\* A stopped process may end at any moment.
Exited == stopped /\ UNCHANGED vars

Next ==
    \/ \E t \in Transitions : Transition(t)
    \/ \E d \in Domains : Retirement(d)
    \/ \E r \in Requests : Arrive(r) \/ InFlight(r)
    \/ ManagerDispose
    \/ Exited

Spec == Init /\ [][Next]_vars

\* A thread that is in the middle of a request or of a retirement is scheduled
\* again, and a proxied request ends (it has a timeout).  Nothing is assumed of
\* arrivals or of operators.
FairSpec ==
    /\ Spec
    /\ \A d \in Domains : WF_vars(Retirement(d))
    /\ \A r \in Requests : WF_vars(InFlight(r))

-----------------------------------------------------------------------------
(* Properties *)

\* The requests that have incremented the counter of d and not yet decremented it.
Inside(d) == {r \in Requests : req[r].dom = d /\ req[r].pc \in {"recheck", "running", "release"}}

\* The counter a retirement reads is the number of requests inside the domain:
\* no early return of TryAcquire or Release loses or doubles a count.
ActiveCountsRequests == \A d \in Domains : active[d] = Cardinality(Inside(d))

\* A request is never inside a disposed domain, unless a Release of that
\* domain had decremented the counter to zero and not yet read _retired when
\* the domain was retired.
SafeDrain ==
    \A r \in Requests :
        req[r].pc = "running" /\ req[r].dom \in disposed => req[r].dom \in straddled

\* While the gateway serves, the domain new requests are sent to is neither
\* retired nor disposed, so the acquire loop has somewhere to go.
CurrentIsOpen == ~stopped => current \notin retired \cup disposed

\* Every retired domain is disposed in the end: no interleaving of the last
\* Release with the retirement loses the completion of _drained.
RetiredIsDisposed == \A d \in Domains : (d \in retired) ~> (d \in disposed)

\* Every request gets a lease: swaps cannot keep it in the acquire loop.
RequestAdmitted == \A r \in Requests : (req[r].pc = "load") ~> (req[r].pc = "running")

=============================================================================
