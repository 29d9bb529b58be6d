--------------------------- MODULE LogPersistence ---------------------------
(***************************************************************************)
(* How the proxy's log entries get into the database.  The middleware      *)
(* hands each entry to a bounded channel (ProxyLogStore.Add); a consumer   *)
(* loop (AsyncLogPersistenceService) takes batches from it and writes each *)
(* in a transaction, up to three times.  PluginResourceLifecycleCoordinator *)
(* starts and stops the loop: its own loop once a second, a request that   *)
(* switches the plugin, and the host that shuts down, one at a time.       *)
(*                                                                         *)
(* Entries are numbered in the order the channel accepts them: the channel *)
(* holds taken + 1 .. added.  A stop whose caller gives up forgets the     *)
(* loop while it still drains, or before it runs, so a later start makes a *)
(* second one.                                                             *)
(* The ring buffer of recent entries, the hourly cleanup, which changes    *)
(* nothing here, and the counter of written entries are left out.          *)
(***************************************************************************)
EXTENDS Naturals, FiniteSets

CONSTANTS
  Capacity,    \* of the channel (1000 in the code)
  BatchSize,   \* entries of a batch (100)
  Attempts,    \* writes of a batch (3)
  MaxEntries,  \* bound: entries handed over
  MaxFaults,   \* bound: writes that fail
  MaxOps,      \* bound: changes of the plugin and its bindings
  MaxLoops     \* bound: consumer loops started

ASSUME PersistenceAssumption ==
  /\ {Capacity, BatchSize, Attempts} \subseteq Nat \ {0}
  /\ {MaxEntries, MaxFaults, MaxOps, MaxLoops} \subseteq Nat

Entries == 1..MaxEntries
Loops == 1..MaxLoops
Callers == {"loop", "request", "host"}

VARIABLES
  added,     \* entries the channel has accepted
  taken,     \* entries the consumers have read
  dropped,   \* DroppedCount
  loop,      \* the consumer loops: where each is, its batch, whose token it looks at
  cancelled, \* starts whose token has been cancelled
  rows,      \* rows of the database for each entry
  task,      \* _consumeTask and _cts: the start they are of, 0 for null
  started,   \* loops started
  faulted,   \* _lastError is set
  enabled,   \* the plugin is enabled
  bound,     \* a route has an enabled binding of the plugin
  caller,    \* who calls StartResourceAsync and StopResourceAsync
  ops,       \* changes so far (bound MaxOps)
  faults,    \* writes that have failed
  lost,      \* history: entries taken that no one will write
  gaveUp     \* history: a caller has given up on a stop

channel == <<added, taken, dropped>>
resource == <<task, started, cancelled, faulted, gaveUp>>
settings == <<enabled, bound>>
vars == <<channel, loop, rows, resource, settings, caller, ops, faults, lost>>

Live(c) == loop[c].pc \notin {"none", "done"}

\* The token a loop looks at is cancelled.
Told(c) == loop[c].token \in cancelled

\* The entries a loop still has to write.  Its batch keeps those it has written until
\* the next one is begun.
Pending(c) == IF loop[c].pc \in {"fill", "write", "backoff", "drain"} THEN loop[c].batch ELSE {}

-----------------------------------------------------------------------------
(* ProxyLogStore.Add                                                       *)

\* While PersistenceEnabled.  A full channel drops the entry: no request waits.
Add ==
  /\ added + dropped < MaxEntries
  /\ IF added - taken < Capacity
       THEN added' = added + 1 /\ UNCHANGED dropped
       ELSE dropped' = dropped + 1 /\ UNCHANGED added
  /\ UNCHANGED <<taken, loop, rows, resource, settings, caller, ops, faults, lost>>

-----------------------------------------------------------------------------
(* AsyncLogPersistenceService.ConsumeLoopAsync                             *)

Untouched == UNCHANGED <<added, dropped, resource, settings, caller, ops>>

Ended == [pc |-> "done", batch |-> {}, attempt |-> 0, token |-> 0, draining |-> TRUE, last |-> FALSE]

\* The pool runs what Task.Run was given, which reads _cts only now: it is that of the
\* current start, or null, and the task fails, when its own was given up on before.
Run(c) ==
  /\ loop[c].pc = "queued"
  /\ loop' = [loop EXCEPT ![c] = IF task = 0 THEN Ended ELSE [@ EXCEPT !.pc = "wait", !.token = task]]
  /\ UNCHANGED <<taken, rows, faults, lost>> /\ Untouched

Take(c, pc, batch) ==
  /\ taken < added
  /\ taken' = taken + 1
  /\ loop' = [loop EXCEPT ![c].pc = pc, ![c].batch = batch \cup {taken + 1}]
  /\ UNCHANGED <<rows, faults, lost>>

\* Mutant of Wake: the batch that was written is not cleared.
Wake_KeepsBatch(c) ==
  /\ loop[c].pc = "wait" /\ ~Told(c)
  /\ Take(c, "fill", loop[c].batch)
  /\ Untouched

\* WaitToReadAsync and the first entry of a new batch.
Wake(c) ==
  /\ loop[c].pc = "wait" /\ ~Told(c)
  /\ Take(c, "fill", {})
  /\ Untouched

Fill(c) ==
  /\ loop[c].pc = "fill" /\ Cardinality(loop[c].batch) < BatchSize
  /\ Take(c, "fill", loop[c].batch)
  /\ Untouched

\* The batch is full, or its 500 milliseconds have passed.
Flush(c) ==
  /\ loop[c].pc = "fill"
  /\ loop' = [loop EXCEPT ![c].pc = "write", ![c].attempt = 1]
  /\ UNCHANGED <<taken, rows, faults, lost>> /\ Untouched

\* The finally block begins a new batch.
Drained(l) == [l EXCEPT !.pc = "drain", !.draining = TRUE, !.attempt = 0, !.batch = {}]

\* Where a loop goes on when FlushBatchAsync returns.
Flushed(l) ==
  IF ~l.draining THEN [l EXCEPT !.pc = "wait", !.attempt = 0]
  ELSE IF l.last THEN Ended ELSE Drained(l)

\* The transaction commits; every call of it looks at the token, the commit last.
WriteCommits(c) ==
  /\ loop[c].pc = "write" /\ (Told(c) => loop[c].draining)
  /\ rows' = [n \in Entries |-> IF n \in loop[c].batch THEN rows[n] + 1 ELSE rows[n]]
  /\ loop' = [loop EXCEPT ![c] = Flushed(@)]
  /\ UNCHANGED <<taken, faults, lost>> /\ Untouched

\* Mutant of Retries: one attempt fewer.
Retries_OffByOne(l) == l.attempt + 1 < Attempts

Retries(l) == l.attempt < Attempts

\* It is rolled back: another attempt after a pause, or the batch is given up.
WriteFails(c) ==
  /\ loop[c].pc = "write" /\ faults < MaxFaults
  /\ faults' = faults + 1
  /\ IF Retries(loop[c])
       THEN loop' = [loop EXCEPT ![c].pc = "backoff"] /\ UNCHANGED lost
       ELSE loop' = [loop EXCEPT ![c] = Flushed(@)] /\ lost' = lost \cup loop[c].batch
  /\ UNCHANGED <<taken, rows>> /\ Untouched

BackoffElapses(c) ==
  /\ loop[c].pc = "backoff"
  /\ loop' = [loop EXCEPT ![c].pc = "write", ![c].attempt = @ + 1]
  /\ UNCHANGED <<taken, rows, faults, lost>> /\ Untouched

\* Mutant of Cancelled: WaitToReadAsync has no token.
Cancelled_NotWaiting(c) ==
  /\ loop[c].pc \in {"write", "backoff"} /\ Told(c) /\ ~loop[c].draining
  /\ lost' = lost \cup Pending(c)
  /\ loop' = [loop EXCEPT ![c] = Drained(@)]
  /\ UNCHANGED <<taken, rows, faults>> /\ Untouched

\* The token ends the waiting, or the write or the pause of a flush, which the finally
\* block follows: it clears the batch.
Cancelled(c) ==
  /\ loop[c].pc \in {"wait", "write", "backoff"} /\ Told(c) /\ ~loop[c].draining
  /\ lost' = lost \cup Pending(c)
  /\ loop' = [loop EXCEPT ![c] = Drained(@)]
  /\ UNCHANGED <<taken, rows, faults>> /\ Untouched

\* A full batch is flushed with no token, and the next one is begun.
DrainTake(c) ==
  /\ loop[c].pc = "drain" /\ Cardinality(loop[c].batch) < BatchSize
  /\ Take(c, "drain", loop[c].batch)
  /\ Untouched

DrainFlush(c) ==
  /\ loop[c].pc = "drain" /\ loop[c].batch # {}
  /\ Cardinality(loop[c].batch) = BatchSize \/ taken = added
  /\ loop' = [loop EXCEPT ![c].pc = "write", ![c].attempt = 1,
                          ![c].last = Cardinality(loop[c].batch) < BatchSize]
  /\ UNCHANGED <<taken, rows, faults, lost>> /\ Untouched

DrainEnds(c) ==
  /\ loop[c].pc = "drain" /\ loop[c].batch = {} /\ taken = added
  /\ loop' = [loop EXCEPT ![c] = Ended]
  /\ UNCHANGED <<taken, rows, faults, lost>> /\ Untouched

LoopStep(c) ==
  \/ Run(c) \/ Wake(c) \/ Fill(c) \/ Flush(c)
  \/ WriteCommits(c) \/ WriteFails(c) \/ BackoffElapses(c) \/ Cancelled(c)
  \/ DrainTake(c) \/ DrainFlush(c) \/ DrainEnds(c)

-----------------------------------------------------------------------------
(* StartResourceAsync and StopResourceAsync, as ReconcileAsync calls them  *)

ShouldRun == enabled /\ bound

Running == task # 0 /\ loop[task].pc # "done"

Health == IF faulted THEN "Faulted" ELSE IF Running THEN "Healthy" ELSE "Stopped"

\* Callers at these phases hold _reconcileLock.
LockFree == \A a \in Callers : caller[a] \notin {"stopping", "undoing"}

Start ==
  /\ started < MaxLoops
  /\ started' = started + 1 /\ task' = started + 1 /\ faulted' = FALSE
  /\ loop' = [loop EXCEPT ![started + 1].pc = "queued"]
  /\ UNCHANGED <<cancelled, gaveUp>>

\* Mutant of BeginStop: the token is not cancelled.
BeginStop_NoCancel == UNCHANGED <<loop, resource>>

\* The part of a stop before it waits for the loop.
BeginStop ==
  /\ cancelled' = cancelled \cup {task}
  /\ UNCHANGED <<loop, task, started, faulted, gaveUp>>

\* Mutant of Starts: what has failed is not started again.
Starts_OnlyStopped == ShouldRun /\ Health = "Stopped"

Starts == ShouldRun /\ ~Running

Stops == ~ShouldRun /\ Health # "Stopped" /\ task # 0

\* One reconciliation by a, which goes to "after" unless it has to wait for a stop.
Reconcile(a, waiting, after) ==
  /\ LockFree
  /\ \/ Starts /\ Start /\ caller' = [caller EXCEPT ![a] = after]
     \/ Stops /\ BeginStop /\ caller' = [caller EXCEPT ![a] = waiting]
     \/ ~Starts /\ ~Stops /\ caller' = [caller EXCEPT ![a] = after] /\ UNCHANGED <<loop, resource>>
  /\ UNCHANGED <<channel, rows, settings, ops, faults, lost>>

\* Where a caller goes on after a stop.
AfterStop(a) ==
  CASE a = "host" -> "released"
    [] a = "request" /\ caller[a] = "stopping" -> "refreshing"
    [] OTHER -> "idle"

\* Mutant of StopFinishes: the loop is not waited for.
StopFinishes_AtOnce(a) ==
  /\ caller[a] \in {"stopping", "undoing"}
  /\ task' = 0
  /\ caller' = [caller EXCEPT ![a] = AfterStop(a)]
  /\ UNCHANGED <<channel, loop, rows, started, cancelled, faulted, gaveUp, settings, ops, faults, lost>>

\* The loop has ended.
StopFinishes(a) ==
  /\ caller[a] \in {"stopping", "undoing"} /\ loop[task].pc = "done"
  /\ task' = 0
  /\ caller' = [caller EXCEPT ![a] = AfterStop(a)]
  /\ UNCHANGED <<channel, loop, rows, started, cancelled, faulted, gaveUp, settings, ops, faults, lost>>

\* The caller's token fires first: the loop is forgotten as it drains.  The request's
\* fires when its client goes, the host's after its shutdown timeout, the coordinator's
\* when the host stops it.
StopAborted(a) ==
  /\ caller[a] = "stopping" /\ loop[task].pc # "done"
  /\ a = "loop" => caller["host"] = "ended"
  /\ faulted' = TRUE /\ task' = 0 /\ gaveUp' = TRUE
  /\ caller' = [caller EXCEPT ![a] = AfterStop(a)]
  /\ UNCHANGED <<channel, loop, rows, started, cancelled, settings, ops, faults, lost>>

-----------------------------------------------------------------------------
(* The coordinator's loop, PluginsController.TogglePlugin and the host     *)

CoordinatorStep == caller["loop"] = "idle" /\ caller["host"] # "ended" /\ Reconcile("loop", "stopping", "idle")

TogglePlugin ==
  /\ ops < MaxOps /\ caller["request"] = "idle"
  /\ enabled' = ~enabled /\ ops' = ops + 1
  /\ caller' = [caller EXCEPT !["request"] = "switching"]
  /\ UNCHANGED <<channel, loop, rows, resource, bound, faults, lost>>

ToggleReconciles == caller["request"] = "switching" /\ Reconcile("request", "stopping", "refreshing")

\* RefreshConfig has published, and the switch is answered.
ToggleEnds ==
  /\ caller["request"] = "refreshing"
  /\ caller' = [caller EXCEPT !["request"] = "idle"]
  /\ UNCHANGED <<channel, loop, rows, resource, settings, ops, faults, lost>>

\* The commit of the domain fails, the client goes as the request waits for the lock or
\* for the stop, or RefreshConfig throws: the plugin is switched back.
ToggleFails ==
  /\ caller["request"] \in {"switching", "refreshing"}
  /\ enabled' = ~enabled
  /\ caller' = [caller EXCEPT !["request"] = "reverting"]
  /\ UNCHANGED <<channel, loop, rows, resource, bound, ops, faults, lost>>

\* This reconciliation has no token.
RevertReconciles == caller["request"] = "reverting" /\ Reconcile("request", "undoing", "idle")

\* The publication of a configuration in which a route gains the binding or loses it.
BindingChanged ==
  /\ ops < MaxOps
  /\ bound' = ~bound /\ ops' = ops + 1
  /\ UNCHANGED <<channel, loop, rows, resource, enabled, caller, faults, lost>>

\* PluginResourceLifecycleCoordinator.StopAsync stops the consumer before its own loop.
StopAsync ==
  /\ caller["host"] = "idle" /\ LockFree
  /\ IF task # 0
       THEN BeginStop /\ caller' = [caller EXCEPT !["host"] = "stopping"]
       ELSE caller' = [caller EXCEPT !["host"] = "released"] /\ UNCHANGED <<loop, resource>>
  /\ UNCHANGED <<channel, rows, settings, ops, faults, lost>>

\* base.StopAsync.
StopCoordinator ==
  /\ caller["host"] = "released"
  /\ caller' = [caller EXCEPT !["host"] = "ended"]
  /\ UNCHANGED <<channel, loop, rows, resource, settings, ops, faults, lost>>

-----------------------------------------------------------------------------

Unstarted == [pc |-> "none", batch |-> {}, attempt |-> 0, token |-> 0, draining |-> FALSE, last |-> FALSE]

Init ==
  /\ added = 0 /\ taken = 0 /\ dropped = 0
  /\ loop = [c \in Loops |-> Unstarted]
  /\ rows = [n \in Entries |-> 0]
  /\ task = 0 /\ started = 0 /\ cancelled = {} /\ faulted = FALSE /\ gaveUp = FALSE
  /\ enabled \in BOOLEAN /\ bound \in BOOLEAN
  /\ caller = [a \in Callers |-> "idle"]
  /\ ops = 0 /\ faults = 0 /\ lost = {}

Next ==
  \/ Add
  \/ \E c \in Loops : LoopStep(c)
  \/ CoordinatorStep
  \/ TogglePlugin \/ ToggleReconciles \/ ToggleEnds \/ ToggleFails \/ RevertReconciles
  \/ BindingChanged
  \/ StopAsync \/ StopCoordinator
  \/ \E a \in Callers : StopFinishes(a) \/ StopAborted(a)

Spec == Init /\ [][Next]_vars

\* The tasks run; the coordinator wakes every second; the semaphore lets a waiting request
\* in.  Nobody has to switch, bind or stop anything, or to lose patience.
FairSpec ==
  /\ Spec
  /\ \A c \in Loops : WF_vars(LoopStep(c))
  /\ WF_vars(CoordinatorStep) /\ WF_vars(ToggleReconciles) /\ WF_vars(ToggleEnds) /\ WF_vars(RevertReconciles)
  /\ \A a \in Callers : WF_vars(StopFinishes(a))

-----------------------------------------------------------------------------

LoopState ==
  [pc: {"none", "queued", "wait", "fill", "write", "backoff", "drain", "done"}, batch: SUBSET Entries,
   attempt: 0..Attempts, token: 0..MaxLoops, draining: BOOLEAN, last: BOOLEAN]

\* The channel holds at most Capacity entries, a batch is tried at most Attempts times, and
\* the consumer is one of the loops started (ProxyLogStore, AsyncLogPersistenceService).
TypeOK ==
  /\ added \in 0..MaxEntries /\ taken \in 0..added /\ dropped \in 0..MaxEntries
  /\ added - taken <= Capacity
  /\ loop \in [Loops -> LoopState] /\ rows \in [Entries -> Nat]
  /\ started \in 0..MaxLoops /\ task \in 0..started /\ cancelled \in SUBSET Loops
  /\ faulted \in BOOLEAN /\ gaveUp \in BOOLEAN /\ enabled \in BOOLEAN /\ bound \in BOOLEAN
  /\ caller \in [Callers -> {"idle", "switching", "stopping", "refreshing", "reverting", "undoing", "released", "ended"}]
  /\ ops \in 0..MaxOps /\ faults \in 0..MaxFaults /\ lost \in SUBSET Entries

\* Every entry that left the channel is in exactly one place: in the database once, in the
\* hands of one loop, or given up.  Stops, retries and forgotten loops neither lose track
\* of an entry nor write it twice (AsyncLogPersistenceService.ConsumeLoopAsync).
EntriesAccounted ==
  \A n \in Entries :
    /\ n <= taken <=> rows[n] = 1 \/ n \in lost \/ \E c \in Loops : n \in Pending(c)
    /\ rows[n] <= 1
    /\ n \in lost => rows[n] = 0
    /\ \A c \in Loops : n \in Pending(c) =>
         rows[n] = 0 /\ n \notin lost /\ \A d \in Loops : n \in Pending(d) => c = d

\* As long as nobody gives up on a stop, at most one consumer reads the channel, through
\* any stops, restarts and reconciliations of its three callers (ProxyLogStore's channel
\* is made with SingleReader = true).
OneReader == ~gaveUp => \A c, d \in Loops : Live(c) /\ Live(d) => c = d

\* No consumer is out of reach: even of the loops left behind by stops that were given up,
\* and of those that the pool ran so late that they got the token of another start, each
\* has been told to end or will be by the next stop (StartResourceAsync, StopResourceAsync).
StopsReachAll ==
  \A c \in Loops : Live(c) /\ loop[c].pc # "queued" => Told(c) \/ loop[c].token = task

\* As long as nobody gives up on a stop, the database receives the entries in the order the
\* proxy logged them: when one is there, each earlier one is there or was given up.
OrderKept ==
  ~gaveUp => \A n \in Entries : rows[n] # 0 => \A m \in 1..n : rows[m] # 0 \/ m \in lost

\* Where each entry is, for whom it is in the database once or not at all.
PlaceOf ==
  [n \in Entries |->
     CASE n > added -> "new"
       [] n > taken /\ n <= added -> "queued"
       [] n <= taken /\ n \in lost -> "lost"
       [] n <= taken /\ n \notin lost /\ rows[n] = 0 -> "held"
       [] n <= taken /\ n \notin lost /\ rows[n] = 1 -> "stored"
       [] OTHER -> "twice"]

Delivery == INSTANCE LogDelivery WITH place <- PlaceOf, patient <- ~gaveUp

\* The channel, the loops and the coordinator deliver the log: handed out in the order of
\* acceptance, batch by batch into the database or lost, neither ever taken back or repeated,
\* and in order as long as nobody gives up on a stop (ProxyLogStore, AsyncLogPersistenceService).
DeliversLog == Delivery!Spec

\* Entries that left the channel are given up only after a stop or after as many failed
\* writes as there are attempts (FlushBatchAsync).
NothingLostQuietly ==
  lost # {} => faults >= Attempts \/ cancelled # {}

\* While the plugin is enabled and bound and the host runs, a channel that holds entries is
\* eventually emptied, whatever became of earlier consumers (ReconcileAsync).
QueueMoves ==
  (taken < added) ~> (taken = added \/ ~ShouldRun \/ caller["host"] # "idle")

\* A loop that was told to end ends, with every write failing as often as it can: the stop
\* the coordinator waits for under its lock is over some day (ConsumeLoopAsync's finally).
StopsEnd ==
  (\E c \in Loops : Live(c) /\ Told(c)) ~> (\A c \in Loops : Live(c) => ~Told(c))
=============================================================================
