------------------------ MODULE LogPersistenceProofs ------------------------
(***************************************************************************)
(* Proofs about LogPersistence for any capacity, batch size and number of  *)
(* attempts, loops, faults and changes of the plugin.                      *)
(***************************************************************************)
EXTENDS LogPersistence, FiniteSetTheorems, TLAPS

LEMMA Constants ==
  /\ Capacity \in Nat \ {0} /\ BatchSize \in Nat \ {0} /\ Attempts \in Nat \ {0}
  /\ MaxEntries \in Nat /\ MaxFaults \in Nat /\ MaxOps \in Nat /\ MaxLoops \in Nat
BY PersistenceAssumption

\* A write that is tried again has failed before, and is not the last one.
AttemptsCounted ==
  \A c \in Loops :
    /\ loop[c].pc = "write" => loop[c].attempt <= faults + 1
    /\ loop[c].pc = "backoff" => loop[c].attempt < Attempts /\ loop[c].attempt <= faults

Typed == TypeOK /\ AttemptsCounted

LEMMA RecordsTyped ==
  /\ Ended \in LoopState
  /\ Unstarted \in LoopState
  /\ \A l \in LoopState : Flushed(l) \in LoopState /\ Drained(l) \in LoopState
<1>1. 0 \in 0..Attempts /\ 0 \in 0..MaxLoops
  BY Constants
<1>2. Ended \in LoopState /\ Unstarted \in LoopState
  BY <1>1 DEF Ended, Unstarted, LoopState
<1>3. ASSUME NEW l \in LoopState PROVE Drained(l) \in LoopState
  BY <1>1 DEF Drained, LoopState
<1>4. ASSUME NEW l \in LoopState PROVE Flushed(l) \in LoopState
  BY <1>1, <1>2, <1>3 DEF Flushed, LoopState
<1> QED BY <1>2, <1>3, <1>4

LEMMA InitTyped == Init => Typed
<1> SUFFICES ASSUME Init PROVE Typed
  OBVIOUS
<1>1. loop \in [Loops -> LoopState]
  BY RecordsTyped DEF Init
<1>2. AttemptsCounted
  BY DEF Init, AttemptsCounted, Unstarted
<1>3. rows \in [Entries -> Nat] /\ lost \in SUBSET Entries
  BY DEF Init
<1>4. caller \in [Callers -> {"idle", "switching", "stopping", "refreshing", "reverting", "undoing", "released", "ended"}]
  BY DEF Init
<1>5. /\ added \in 0..MaxEntries /\ taken \in 0..added /\ dropped \in 0..MaxEntries
      /\ added - taken <= Capacity /\ started \in 0..MaxLoops /\ task \in 0..started /\ cancelled \in SUBSET Loops
      /\ ops \in 0..MaxOps /\ faults \in 0..MaxFaults
  BY Constants DEF Init
<1>6. faulted \in BOOLEAN /\ gaveUp \in BOOLEAN /\ enabled \in BOOLEAN /\ bound \in BOOLEAN
  BY DEF Init
<1> QED BY <1>1, <1>2, <1>3, <1>4, <1>5, <1>6, Zenon DEF Typed, TypeOK

\* A loop's action puts l in the place of its record, and what that leaves typed.
Becomes(c, l) ==
  /\ l \in LoopState
  /\ loop' = [loop EXCEPT ![c] = l]
  /\ taken' \in 0..added /\ added - taken' <= Capacity
  /\ rows' \in [Entries -> Nat] /\ faults' \in faults..MaxFaults /\ lost' \in SUBSET Entries
  /\ l.pc = "write" => l.attempt <= faults' + 1
  /\ l.pc = "backoff" => l.attempt < Attempts /\ l.attempt <= faults'

LEMMA LoopStepBecomes ==
  ASSUME Typed, NEW c \in Loops, LoopStep(c)
  PROVE  \E l : Becomes(c, l)
<1> DEFINE old == loop[c]
<1>0. old \in LoopState /\ loop \in [Loops -> LoopState]
  BY DEF Typed, TypeOK
<1>1. ASSUME NEW pc \in {"fill", "drain"}, NEW batch \in SUBSET Entries, Take(c, pc, batch)
      PROVE  \E l : Becomes(c, l)
  <2>1. taken + 1 \in Entries
    <3>1. taken < added /\ taken \in 0..added /\ added \in 0..MaxEntries
      BY <1>1 DEF Take, Typed, TypeOK
    <3> QED BY <3>1, Constants DEF Entries
  <2> DEFINE l == [old EXCEPT !.pc = pc, !.batch = batch \cup {taken + 1}]
  <2>2. l \in LoopState /\ l.pc = pc
    BY <1>0, <2>1 DEF LoopState
  <2>3. loop' = [loop EXCEPT ![c] = l]
    BY <1>1, <1>0 DEF Take, LoopState
  <2>4. taken' \in 0..added /\ added - taken' <= Capacity
    BY <1>1, Constants DEF Take, Typed, TypeOK
  <2>5. rows' \in [Entries -> Nat] /\ faults' \in faults..MaxFaults /\ lost' \in SUBSET Entries
    BY <1>1, Constants DEF Take, Typed, TypeOK
  <2>6. Becomes(c, l)
    BY <2>2, <2>3, <2>4, <2>5 DEF Becomes
  <2> QED BY <2>6
<1>2. ASSUME NEW l \in LoopState, l.pc \notin {"write", "backoff"},
             loop' = [loop EXCEPT ![c] = l], UNCHANGED taken, rows' \in [Entries -> Nat],
             faults' \in faults..MaxFaults, lost' \in SUBSET Entries
      PROVE  \E m : Becomes(c, m)
  <2>1. Becomes(c, l)
    BY <1>2 DEF Becomes, Typed, TypeOK
  <2> QED BY <2>1
<1>3. faults \in faults..MaxFaults /\ faults \in Nat /\ rows \in [Entries -> Nat] /\ lost \in SUBSET Entries
  BY Constants DEF Typed, TypeOK
<1>4. old.batch \in SUBSET Entries /\ Flushed(old) \in LoopState /\ Drained(old) \in LoopState
      /\ Ended \in LoopState /\ old.attempt \in 0..Attempts
  BY <1>0, RecordsTyped DEF LoopState
<1>5. Flushed(old).pc \notin {"write", "backoff"} /\ Drained(old).pc \notin {"write", "backoff"}
      /\ Ended.pc \notin {"write", "backoff"}
  BY <1>0 DEF Flushed, Drained, Ended, LoopState
<1>6. ASSUME NEW last \in BOOLEAN,
             loop' = [loop EXCEPT ![c] = [old EXCEPT !.pc = "write", !.attempt = 1, !.last = last]],
             UNCHANGED <<taken, rows, faults, lost>>
      PROVE  \E l : Becomes(c, l)
  <2> DEFINE l == [old EXCEPT !.pc = "write", !.attempt = 1, !.last = last]
  <2>0. 1 \in 0..Attempts
    BY Constants
  <2>1. l \in LoopState /\ l.attempt = 1
    BY <1>0, <1>6, <2>0 DEF LoopState
  <2>2. loop' = [loop EXCEPT ![c] = l]
    BY <1>6
  <2>3. l.pc = "write"
    BY <1>0 DEF LoopState
  <2>4. l.attempt <= faults' + 1 /\ faults' = faults
    BY <1>6, <2>1, <1>3, Constants
  <2>5. Becomes(c, l)
    BY <1>6, <2>1, <2>2, <2>3, <2>4, <1>3 DEF Becomes, Typed, TypeOK
  <2> QED BY <2>5
<1>7. CASE Wake(c) \/ Fill(c) \/ DrainTake(c)
  BY <1>7, <1>1, <1>4 DEF Wake, Fill, DrainTake
<1>8. CASE Flush(c)
  <2> DEFINE last == old.last
  <2>1. last \in BOOLEAN
    BY <1>0 DEF LoopState
  <2>2. loop' = [loop EXCEPT ![c] = [old EXCEPT !.pc = "write", !.attempt = 1, !.last = last]]
    BY <1>8, <1>0 DEF Flush, LoopState
  <2>3. UNCHANGED <<taken, rows, faults, lost>>
    BY <1>8 DEF Flush
  <2> HIDE DEF last
  <2> QED BY <2>1, <2>2, <2>3, <1>6
<1>9. CASE DrainFlush(c)
  <2> DEFINE last == Cardinality(old.batch) < BatchSize
  <2>1. last \in BOOLEAN
    OBVIOUS
  <2>2. loop' = [loop EXCEPT ![c] = [old EXCEPT !.pc = "write", !.attempt = 1, !.last = last]]
    BY <1>9, <1>0 DEF DrainFlush, LoopState
  <2>3. UNCHANGED <<taken, rows, faults, lost>>
    BY <1>9 DEF DrainFlush
  <2> HIDE DEF last
  <2> QED BY <2>1, <2>2, <2>3, <1>6
<1>10. CASE WriteCommits(c)
  <2>1. rows' \in [Entries -> Nat]
    BY <1>10, <1>3 DEF WriteCommits
  <2> QED BY <1>10, <2>1, <1>2, <1>3, <1>4, <1>5 DEF WriteCommits
<1>11. CASE WriteFails(c)
  <2>1. faults' = faults + 1 /\ faults' \in faults..MaxFaults /\ UNCHANGED <<taken, rows>>
    BY <1>11, Constants, <1>3 DEF WriteFails, Typed, TypeOK
  <2>2. CASE Retries(old)
    <3> DEFINE l == [old EXCEPT !.pc = "backoff"]
    <3>1. l \in LoopState /\ l.pc = "backoff" /\ l.attempt = old.attempt
      BY <1>0 DEF LoopState
    <3>2. old.attempt < Attempts /\ old.attempt <= faults + 1
      BY <2>2, <1>11 DEF Retries, WriteFails, Typed, AttemptsCounted
    <3>3. loop' = [loop EXCEPT ![c] = l] /\ UNCHANGED lost
      BY <2>2, <1>11, <1>0 DEF WriteFails, LoopState
    <3>4. Becomes(c, l)
      BY <3>1, <3>2, <3>3, <2>1, <1>3 DEF Becomes, Typed, TypeOK
    <3> QED BY <3>4
  <2>3. CASE ~Retries(old)
    <3>1. lost' \in SUBSET Entries /\ loop' = [loop EXCEPT ![c] = Flushed(old)]
      BY <2>3, <1>11, <1>3, <1>4 DEF WriteFails
    <3> QED BY <3>1, <2>1, <1>2, <1>3, <1>4, <1>5
  <2> QED BY <2>2, <2>3
<1>12. CASE BackoffElapses(c)
  <2> DEFINE l == [old EXCEPT !.pc = "write", !.attempt = old.attempt + 1]
  <2>1. old.attempt < Attempts /\ old.attempt <= faults
    BY <1>12 DEF BackoffElapses, Typed, AttemptsCounted
  <2>2. old.attempt + 1 \in 0..Attempts
    BY <2>1, <1>4, Constants
  <2>3. l \in LoopState /\ l.pc = "write" /\ l.attempt = old.attempt + 1
    BY <2>2, <1>0 DEF LoopState
  <2>4. loop' = [loop EXCEPT ![c] = l] /\ UNCHANGED <<taken, rows, faults, lost>>
    BY <1>12, <1>0 DEF BackoffElapses, LoopState
  <2>5. l.attempt <= faults + 1
    BY <2>1, <2>3, <1>3, <1>4
  <2>6. Becomes(c, l)
    BY <2>3, <2>4, <2>5, <1>3 DEF Becomes, Typed, TypeOK
  <2> QED BY <2>6
<1>13. CASE Cancelled(c)
  <2>1. lost' \in SUBSET Entries
    BY <1>13, <1>3, <1>4 DEF Cancelled, Pending
  <2> QED BY <1>13, <2>1, <1>2, <1>3, <1>4, <1>5 DEF Cancelled
<1>14. CASE DrainEnds(c)
  BY <1>14, <1>2, <1>3, <1>4, <1>5 DEF DrainEnds
<1>15. CASE Run(c)
  <2>1. task \in 0..MaxLoops
    BY Constants DEF Typed, TypeOK
  <2> DEFINE l == IF task = 0 THEN Ended ELSE [old EXCEPT !.pc = "wait", !.token = task]
  <2>2. l \in LoopState /\ l.pc \notin {"write", "backoff"}
    BY <2>1, <1>0, <1>4, <1>5 DEF LoopState
  <2>3. loop' = [loop EXCEPT ![c] = l] /\ UNCHANGED <<taken, rows, faults, lost>>
    BY <1>15 DEF Run
  <2> HIDE DEF l
  <2> QED BY <2>2, <2>3, <1>2, <1>3
<1> QED
  BY <1>7, <1>8, <1>9, <1>10, <1>11, <1>12, <1>13, <1>14, <1>15 DEF LoopStep

LEMMA LoopStepTyped ==
  ASSUME Typed, NEW c \in Loops, LoopStep(c)
  PROVE  Typed'
<1>1. PICK l : Becomes(c, l)
  BY LoopStepBecomes
<1>2. Untouched
  BY DEF LoopStep, Run, Wake, Fill, Flush, WriteCommits, WriteFails, BackoffElapses, Cancelled,
         DrainTake, DrainFlush, DrainEnds
<1>3. loop' \in [Loops -> LoopState]
  BY <1>1 DEF Becomes, Typed, TypeOK
<1>4. AttemptsCounted'
  <2> SUFFICES ASSUME NEW d \in Loops
               PROVE  /\ loop'[d].pc = "write" => loop'[d].attempt <= faults' + 1
                      /\ loop'[d].pc = "backoff" => loop'[d].attempt < Attempts /\ loop'[d].attempt <= faults'
    BY DEF AttemptsCounted
  <2>1. faults' >= faults /\ faults' \in Nat /\ faults \in Nat
    BY <1>1, Constants DEF Becomes, Typed, TypeOK
  <2>2. CASE d = c
    BY <2>2, <1>1 DEF Becomes, Typed, TypeOK
  <2>3. CASE d # c
    <3>1. loop'[d] = loop[d] /\ loop[d].attempt \in Nat
      BY <2>3, <1>1, Constants DEF Becomes, Typed, TypeOK, LoopState
    <3> QED BY <3>1, <2>1 DEF Typed, AttemptsCounted
  <2> QED BY <2>2, <2>3
<1>5. /\ added \in Nat /\ added \in 0..MaxEntries /\ added' = added /\ faults \in Nat
  BY <1>2, Constants DEF Untouched, Typed, TypeOK
<1>6. /\ taken' \in 0..added' /\ added' \in 0..MaxEntries /\ added' - taken' <= Capacity
      /\ rows' \in [Entries -> Nat] /\ faults' \in 0..MaxFaults /\ lost' \in SUBSET Entries
  <2>1. /\ taken' \in 0..added /\ added - taken' <= Capacity
        /\ rows' \in [Entries -> Nat] /\ faults' \in faults..MaxFaults /\ lost' \in SUBSET Entries
    BY <1>1 DEF Becomes
  <2>2. faults' \in 0..MaxFaults
    BY <2>1, <1>5, Constants
  <2> QED BY <2>1, <2>2, <1>5
<1> QED BY <1>2, <1>3, <1>4, <1>6 DEF Untouched, resource, settings, Typed, TypeOK

\* The phases a caller can go to.
LEMMA PhasesTyped ==
  ASSUME Typed, NEW a \in Callers,
         NEW p \in {"idle", "switching", "stopping", "refreshing", "reverting", "undoing", "released", "ended"},
         caller' = [caller EXCEPT ![a] = p]
  PROVE  caller' \in [Callers -> {"idle", "switching", "stopping", "refreshing", "reverting", "undoing", "released", "ended"}]
BY DEF Typed, TypeOK

\* There is a loop after the last one started, below the bound.
LEMMA NextLoop ==
  ASSUME Typed, started < MaxLoops
  PROVE  /\ started + 1 \in Loops /\ started + 1 > started
         /\ started + 1 \in 0..MaxLoops /\ started + 1 \in 0..(started + 1)
<1>1. started \in 0..MaxLoops
  BY DEF Typed, TypeOK
<1> QED BY <1>1, Constants DEF Loops

\* A start puts one loop into the pool's queue; the beginning of a stop cancels a token.
LEMMA LifecycleTyped ==
  ASSUME Typed, Start \/ (BeginStop /\ task # 0) \/ UNCHANGED <<loop, resource>>, UNCHANGED faults
  PROVE  /\ loop' \in [Loops -> LoopState] /\ AttemptsCounted'
         /\ started' \in 0..MaxLoops /\ task' \in 0..started' /\ cancelled' \in SUBSET Loops
         /\ faulted' \in BOOLEAN /\ gaveUp' \in BOOLEAN
<1>1. CASE Start
  <2>1. started + 1 \in Loops /\ started' \in 0..MaxLoops /\ task' \in 0..started'
    BY <1>1, NextLoop DEF Start
  <2>2. loop' \in [Loops -> LoopState]
    BY <1>1, <2>1 DEF Start, Typed, TypeOK, LoopState
  <2>3. AttemptsCounted'
    BY <1>1, <2>1 DEF Start, Typed, TypeOK, AttemptsCounted, LoopState
  <2> QED BY <1>1, <2>1, <2>2, <2>3 DEF Start, Typed, TypeOK
<1>2. CASE BeginStop /\ task # 0
  <2>1. cancelled' \in SUBSET Loops
    BY <1>2, Constants DEF BeginStop, Typed, TypeOK, Loops
  <2> QED BY <1>2, <2>1 DEF BeginStop, Typed, TypeOK, AttemptsCounted
<1>3. CASE UNCHANGED <<loop, resource>>
  BY <1>3 DEF resource, Typed, TypeOK, AttemptsCounted
<1> QED BY <1>1, <1>2, <1>3

LEMMA ReconcileTyped ==
  ASSUME Typed, NEW a \in Callers, NEW waiting \in {"stopping", "undoing"},
         NEW after \in {"idle", "refreshing"}, Reconcile(a, waiting, after)
  PROVE  Typed'
<1>1. Start \/ (BeginStop /\ task # 0) \/ UNCHANGED <<loop, resource>>
  BY DEF Reconcile, Stops
<1>2. UNCHANGED <<channel, rows, settings, ops, faults, lost>>
  BY DEF Reconcile
<1>3. caller' \in [Callers -> {"idle", "switching", "stopping", "refreshing", "reverting", "undoing", "released", "ended"}]
  BY PhasesTyped DEF Reconcile
<1> QED BY <1>1, <1>2, <1>3, LifecycleTyped DEF Typed, TypeOK, channel, settings

LEMMA StepTyped == Typed /\ [Next]_vars => Typed'
<1> SUFFICES ASSUME Typed, [Next]_vars PROVE Typed'
  OBVIOUS
<1> USE DEF channel, resource, settings
<1>1. CASE Add
  <2>1. added' \in 0..MaxEntries /\ taken' \in 0..added' /\ dropped' \in 0..MaxEntries /\ added' - taken' <= Capacity
    BY <1>1, Constants DEF Add, Typed, TypeOK
  <2> QED BY <1>1, <2>1 DEF Add, Typed, TypeOK, AttemptsCounted
<1>2. ASSUME NEW c \in Loops, LoopStep(c) PROVE Typed'
  BY <1>2, LoopStepTyped
<1>3. CASE CoordinatorStep \/ ToggleReconciles \/ RevertReconciles
  BY <1>3, ReconcileTyped DEF CoordinatorStep, ToggleReconciles, RevertReconciles, Callers
<1>4. CASE TogglePlugin
  <2>1. caller' \in [Callers -> {"idle", "switching", "stopping", "refreshing", "reverting", "undoing", "released", "ended"}]
    BY <1>4, PhasesTyped DEF TogglePlugin, Callers
  <2>2. ops' \in 0..MaxOps /\ enabled' \in BOOLEAN
    BY <1>4, Constants DEF TogglePlugin, Typed, TypeOK
  <2> QED BY <1>4, <2>1, <2>2 DEF TogglePlugin, Typed, TypeOK, AttemptsCounted
<1>5. CASE ToggleFails \/ ToggleEnds
  <2>1. caller' \in [Callers -> {"idle", "switching", "stopping", "refreshing", "reverting", "undoing", "released", "ended"}]
    BY <1>5, PhasesTyped DEF ToggleFails, ToggleEnds, Callers
  <2> QED BY <1>5, <2>1 DEF ToggleFails, ToggleEnds, Typed, TypeOK, AttemptsCounted
<1>6. CASE BindingChanged
  <2>1. ops' \in 0..MaxOps /\ bound' \in BOOLEAN
    BY <1>6, Constants DEF BindingChanged, Typed, TypeOK
  <2> QED BY <1>6, <2>1 DEF BindingChanged, Typed, TypeOK, AttemptsCounted
<1>7. CASE StopAsync
  <2>1. caller' \in [Callers -> {"idle", "switching", "stopping", "refreshing", "reverting", "undoing", "released", "ended"}]
    BY <1>7, PhasesTyped DEF StopAsync, Callers
  <2>2. (BeginStop /\ task # 0) \/ UNCHANGED <<loop, resource>>
    BY <1>7 DEF StopAsync
  <2>3. UNCHANGED <<channel, rows, settings, ops, faults, lost>>
    BY <1>7 DEF StopAsync
  <2> QED BY <2>1, <2>2, <2>3, LifecycleTyped DEF Typed, TypeOK
<1>8. CASE StopCoordinator
  <2>1. caller' \in [Callers -> {"idle", "switching", "stopping", "refreshing", "reverting", "undoing", "released", "ended"}]
    BY <1>8, PhasesTyped DEF StopCoordinator, Callers
  <2> QED BY <1>8, <2>1 DEF StopCoordinator, Typed, TypeOK, AttemptsCounted
<1>9. ASSUME NEW a \in Callers, StopFinishes(a) \/ StopAborted(a) PROVE Typed'
  <2>1. caller' \in [Callers -> {"idle", "switching", "stopping", "refreshing", "reverting", "undoing", "released", "ended"}]
    BY <1>9, PhasesTyped DEF StopFinishes, StopAborted, AfterStop
  <2>2. faulted' \in BOOLEAN /\ gaveUp' \in BOOLEAN
    BY <1>9 DEF StopFinishes, StopAborted, Typed, TypeOK
  <2>3. started \in Nat
    BY Constants DEF Typed, TypeOK
  <2>4. task' \in 0..started'
    BY <1>9, <2>3 DEF StopFinishes, StopAborted
  <2> QED BY <1>9, <2>1, <2>2, <2>4 DEF StopFinishes, StopAborted, Typed, TypeOK, AttemptsCounted
<1>10. CASE UNCHANGED vars
  BY <1>10 DEF vars, Typed, TypeOK, AttemptsCounted
<1> QED
  BY <1>1, <1>2, <1>3, <1>4, <1>5, <1>6, <1>7, <1>8, <1>9, <1>10 DEF Next

\* The types hold for any number of loops and entries; the channel stays within its
\* capacity and no batch is tried more often than FlushBatchAsync says.
THEOREM TypeCorrect == Spec => []TypeOK
<1>1. Typed => TypeOK
  BY DEF Typed
<1> QED BY <1>1, InitTyped, StepTyped, PTL DEF Spec

-----------------------------------------------------------------------------
(* Which loops run                                                         *)

Holds(a) == caller[a] \in {"stopping", "undoing"}

\* A loop that looks at a token looks at one that is cancelled or the consumer's; the
\* consumer looks at its own, and ends only when that is cancelled; whoever holds the lock
\* has cancelled it; and until somebody gives up, every loop that runs is the consumer.
Readers ==
  /\ \A c \in Loops : c > started => loop[c].pc = "none"
  /\ \A c \in Loops : loop[c].pc \in {"none", "queued"} => ~loop[c].draining
  /\ \A c \in Loops : Live(c) /\ loop[c].pc # "queued" =>
       /\ loop[c].token # 0 /\ (Told(c) \/ loop[c].token = task)
       /\ c = task => loop[c].token = task
       /\ loop[c].draining \/ loop[c].pc = "drain" => Told(c)
  /\ task # 0 /\ loop[task].pc = "done" => task \in cancelled
  /\ \A a \in Callers : Holds(a) => task \in Loops /\ task \in cancelled
  /\ \A a, b \in Callers : Holds(a) /\ Holds(b) => a = b
  /\ ~gaveUp => \A c \in Loops : Live(c) => c = task

LEMMA InitReaders == Init => Readers
BY Constants DEF Init, Readers, Unstarted, Live, Holds, Loops

\* A loop that takes a step is alive, and no step but Run's changes the token of one that goes on.
LEMMA LoopStepKeeps ==
  ASSUME Typed, NEW c \in Loops, LoopStep(c)
  PROVE  /\ Untouched
         /\ \A d \in Loops : d # c => loop'[d] = loop[d]
         /\ Live(c)
         /\ loop'[c].pc \notin {"none", "queued"}
         /\ ~Run(c) => loop[c].pc # "queued" /\ (Live(c)' => loop'[c].token = loop[c].token)
<1>1. PICK l : Becomes(c, l)
  BY LoopStepBecomes
<1>2. loop' = [loop EXCEPT ![c] = l] /\ loop \in [Loops -> LoopState] /\ loop[c] \in LoopState
  BY <1>1 DEF Becomes, Typed, TypeOK
<1>3. Untouched /\ Live(c)
  BY DEF LoopStep, Run, Wake, Fill, Flush, WriteCommits, WriteFails, BackoffElapses, Cancelled,
         DrainTake, DrainFlush, DrainEnds, Live
<1>4. /\ Flushed(loop[c]).pc = "done" \/ Flushed(loop[c]).token = loop[c].token
      /\ Drained(loop[c]).token = loop[c].token
      /\ {Flushed(loop[c]).pc, Drained(loop[c]).pc, Ended.pc} \subseteq {"wait", "drain", "done"}
      /\ Ended.pc = "done"
  BY <1>2 DEF Flushed, Drained, Ended, LoopState
<1>5. CASE Run(c)
  <2>1. loop'[c].pc \in {"wait", "done"}
    BY <1>5, <1>2, <1>4 DEF Run, LoopState
  <2> QED BY <1>2, <1>3, <1>5, <2>1
<1>6. ASSUME ~Run(c)
      PROVE  /\ loop'[c].pc \notin {"none", "queued"} /\ loop[c].pc # "queued"
             /\ loop'[c].pc = "done" \/ loop'[c].token = loop[c].token
  <2>1. CASE Wake(c) \/ Fill(c) \/ DrainTake(c)
    BY <2>1, <1>2 DEF Wake, Fill, DrainTake, Take, LoopState
  <2>2. CASE Flush(c) \/ DrainFlush(c) \/ BackoffElapses(c)
    BY <2>2, <1>2 DEF Flush, DrainFlush, BackoffElapses, LoopState
  <2>3. CASE WriteCommits(c) \/ Cancelled(c) \/ DrainEnds(c)
    BY <2>3, <1>2, <1>4 DEF WriteCommits, Cancelled, DrainEnds
  <2>4. CASE WriteFails(c)
    BY <2>4, <1>2, <1>4 DEF WriteFails, LoopState
  <2> QED BY <1>6, <2>1, <2>2, <2>3, <2>4 DEF LoopStep
<1> QED BY <1>2, <1>3, <1>5, <1>6 DEF Live

\* A loop drains, and ends, only when it was told to; or it never began.
LEMMA LoopStepEnds ==
  ASSUME Typed, Readers, NEW c \in Loops, LoopStep(c), ~Run(c),
         loop'[c].pc \in {"done", "drain"} \/ loop'[c].draining
  PROVE  Told(c)
<1>1. loop \in [Loops -> LoopState] /\ loop[c] \in LoopState
  BY DEF Typed, TypeOK
<1>2. loop[c].draining \/ loop[c].pc = "drain" => Told(c)
  BY LoopStepKeeps DEF Readers
<1>3. ~loop[c].draining => Flushed(loop[c]).pc = "wait" /\ ~Flushed(loop[c]).draining
  BY <1>1 DEF Flushed, LoopState
<1>4. CASE Wake(c) \/ Fill(c) \/ DrainTake(c)
  BY <1>4, <1>1, <1>2 DEF Wake, Fill, DrainTake, Take, LoopState
<1>5. CASE Flush(c) \/ DrainFlush(c) \/ BackoffElapses(c)
  BY <1>5, <1>1, <1>2 DEF Flush, DrainFlush, BackoffElapses, LoopState
<1>6. CASE Cancelled(c) \/ DrainEnds(c)
  BY <1>6, <1>2 DEF Cancelled, DrainEnds
<1>7. CASE WriteCommits(c)
  BY <1>7, <1>1, <1>2, <1>3 DEF WriteCommits
<1>8. CASE WriteFails(c)
  BY <1>8, <1>1, <1>2, <1>3 DEF WriteFails, LoopState
<1> QED BY <1>4, <1>5, <1>6, <1>7, <1>8 DEF LoopStep

LEMMA LoopStepReaders ==
  ASSUME Typed, Readers, NEW c \in Loops, LoopStep(c)
  PROVE  Readers'
<1>1. /\ UNCHANGED <<task, started, cancelled, gaveUp, caller>>
      /\ \A d \in Loops : d # c => loop'[d] = loop[d]
      /\ Live(c) /\ loop'[c].pc \notin {"none", "queued"}
  BY LoopStepKeeps DEF Untouched, resource
<1>2. \A d \in Loops : d # c => (Live(d)' <=> Live(d)) /\ (Told(d)' <=> Told(d))
  BY <1>1 DEF Live, Told
<1>3. \A a \in Callers : Holds(a)' <=> Holds(a)
  BY <1>1 DEF Holds
<1>4. /\ \A d \in Loops : d > started' => loop'[d].pc = "none"
      /\ \A d \in Loops : loop'[d].pc \in {"none", "queued"} => ~loop'[d].draining
  BY <1>1 DEF Readers, Live
<1>5. ~gaveUp' => \A d \in Loops : Live(d)' => d = task'
  BY <1>1, <1>2 DEF Readers
<1>t. task # 0 => task \in Loops
  BY Constants DEF Typed, TypeOK, Loops
<1>6. CASE Run(c)
  <2>1. loop'[c] = IF task = 0 THEN Ended ELSE [loop[c] EXCEPT !.pc = "wait", !.token = task]
    BY <1>6 DEF Run, Typed, TypeOK
  <2>2. loop[c].pc = "queued" /\ ~loop[c].draining /\ loop[c] \in LoopState
    BY <1>6 DEF Run, Readers, Typed, TypeOK
  <2>3. task # 0 => loop'[c].pc = "wait" /\ loop'[c].token = task /\ ~loop'[c].draining
    BY <2>1, <2>2 DEF LoopState
  <2>4. Live(c)' => task # 0
    BY <2>1 DEF Live, Ended
  <2>5. \A d \in Loops : Live(d)' /\ loop'[d].pc # "queued" =>
          /\ loop'[d].token # 0 /\ (Told(d)' \/ loop'[d].token = task')
          /\ d = task' => loop'[d].token = task'
          /\ loop'[d].draining \/ loop'[d].pc = "drain" => Told(d)'
    BY <1>1, <1>2, <2>3, <2>4 DEF Readers
  <2>6. task' # 0 /\ loop'[task'].pc = "done" => task' \in cancelled'
    BY <1>1, <1>t, <2>3 DEF Readers
  <2> QED BY <1>1, <1>3, <1>4, <1>5, <2>5, <2>6 DEF Readers
<1>7. CASE ~Run(c)
  <2>1. loop[c].pc # "queued" /\ (Live(c)' => loop'[c].token = loop[c].token)
    BY <1>7, LoopStepKeeps
  <2>2. Told(c) => (Live(c)' => Told(c)')
    BY <1>1, <2>1 DEF Told
  <2>3. loop'[c].pc \in {"done", "drain"} \/ loop'[c].draining => Told(c)
    BY <1>7, LoopStepEnds
  <2>4. \A d \in Loops : Live(d)' /\ loop'[d].pc # "queued" =>
          /\ loop'[d].token # 0 /\ (Told(d)' \/ loop'[d].token = task')
          /\ d = task' => loop'[d].token = task'
          /\ loop'[d].draining \/ loop'[d].pc = "drain" => Told(d)'
    BY <1>1, <1>2, <2>1, <2>2, <2>3 DEF Readers
  <2>5. task' # 0 /\ loop'[task'].pc = "done" => task' \in cancelled'
    <3>1. CASE c = task
      <4>1. loop[c].token = task
        BY <3>1, <1>1, <2>1 DEF Readers
      <4> QED BY <3>1, <4>1, <1>1, <2>3 DEF Told
    <3>2. CASE c # task
      BY <3>2, <1>1, <1>t DEF Readers
    <3> QED BY <3>1, <3>2
  <2> QED BY <1>1, <1>3, <1>4, <1>5, <2>4, <2>5 DEF Readers
<1> QED BY <1>6, <1>7

\* StartResourceAsync is called when no loop but those told to end is left.
LEMMA StartReaders ==
  ASSUME Typed, Readers, NEW a \in Callers, NEW p \in {"idle", "refreshing", "released"},
         LockFree, ~Running, Start, caller' = [caller EXCEPT ![a] = p]
  PROVE  Readers'
<1>1. /\ started + 1 \in Loops /\ started' = started + 1 /\ task' = started + 1 /\ UNCHANGED <<cancelled, gaveUp>>
      /\ task \in Nat /\ started \in Nat /\ task <= started
  <2>1. task \in Nat /\ started \in Nat /\ task <= started
    BY Constants DEF Typed, TypeOK
  <2> QED BY <2>1, NextLoop DEF Start
<1>2. /\ \A d \in Loops : d # started + 1 => loop'[d] = loop[d]
      /\ loop'[started + 1].pc = "queued" /\ loop'[started + 1].draining = loop[started + 1].draining
  BY <1>1 DEF Start, Typed, TypeOK, LoopState
<1>3. \A b \in Callers : ~Holds(b)'
  BY DEF LockFree, Holds, Typed, TypeOK
<1>4. /\ \A d \in Loops : Live(d) => d # task
      /\ task # 0 => task \in cancelled
  BY <1>1 DEF Running, Live, Loops, Readers
<1>5. /\ \A d \in Loops : d > started' => loop'[d].pc = "none"
      /\ \A d \in Loops : loop'[d].pc \in {"none", "queued"} => ~loop'[d].draining
  BY <1>1, <1>2 DEF Readers, Loops
<1>6. \A d \in Loops : d # started + 1 => (Live(d)' <=> Live(d)) /\ (Told(d)' <=> Told(d))
  BY <1>1, <1>2 DEF Live, Told
<1>7. ASSUME NEW d \in Loops, Live(d)', loop'[d].pc # "queued"
      PROVE  /\ loop'[d].token # 0 /\ (Told(d)' \/ loop'[d].token = task')
             /\ d = task' => loop'[d].token = task'
             /\ loop'[d].draining \/ loop'[d].pc = "drain" => Told(d)'
  <2>1. d # started + 1 /\ loop'[d] = loop[d] /\ Live(d) /\ (Told(d)' <=> Told(d))
    BY <1>7, <1>2, <1>6
  <2>2. loop[d].token # 0 /\ (loop[d].token = task => Told(d))
    BY <1>7, <2>1, <1>4 DEF Readers, Told
  <2> QED BY <1>1, <1>7, <2>1, <2>2 DEF Readers
<1>8. ~gaveUp' => \A d \in Loops : Live(d)' => d = task'
  BY <1>1, <1>4, <1>6 DEF Readers
<1>9. loop'[task'].pc # "done"
  BY <1>1, <1>2
<1> QED BY <1>3, <1>5, <1>7, <1>8, <1>9 DEF Readers

LEMMA BeginStopReaders ==
  ASSUME Typed, Readers, NEW a \in Callers, NEW p \in {"stopping", "undoing"},
         LockFree, task # 0, BeginStop, caller' = [caller EXCEPT ![a] = p]
  PROVE  Readers'
<1>1. /\ task \in Loops /\ UNCHANGED <<loop, task, started, gaveUp>>
      /\ cancelled \subseteq cancelled' /\ task \in cancelled'
  <2>1. task \in Loops
    BY Constants DEF Typed, TypeOK, Loops
  <2> QED BY <2>1 DEF BeginStop
<1>2. \A d \in Loops : (Told(d) => Told(d)') /\ (Live(d)' <=> Live(d))
  BY <1>1 DEF Told, Live
<1>3. \A b \in Callers : Holds(b)' <=> b = a
  BY DEF LockFree, Holds, Typed, TypeOK
<1> QED BY <1>1, <1>2, <1>3 DEF Readers

\* Steps that touch no loop, and after which nobody new holds the lock.
LEMMA CallerReaders ==
  ASSUME Typed, Readers, NEW a \in Callers,
         NEW p \in {"idle", "switching", "refreshing", "reverting", "released", "ended"},
         UNCHANGED <<loop, resource>>, caller' = [caller EXCEPT ![a] = p]
  PROVE  Readers'
<1>1. UNCHANGED <<task, started, cancelled, gaveUp>>
  BY DEF resource
<1>2. \A b \in Callers : Holds(b)' => Holds(b)
  BY DEF Holds, Typed, TypeOK
<1>3. \A d \in Loops : (Live(d)' <=> Live(d)) /\ (Told(d)' <=> Told(d))
  BY <1>1 DEF Live, Told
<1> QED BY <1>1, <1>2, <1>3 DEF Readers

LEMMA ReconcileReaders ==
  ASSUME Typed, Readers, NEW a \in Callers, NEW waiting \in {"stopping", "undoing"},
         NEW after \in {"idle", "refreshing"}, Reconcile(a, waiting, after)
  PROVE  Readers'
<1>1. CASE Starts /\ Start /\ caller' = [caller EXCEPT ![a] = after]
  BY <1>1, StartReaders DEF Reconcile, Starts
<1>2. CASE Stops /\ BeginStop /\ caller' = [caller EXCEPT ![a] = waiting]
  BY <1>2, BeginStopReaders DEF Reconcile, Stops
<1>3. CASE UNCHANGED <<loop, resource>> /\ caller' = [caller EXCEPT ![a] = after]
  BY <1>3, CallerReaders
<1> QED BY <1>1, <1>2, <1>3 DEF Reconcile

LEMMA StopEndReaders ==
  ASSUME Typed, Readers, NEW a \in Callers, StopFinishes(a) \/ StopAborted(a)
  PROVE  Readers'
<1>1. /\ UNCHANGED <<loop, started, cancelled>> /\ task' = 0 /\ Holds(a)
      /\ caller' = [caller EXCEPT ![a] = AfterStop(a)]
  BY DEF StopFinishes, StopAborted, Holds
<1>2. \A b \in Callers : ~Holds(b)'
  BY <1>1 DEF Readers, Holds, AfterStop, Typed, TypeOK
<1>3. \A d \in Loops : (Live(d)' <=> Live(d)) /\ (Told(d)' <=> Told(d))
  BY <1>1 DEF Live, Told
<1>4. \A d \in Loops : loop[d].token = task => Told(d)
  BY <1>1 DEF Readers, Told
<1>5. \A d \in Loops : d # task'
  BY <1>1, Constants DEF Loops
<1>6. ~gaveUp' => \A d \in Loops : ~Live(d)'
  <2>1. CASE StopFinishes(a)
    BY <2>1, <1>3 DEF StopFinishes, Readers, Live
  <2>2. CASE StopAborted(a)
    BY <2>2 DEF StopAborted
  <2> QED BY <2>1, <2>2
<1> QED BY <1>1, <1>2, <1>3, <1>4, <1>5, <1>6 DEF Readers

LEMMA StepReaders == Typed /\ Readers /\ [Next]_vars => Readers'
<1> SUFFICES ASSUME Typed, Readers, [Next]_vars PROVE Readers'
  OBVIOUS
<1>1. CASE Add \/ BindingChanged \/ UNCHANGED vars
  BY <1>1 DEF Add, BindingChanged, vars, resource, Readers, Live, Told, Holds
<1>2. ASSUME NEW c \in Loops, LoopStep(c) PROVE Readers'
  BY <1>2, LoopStepReaders
<1>3. CASE CoordinatorStep \/ ToggleReconciles \/ RevertReconciles
  BY <1>3, ReconcileReaders DEF CoordinatorStep, ToggleReconciles, RevertReconciles, Callers
<1>4. CASE TogglePlugin \/ ToggleEnds \/ ToggleFails \/ StopCoordinator
  BY <1>4, CallerReaders DEF TogglePlugin, ToggleEnds, ToggleFails, StopCoordinator, Callers
<1>5. CASE StopAsync
  <2>1. CASE task # 0
    BY <2>1, <1>5, BeginStopReaders DEF StopAsync, Callers
  <2>2. CASE task = 0
    BY <2>2, <1>5, CallerReaders DEF StopAsync, Callers
  <2> QED BY <2>1, <2>2
<1>6. ASSUME NEW a \in Callers, StopFinishes(a) \/ StopAborted(a) PROVE Readers'
  BY <1>6, StopEndReaders
<1> QED BY <1>1, <1>2, <1>3, <1>4, <1>5, <1>6 DEF Next

\* For any number of starts and any interleaving of the three callers, at most one consumer
\* reads the channel until somebody gives up on a stop.
THEOREM OneReaderOnly == Spec => []OneReader
<1>1. Readers => OneReader
  BY DEF Readers, OneReader
<1> QED BY <1>1, InitTyped, StepTyped, InitReaders, StepReaders, PTL DEF Spec

\* However many stops were given up on, and however late the pool runs what was started,
\* no consumer looks at a token that nobody has cancelled and no stop will cancel.
THEOREM NoneOutOfReach == Spec => []StopsReachAll
<1>1. Readers => StopsReachAll
  BY DEF Readers, StopsReachAll
<1> QED BY <1>1, InitTyped, StepTyped, InitReaders, StepReaders, PTL DEF Spec

-----------------------------------------------------------------------------
(* Where the entries are                                                   *)

Takes(c) ==
  /\ taken < added /\ taken' = taken + 1 /\ UNCHANGED <<rows, lost>>
  /\ Pending(c)' = Pending(c) \cup {taken + 1}

Writes(c) ==
  /\ rows' = [n \in Entries |-> IF n \in Pending(c) THEN rows[n] + 1 ELSE rows[n]]
  /\ UNCHANGED <<taken, lost>> /\ Pending(c)' = {}

Loses(c) ==
  /\ lost' = lost \cup Pending(c)
  /\ UNCHANGED <<taken, rows>> /\ Pending(c)' = {}

Keeps(c) == UNCHANGED <<taken, rows, lost>> /\ Pending(c)' = Pending(c)

\* Every action of a loop takes an entry, writes its batch, loses it, or moves nothing.
LEMMA LoopStepMoves ==
  ASSUME Typed, NEW c \in Loops, LoopStep(c)
  PROVE  /\ Takes(c) \/ Writes(c) \/ Loses(c) \/ Keeps(c)
         /\ \A d \in Loops : d # c => Pending(d)' = Pending(d)
<1>1. loop \in [Loops -> LoopState] /\ loop[c] \in LoopState
  BY DEF Typed, TypeOK
<1>2. \A d \in Loops : d # c => Pending(d)' = Pending(d)
  BY LoopStepKeeps DEF Pending
<1>3. /\ Flushed(loop[c]).pc \in {"wait", "drain", "done"} /\ Drained(loop[c]).pc = "drain"
      /\ Flushed(loop[c]).pc = "drain" => Flushed(loop[c]).batch = {}
      /\ Drained(loop[c]).batch = {} /\ Ended.pc = "done"
  BY <1>1 DEF Flushed, Drained, Ended, LoopState
<1>4. Takes(c) \/ Writes(c) \/ Loses(c) \/ Keeps(c)
  <2>0. CASE Run(c)
    BY <2>0, <1>1, <1>3 DEF Run, Keeps, Pending, LoopState
  <2>1. CASE Wake(c)
    BY <2>1, <1>1 DEF Wake, Take, Takes, Pending, LoopState
  <2>2. CASE Fill(c) \/ DrainTake(c)
    BY <2>2, <1>1 DEF Fill, DrainTake, Take, Takes, Pending, LoopState
  <2>3. CASE Flush(c) \/ DrainFlush(c) \/ BackoffElapses(c)
    <3>1. loop'[c].pc = "write" /\ loop'[c].batch = loop[c].batch
      BY <2>3, <1>1 DEF Flush, DrainFlush, BackoffElapses, LoopState
    <3> QED BY <2>3, <3>1 DEF Flush, DrainFlush, BackoffElapses, Keeps, Pending
  <2>4. CASE WriteCommits(c)
    <3>1. loop'[c] = Flushed(loop[c]) /\ Pending(c) = loop[c].batch
      BY <2>4, <1>1 DEF WriteCommits, Pending
    <3>2. Pending(c)' = {}
      BY <3>1, <1>3 DEF Pending
    <3> QED BY <2>4, <3>1, <3>2 DEF WriteCommits, Writes
  <2>5. CASE WriteFails(c)
    <3>1. CASE Retries(loop[c])
      <4>1. loop'[c].pc = "backoff" /\ loop'[c].batch = loop[c].batch /\ UNCHANGED <<taken, rows, lost>>
        BY <2>5, <3>1, <1>1 DEF WriteFails, LoopState
      <4> QED BY <2>5, <4>1 DEF WriteFails, Keeps, Pending
    <3>2. CASE ~Retries(loop[c])
      <4>1. /\ loop'[c] = Flushed(loop[c]) /\ Pending(c) = loop[c].batch
            /\ lost' = lost \cup loop[c].batch /\ UNCHANGED <<taken, rows>>
        BY <2>5, <3>2, <1>1 DEF WriteFails, Pending
      <4>2. Pending(c)' = {}
        BY <4>1, <1>3 DEF Pending
      <4> QED BY <4>1, <4>2 DEF Loses
    <3> QED BY <3>1, <3>2
  <2>6. CASE Cancelled(c)
    <3>1. loop'[c] = Drained(loop[c])
      BY <2>6, <1>1 DEF Cancelled
    <3>2. Pending(c)' = {}
      BY <3>1, <1>3 DEF Pending
    <3> QED BY <2>6, <3>2 DEF Cancelled, Loses
  <2>7. CASE DrainEnds(c)
    <3>1. loop'[c] = Ended
      BY <2>7, <1>1 DEF DrainEnds
    <3>2. Pending(c)' = {} /\ Pending(c) = {}
      BY <2>7, <3>1, <1>3 DEF DrainEnds, Pending
    <3> QED BY <2>7, <3>2 DEF DrainEnds, Keeps
  <2> QED BY <2>0, <2>1, <2>2, <2>3, <2>4, <2>5, <2>6, <2>7 DEF LoopStep
<1> QED BY <1>2, <1>4

\* No other action moves an entry that has left the channel.
LEMMA OtherStepsKeep ==
  ASSUME Typed, Readers, [Next]_vars, ~\E c \in Loops : LoopStep(c)
  PROVE  /\ UNCHANGED <<taken, rows, lost, faults>>
         /\ gaveUp => gaveUp'
         /\ \A d \in Loops : Pending(d)' = Pending(d)
         /\ cancelled # {} => cancelled' # {}
<1> USE DEF channel, resource, settings
<1>1. loop \in [Loops -> LoopState]
  BY DEF Typed, TypeOK
<1>2. ASSUME Start PROVE UNCHANGED cancelled /\ \A d \in Loops : Pending(d)' = Pending(d)
  <2>1. started + 1 \in Loops /\ started + 1 > started
    BY <1>2, NextLoop DEF Start
  <2>2. /\ loop[started + 1].pc = "none" /\ loop'[started + 1].pc = "queued"
        /\ \A d \in Loops : d # started + 1 => loop'[d] = loop[d]
    BY <1>2, <2>1, <1>1 DEF Start, Readers, LoopState
  <2> QED BY <1>2, <2>2 DEF Start, Pending
<1>3. ASSUME BeginStop PROVE cancelled' # {} /\ \A d \in Loops : Pending(d)' = Pending(d)
  BY <1>3 DEF BeginStop, Pending
<1>4. ASSUME UNCHANGED loop PROVE \A d \in Loops : Pending(d)' = Pending(d)
  BY <1>4 DEF Pending
<1>5. CASE Add \/ TogglePlugin \/ ToggleEnds \/ ToggleFails \/ BindingChanged \/ StopCoordinator \/ UNCHANGED vars
  BY <1>5, <1>4 DEF Add, TogglePlugin, ToggleEnds, ToggleFails, BindingChanged, StopCoordinator, vars
<1>6. CASE CoordinatorStep \/ ToggleReconciles \/ RevertReconciles
  <2>1. Start \/ BeginStop \/ UNCHANGED <<loop, resource>>
    BY <1>6 DEF CoordinatorStep, ToggleReconciles, RevertReconciles, Reconcile
  <2>2. UNCHANGED <<taken, rows, lost, faults>>
    BY <1>6 DEF CoordinatorStep, ToggleReconciles, RevertReconciles, Reconcile
  <2>3. gaveUp => gaveUp'
    BY <2>1 DEF Start, BeginStop
  <2> QED BY <2>1, <2>2, <2>3, <1>2, <1>3, <1>4
<1>7. CASE StopAsync
  <2>1. BeginStop \/ UNCHANGED <<loop, resource>>
    BY <1>7 DEF StopAsync
  <2>2. UNCHANGED <<taken, rows, lost, faults>>
    BY <1>7 DEF StopAsync
  <2>3. gaveUp => gaveUp'
    BY <2>1 DEF BeginStop
  <2> QED BY <2>1, <2>2, <2>3, <1>3, <1>4
<1>8. ASSUME NEW a \in Callers, StopFinishes(a) \/ StopAborted(a)
      PROVE  UNCHANGED <<loop, taken, rows, lost, faults, cancelled>> /\ (gaveUp => gaveUp')
  BY <1>8 DEF StopFinishes, StopAborted
<1> QED BY <1>4, <1>5, <1>6, <1>7, <1>8 DEF Next

LEMMA InitAccounted == Init => EntriesAccounted
<1> SUFFICES ASSUME Init PROVE EntriesAccounted
  OBVIOUS
<1>1. \A c \in Loops : Pending(c) = {}
  BY DEF Init, Pending, Unstarted
<1>2. taken = 0 /\ lost = {} /\ \A n \in Entries : rows[n] = 0 /\ ~(n <= 0)
  BY Constants DEF Init, Entries
<1> QED BY <1>1, <1>2 DEF EntriesAccounted

LEMMA StepAccounted == Typed /\ Readers /\ EntriesAccounted /\ [Next]_vars => EntriesAccounted'
<1> SUFFICES ASSUME Typed, Readers, EntriesAccounted, [Next]_vars PROVE EntriesAccounted'
  OBVIOUS
<1>1. taken \in Nat /\ rows \in [Entries -> Nat] /\ Entries \subseteq Nat
  BY Constants DEF Typed, TypeOK, Entries
<1>2. CASE ~\E c \in Loops : LoopStep(c)
  BY <1>2, OtherStepsKeep DEF EntriesAccounted
<1>3. ASSUME NEW c \in Loops, LoopStep(c) PROVE EntriesAccounted'
  <2>1. /\ Takes(c) \/ Writes(c) \/ Loses(c) \/ Keeps(c)
        /\ \A d \in Loops : d # c => Pending(d)' = Pending(d)
    BY <1>3, LoopStepMoves
  <2>2. CASE Takes(c)
    BY <2>1, <2>2, <1>1 DEF Takes, EntriesAccounted
  <2>3. CASE Writes(c)
    <3>1. ASSUME NEW n \in Entries
          PROVE  /\ n \in Pending(c) => rows'[n] = 1
                 /\ n \notin Pending(c) => rows'[n] = rows[n]
      BY <2>3, <1>1 DEF Writes, EntriesAccounted
    <3> QED BY <2>1, <2>3, <3>1 DEF Writes, EntriesAccounted
  <2>4. CASE Loses(c)
    BY <2>1, <2>4, <1>1 DEF Loses, EntriesAccounted
  <2>5. CASE Keeps(c)
    BY <2>1, <2>5 DEF Keeps, EntriesAccounted
  <2> QED BY <2>1, <2>2, <2>3, <2>4, <2>5
<1> QED BY <1>2, <1>3

\* No sequence of starts, stops, failures and forgotten loops writes an entry twice, or
\* loses track of one that left the channel.
THEOREM EveryEntryAccounted == Spec => []EntriesAccounted
BY InitTyped, StepTyped, InitReaders, StepReaders, InitAccounted, StepAccounted, PTL DEF Spec

-----------------------------------------------------------------------------
(* In which order, and what is given up                                    *)

\* Whatever a loop still holds was taken after everything that is written.
Ordered == ~gaveUp => \A c \in Loops : \A n \in Pending(c) : \A m \in Entries : rows[m] # 0 => m < n

InOrder == Ordered /\ OrderKept

LEMMA InitInOrder == Init => InOrder
BY DEF Init, InOrder, Ordered, OrderKept

LEMMA StepInOrder ==
  Typed /\ Readers /\ EntriesAccounted /\ InOrder /\ [Next]_vars => InOrder'
<1> SUFFICES ASSUME Typed, Readers, EntriesAccounted, InOrder, [Next]_vars PROVE InOrder'
  OBVIOUS
<1>1. /\ taken \in Nat /\ rows \in [Entries -> Nat] /\ Entries \subseteq Nat
      /\ \A n \in Entries : \A m \in 1..n : m \in Entries
  BY Constants DEF Typed, TypeOK, Entries
<1>2. CASE ~\E c \in Loops : LoopStep(c)
  BY <1>2, OtherStepsKeep DEF InOrder, Ordered, OrderKept
<1>3. ASSUME NEW c \in Loops, LoopStep(c) PROVE InOrder'
  <2>1. /\ Takes(c) \/ Writes(c) \/ Loses(c) \/ Keeps(c)
        /\ \A d \in Loops : d # c => Pending(d)' = Pending(d)
        /\ gaveUp' = gaveUp
    BY <1>3, LoopStepMoves, LoopStepKeeps DEF Untouched, resource
  <2>2. CASE Takes(c)
    <3>1. \A m \in Entries : rows[m] # 0 => m < taken + 1
      BY <1>1 DEF EntriesAccounted
    <3> QED BY <2>1, <2>2, <3>1 DEF Takes, InOrder, Ordered, OrderKept
  <2>3. CASE Writes(c)
    <3>1. ~gaveUp => \A d \in Loops : d # c => Pending(d) = {}
      BY <1>3, LoopStepKeeps DEF Readers, Live, Pending
    <3>2. \A n \in Entries : rows'[n] # 0 <=> n \in Pending(c) \/ rows[n] # 0
      BY <2>3, <1>1 DEF Writes
    <3>3. Ordered'
      BY <2>1, <2>3, <3>1 DEF Writes, Ordered
    <3>4. OrderKept'
      <4> SUFFICES ASSUME ~gaveUp, NEW n \in Entries, rows'[n] # 0, NEW m \in 1..n
                   PROVE  rows'[m] # 0 \/ m \in lost
        BY <2>1, <2>3 DEF OrderKept, Writes
      <4>1. CASE rows[n] # 0
        BY <4>1, <3>2, <1>1 DEF InOrder, OrderKept
      <4>2. CASE n \in Pending(c)
        <5>1. m \in Entries /\ m <= taken
          BY <4>2, <1>1 DEF EntriesAccounted
        <5>2. rows[m] = 1 \/ m \in lost \/ m \in Pending(c)
          BY <5>1, <3>1 DEF EntriesAccounted
        <5> QED BY <5>1, <5>2, <3>2
      <4> QED BY <4>1, <4>2, <3>2
    <3> QED BY <3>3, <3>4 DEF InOrder
  <2>4. CASE Loses(c) \/ Keeps(c)
    BY <2>1, <2>4 DEF Loses, Keeps, InOrder, Ordered, OrderKept
  <2> QED BY <2>1, <2>2, <2>3, <2>4
<1> QED BY <1>2, <1>3

\* Until somebody gives up on a stop, the database receives the entries in order.
THEOREM WrittenInOrder == Spec => []OrderKept
<1>1. InOrder => OrderKept
  BY DEF InOrder
<1> QED BY <1>1, InitTyped, StepTyped, InitReaders, StepReaders, InitAccounted, StepAccounted,
           InitInOrder, StepInOrder, PTL DEF Spec

LEMMA StepQuiet == Typed /\ Readers /\ NothingLostQuietly /\ [Next]_vars => NothingLostQuietly'
<1> SUFFICES ASSUME Typed, Readers, NothingLostQuietly, [Next]_vars PROVE NothingLostQuietly'
  OBVIOUS
<1>1. faults \in Nat
  BY Constants DEF Typed, TypeOK
<1>2. CASE ~\E c \in Loops : LoopStep(c)
  BY <1>2, OtherStepsKeep DEF NothingLostQuietly
<1>3. ASSUME NEW c \in Loops, LoopStep(c) PROVE NothingLostQuietly'
  <2>1. UNCHANGED cancelled
    BY <1>3, LoopStepKeeps DEF Untouched, resource
  <2>2. faults' \in Nat /\ faults' >= faults
    <3>1. PICK l : Becomes(c, l)
      BY <1>3, LoopStepBecomes
    <3> QED BY <3>1, <1>1, Constants DEF Becomes
  <2>3. CASE lost' = lost
    BY <2>1, <2>2, <2>3, <1>1, Constants DEF NothingLostQuietly
  <2>4. CASE Cancelled(c)
    BY <2>4, <2>1 DEF Cancelled, Told, NothingLostQuietly
  <2>5. CASE WriteFails(c) /\ ~Retries(loop[c])
    <3>1. loop[c].attempt \in Nat /\ loop[c].attempt >= Attempts /\ loop[c].attempt <= faults + 1
      BY <2>5, Constants DEF WriteFails, Retries, Typed, TypeOK, AttemptsCounted, LoopState
    <3>2. faults' = faults + 1
      BY <2>5 DEF WriteFails
    <3> QED BY <3>1, <3>2, <1>1, Constants DEF NothingLostQuietly
  <2> QED BY <1>3, <2>3, <2>4, <2>5 DEF LoopStep, Run, Wake, Fill, Flush, WriteCommits, WriteFails,
             BackoffElapses, DrainTake, DrainFlush, DrainEnds, Take
<1> QED BY <1>2, <1>3

\* Nothing that left the channel is given up before a stop, or with fewer failed writes
\* than FlushBatchAsync has attempts.
THEOREM LostForAReason == Spec => []NothingLostQuietly
<1>1. Init => NothingLostQuietly
  BY DEF Init, NothingLostQuietly
<1> QED BY <1>1, InitTyped, StepTyped, InitReaders, StepReaders, StepQuiet, PTL DEF Spec

-----------------------------------------------------------------------------
(* That this is LogDelivery                                                *)

\* Where the mapping puts an entry.
LEMMA Places ==
  ASSUME Typed, EntriesAccounted, NEW n \in Entries
  PROVE  /\ n > added => PlaceOf[n] = "new"
         /\ taken < n /\ n <= added => PlaceOf[n] = "queued"
         /\ n <= taken => PlaceOf[n] = IF n \in lost THEN "lost" ELSE IF rows[n] = 0 THEN "held" ELSE "stored"
         /\ (\E c \in Loops : n \in Pending(c)) <=> PlaceOf[n] = "held"
<1>1. n \in Nat /\ taken \in Nat /\ added \in Nat /\ taken <= added /\ rows[n] \in Nat
  BY Constants DEF Typed, TypeOK, Entries
<1>2. rows[n] = 0 \/ rows[n] = 1
  BY <1>1 DEF EntriesAccounted
<1>3. n > added => PlaceOf[n] = "new"
  BY <1>1 DEF PlaceOf
<1>4. taken < n /\ n <= added => PlaceOf[n] = "queued"
  BY <1>1 DEF PlaceOf
<1>5. n <= taken => PlaceOf[n] = IF n \in lost THEN "lost" ELSE IF rows[n] = 0 THEN "held" ELSE "stored"
  BY <1>1, <1>2 DEF PlaceOf
<1>6. (\E c \in Loops : n \in Pending(c)) <=> n <= taken /\ n \notin lost /\ rows[n] = 0
  BY <1>1 DEF EntriesAccounted
<1> QED BY <1>1, <1>3, <1>4, <1>5, <1>6

\* The mapping is a function of the entries.
LEMMA MovesPlaces ==
  ASSUME NEW S, NEW p, gaveUp' = gaveUp,
         \A n \in Entries : PlaceOf'[n] = IF n \in S THEN p ELSE PlaceOf[n]
  PROVE  Delivery!Move(S, p)
<1>1. PlaceOf' = [n \in Entries |-> PlaceOf'[n]]
  BY DEF PlaceOf
<1>2. PlaceOf' = [n \in Entries |-> IF n \in S THEN p ELSE PlaceOf[n]]
  BY <1>1
<1> QED BY <1>2 DEF Delivery!Move

\* What moves no entry is a stutter or somebody's loss of patience.
LEMMA NothingMoves ==
  ASSUME UNCHANGED <<added, taken, rows, lost>>, gaveUp => gaveUp', gaveUp \in BOOLEAN, gaveUp' \in BOOLEAN
  PROVE  [Delivery!Next]_Delivery!vars
<1>1. PlaceOf' = PlaceOf
  BY DEF PlaceOf
<1>2. CASE gaveUp' = gaveUp
  BY <1>1, <1>2 DEF Delivery!vars
<1>3. CASE ~gaveUp /\ gaveUp'
  BY <1>1, <1>3 DEF Delivery!Next, Delivery!GiveUp
<1> QED BY <1>2, <1>3

\* A loop's batch is all that is held as long as every stop is waited for.
LEMMA BatchHeld ==
  ASSUME Typed, Readers, EntriesAccounted, NEW c \in Loops, Live(c)
  PROVE  Delivery!Batch(Pending(c))
<1>1. Pending(c) \subseteq Entries
  BY DEF Pending, Typed, TypeOK, LoopState
<1>2. \A n \in Pending(c) : PlaceOf[n] = "held"
  BY <1>1, Places
<1>3. ASSUME ~gaveUp, NEW n \in Entries, PlaceOf[n] = "held" PROVE n \in Pending(c)
  <2>1. PICK d \in Loops : n \in Pending(d)
    BY <1>3, Places
  <2>2. Live(d)
    BY <2>1 DEF Pending, Live
  <2> QED BY <1>3, <2>1, <2>2 DEF Readers
<1> QED BY <1>1, <1>2, <1>3 DEF Delivery!Batch, Delivery!In

LEMMA StepDelivers ==
  Typed /\ Readers /\ EntriesAccounted /\ [Next]_vars => [Delivery!Next]_Delivery!vars
<1> SUFFICES ASSUME Typed, Readers, EntriesAccounted, [Next]_vars PROVE [Delivery!Next]_Delivery!vars
  OBVIOUS
<1>t. Typed' /\ EntriesAccounted'
  BY StepTyped, StepAccounted
<1>0. /\ taken \in Nat /\ added \in Nat /\ taken <= added /\ added <= MaxEntries /\ MaxEntries \in Nat
      /\ added' \in Nat /\ taken' \in Nat /\ added' <= MaxEntries
      /\ gaveUp \in BOOLEAN /\ gaveUp' \in BOOLEAN
  BY <1>t, Constants DEF Typed, TypeOK
<1>n. \A n \in Entries : n \in Nat
  BY DEF Entries
<1>1. CASE Add
  <2>1. CASE added' = added
    BY <2>1, <1>1, <1>0, NothingMoves DEF Add, resource
  <2>2. CASE added' = added + 1
    <3> DEFINE new == added + 1
    <3>1. new \in Entries /\ UNCHANGED <<taken, rows, lost, gaveUp>>
      BY <2>2, <1>1, <1>0 DEF Add, resource, Entries
    <3>2. \A n \in Entries : PlaceOf'[n] = IF n \in {new} THEN "queued" ELSE PlaceOf[n]
      <4> SUFFICES ASSUME NEW n \in Entries
                   PROVE  PlaceOf'[n] = IF n = new THEN "queued" ELSE PlaceOf[n]
        OBVIOUS
      <4>1. CASE n = new
        BY <4>1, <2>2, <3>1, <1>0, <1>n DEF PlaceOf
      <4>2. CASE n # new
        <5>1. n > added' <=> n > added
          BY <4>2, <2>2, <1>0, <1>n
        <5>2. n <= added' <=> n <= added
          BY <4>2, <2>2, <1>0, <1>n
        <5> QED BY <4>2, <5>1, <5>2, <3>1 DEF PlaceOf
      <4> QED BY <4>1, <4>2
    <3>3. Delivery!Move({new}, "queued")
      BY <3>1, <3>2, MovesPlaces
    <3>4. Delivery!First(new, "new")
      <4>1. PlaceOf[new] = "new"
        BY <3>1, <1>0, Places
      <4>2. ASSUME NEW m \in Entries, PlaceOf[m] = "new" PROVE new <= m
        BY <4>2, <1>0, <1>n, Places
      <4> QED BY <3>1, <4>1, <4>2 DEF Delivery!First, Delivery!In
    <3> HIDE DEF new
    <3> QED BY <3>1, <3>3, <3>4 DEF Delivery!Next, Delivery!Accept
  <2> QED BY <1>1, <2>1, <2>2 DEF Add
<1>2. ASSUME NEW c \in Loops, LoopStep(c) PROVE [Delivery!Next]_Delivery!vars
  <2>1. /\ Takes(c) \/ Writes(c) \/ Loses(c) \/ Keeps(c)
        /\ Live(c) /\ added' = added /\ gaveUp' = gaveUp
    BY <1>2, LoopStepMoves, LoopStepKeeps DEF Untouched, resource
  <2>2. CASE Takes(c)
    <3> DEFINE next == taken + 1
    <3>1. next \in Entries /\ taken' = next /\ next <= added /\ UNCHANGED <<rows, lost>>
      BY <2>2, <1>0 DEF Takes, Entries
    <3>2. next \notin lost /\ rows[next] = 0
      BY <3>1, <1>0, <1>t DEF EntriesAccounted, Typed, TypeOK
    <3>3. ASSUME NEW n \in Entries PROVE PlaceOf'[n] = IF n \in {next} THEN "held" ELSE PlaceOf[n]
      <4>1. CASE n = next
        <5>1. n <= taken' /\ ~(n > added') /\ n \notin lost' /\ rows'[n] = 0
          BY <4>1, <3>1, <3>2, <2>1, <1>0, <1>n
        <5> QED BY <4>1, <5>1, <1>0, <1>n DEF PlaceOf
      <4>2. CASE n # next
        <5>1. (n > taken' <=> n > taken) /\ (n <= taken' <=> n <= taken)
          BY <4>2, <3>1, <1>0, <1>n
        <5> QED BY <4>2, <5>1, <3>1, <2>1 DEF PlaceOf
      <4> QED BY <4>1, <4>2
    <3>4. Delivery!Move({next}, "held")
      BY <3>3, <2>1, MovesPlaces
    <3>5. Delivery!First(next, "queued")
      <4>1. PlaceOf[next] = "queued"
        BY <3>1, <1>0, Places
      <4>2. ASSUME NEW m \in Entries, PlaceOf[m] = "queued" PROVE next <= m
        <5>1. ~(m <= taken)
          BY <4>2, Places
        <5> QED BY <5>1, <1>0, <1>n
      <4> QED BY <3>1, <4>1, <4>2 DEF Delivery!First, Delivery!In
    <3> HIDE DEF next
    <3> QED BY <3>1, <3>4, <3>5 DEF Delivery!Next, Delivery!HandOut
  <2>3. Delivery!Batch(Pending(c)) /\ Pending(c) \in SUBSET Entries
    BY <2>1, BatchHeld DEF Pending, Typed, TypeOK, LoopState
  <2>4. CASE Writes(c)
    <3>1. ASSUME NEW n \in Entries PROVE PlaceOf'[n] = IF n \in Pending(c) THEN "stored" ELSE PlaceOf[n]
      <4>0. UNCHANGED <<added, taken, lost>> /\ rows'[n] = IF n \in Pending(c) THEN rows[n] + 1 ELSE rows[n]
        BY <2>1, <2>4 DEF Writes
      <4>1. CASE n \in Pending(c)
        <5>1. n <= taken /\ n \notin lost /\ rows'[n] = 1
          BY <4>0, <4>1 DEF EntriesAccounted
        <5> QED BY <4>0, <4>1, <5>1, <1>0, <1>n DEF PlaceOf
      <4>2. CASE n \notin Pending(c)
        BY <4>0, <4>2 DEF PlaceOf
      <4> QED BY <4>1, <4>2
    <3>2. Delivery!Move(Pending(c), "stored")
      BY <3>1, <2>1, MovesPlaces
    <3> QED BY <2>3, <3>2 DEF Delivery!Next, Delivery!Store
  <2>5. CASE Loses(c)
    <3>1. ASSUME NEW n \in Entries PROVE PlaceOf'[n] = IF n \in Pending(c) THEN "lost" ELSE PlaceOf[n]
      <4>0. UNCHANGED <<added, taken, rows>> /\ lost' = lost \cup Pending(c)
        BY <2>1, <2>5 DEF Loses
      <4>1. CASE n \in Pending(c)
        <5>1. n <= taken
          BY <4>1 DEF EntriesAccounted
        <5> QED BY <4>0, <4>1, <5>1, <1>0, <1>n DEF PlaceOf
      <4>2. CASE n \notin Pending(c)
        <5>1. n \in lost' <=> n \in lost
          BY <4>0, <4>2
        <5> QED BY <4>0, <4>2, <5>1 DEF PlaceOf
      <4> QED BY <4>1, <4>2
    <3>2. Delivery!Move(Pending(c), "lost")
      BY <3>1, <2>1, MovesPlaces
    <3> QED BY <2>3, <3>2 DEF Delivery!Next, Delivery!Lose
  <2>6. CASE Keeps(c)
    BY <2>1, <2>6, <1>0, NothingMoves DEF Keeps
  <2> QED BY <2>1, <2>2, <2>4, <2>5, <2>6
<1>3. CASE ~Add /\ ~\E c \in Loops : LoopStep(c)
  <2>1. added' = added
    BY <1>3 DEF Next, CoordinatorStep, TogglePlugin, ToggleReconciles, ToggleEnds, ToggleFails, RevertReconciles, Reconcile,
                BindingChanged, StopAsync, StopCoordinator, StopFinishes, StopAborted, vars, channel
  <2>2. UNCHANGED <<taken, rows, lost>> /\ (gaveUp => gaveUp')
    BY <1>3, OtherStepsKeep
  <2> QED BY <2>1, <2>2, <1>0, NothingMoves
<1> QED BY <1>1, <1>2, <1>3

LEMMA InitDelivers == Init => Delivery!Init
<1> SUFFICES ASSUME Init PROVE Delivery!Init
  OBVIOUS
<1>1. \A n \in Entries : PlaceOf[n] = "new"
  BY DEF Init, PlaceOf, Entries
<1>2. PlaceOf = [n \in Entries |-> PlaceOf[n]]
  BY DEF PlaceOf
<1>3. PlaceOf = [n \in Entries |-> "new"]
  BY <1>1, <1>2
<1> QED BY <1>3 DEF Init, Delivery!Init

\* The channel, the consumer loops and the coordinator deliver the log as LogDelivery says,
\* for any capacity, batch size, number of loops, faults and changes of the plugin: nothing
\* that was stored or lost moves again, and a batch goes as a whole.
THEOREM DeliveryImplemented == Spec => DeliversLog
BY InitTyped, StepTyped, InitReaders, StepReaders, InitAccounted, StepAccounted, InitDelivers, StepDelivers,
   PTL DEF Spec, DeliversLog, Delivery!Spec
=============================================================================
