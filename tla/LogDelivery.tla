---------------------------- MODULE LogDelivery ----------------------------
(***************************************************************************)
(* What the persistence of the proxy's log promises.  The queue accepts    *)
(* entries in order and hands them out in order.  What has been handed out *)
(* reaches the store, or is lost, in whole batches and once and for all.   *)
(* As long as stops are waited for, a batch is all that is handed out, so  *)
(* the store receives the entries in the order they were accepted.         *)
(***************************************************************************)
EXTENDS Naturals

CONSTANT Entries   \* numbers, in the order of acceptance

VARIABLES
  place,     \* of each entry
  patient    \* nobody has given up on a stop

vars == <<place, patient>>

In(p) == {n \in Entries : place[n] = p}

First(n, p) == n \in In(p) /\ \A m \in In(p) : n <= m

Move(S, p) ==
  /\ place' = [n \in Entries |-> IF n \in S THEN p ELSE place[n]]
  /\ UNCHANGED patient

Init == place = [n \in Entries |-> "new"] /\ patient = TRUE

Accept(n) == First(n, "new") /\ Move({n}, "queued")

HandOut(n) == First(n, "queued") /\ Move({n}, "held")

Batch(S) == S \in SUBSET In("held") /\ (patient => S = In("held"))

Store(S) == Batch(S) /\ Move(S, "stored")

Lose(S) == Batch(S) /\ Move(S, "lost")

GiveUp == patient /\ patient' = FALSE /\ UNCHANGED place

Next ==
  \/ \E n \in Entries : Accept(n) \/ HandOut(n)
  \/ \E S \in SUBSET Entries : Store(S) \/ Lose(S)
  \/ GiveUp

Spec == Init /\ [][Next]_vars
=============================================================================
