--------------------------- MODULE WriteApproval ---------------------------
(***************************************************************************)
(* What the assistant promises about the tools that change the gateway: a  *)
(* call of such a tool is put before the user, runs only once the user has *)
(* approved it, and runs at most once.                                     *)
(***************************************************************************)
EXTENDS Naturals

CONSTANT Calls

VARIABLES
  approval,   \* per call: not made, put before the user, approved or declined
  runs        \* how often each call has run

vars == <<approval, runs>>

Init ==
  /\ approval = [c \in Calls |-> "none"]
  /\ runs = [c \in Calls |-> 0]

Decide(c, from, to) ==
  /\ approval[c] = from
  /\ approval' = [approval EXCEPT ![c] = to]
  /\ UNCHANGED runs

Propose(c) == Decide(c, "none", "proposed")
Approve(c) == Decide(c, "proposed", "approved")
Decline(c) == Decide(c, "proposed", "declined")

Run(c) ==
  /\ approval[c] = "approved"
  /\ runs[c] = 0
  /\ runs' = [runs EXCEPT ![c] = 1]
  /\ UNCHANGED approval

Next == \E c \in Calls : Propose(c) \/ Approve(c) \/ Decline(c) \/ Run(c)

Spec == Init /\ [][Next]_vars
=============================================================================
