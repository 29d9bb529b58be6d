------------------------------ MODULE LogTabs ------------------------------
(***************************************************************************)
(* What the two tabs of the logs page share: which of them is open, how    *)
(* much has been done to the page, and slots for requests not in use.      *)
(***************************************************************************)
EXTENDS Naturals

CONSTANTS
  None,
  MaxOps  \* bound: operations of the user and the browser

ASSUME TabsAssumption == MaxOps \in Nat

VARIABLES
  tab,  \* activeTab
  ops   \* operations so far (bound MaxOps)

Operation == ops < MaxOps /\ ops' = ops + 1

Idle == [phase |-> "idle"]
=============================================================================
