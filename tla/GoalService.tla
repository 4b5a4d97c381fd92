------------------------------ MODULE GoalService ------------------------------
(***************************************************************************)
(* What a client may expect of the action node, told by request id: every  *)
(* goal it asks for ends with one result, feedback comes only before       *)
(* that, and a goal is dropped without a result only in favour of another  *)
(* one with the same id.                                                   *)
(***************************************************************************)
EXTENDS Naturals

CONSTANT RequestIds

VARIABLES
  open,      \* goals asked for that have not ended, per id
  ended,     \* results given, per id
  heard      \* there was feedback since the last result

serviceVars == <<open, ended, heard>>

ServiceInit ==
  /\ open = [r \in RequestIds |-> 0]
  /\ ended = [r \in RequestIds |-> 0]
  /\ heard = [r \in RequestIds |-> FALSE]

Ask(r) ==
  /\ open' = [open EXCEPT ![r] = @ + 1]
  /\ UNCHANGED <<ended, heard>>

GiveFeedback(r) ==
  /\ open[r] > 0
  /\ heard' = [heard EXCEPT ![r] = TRUE]
  /\ UNCHANGED <<open, ended>>

\* In one step of the node the goals of several ids may end with their result
\* (S), and some may lose one to another with the same id (D).
Settle(S, D) ==
  /\ \A r \in S : open[r] > 0
  /\ \A r \in D : open[r] > 1
  /\ open' = [r \in RequestIds |->
                open[r] - (IF r \in S THEN 1 ELSE 0) - (IF r \in D THEN 1 ELSE 0)]
  /\ ended' = [r \in RequestIds |-> IF r \in S THEN ended[r] + 1 ELSE ended[r]]
  /\ heard' = [r \in RequestIds |-> heard[r] /\ r \notin S]

ServiceNext ==
  \/ \E r \in RequestIds : Ask(r) \/ GiveFeedback(r)
  \/ \E S, D \in SUBSET RequestIds : Settle(S, D)

ServiceSpec == ServiceInit /\ [][ServiceNext]_serviceVars
===============================================================================
