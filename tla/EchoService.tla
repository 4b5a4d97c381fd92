----------------------------- MODULE EchoService ------------------------------
(***************************************************************************)
(* What a client may expect of the echo side of TopicRelayNode when every  *)
(* subscribe carries a fresh request id: a request is opened at most once, *)
(* gets the messages of its topic while it is live, and ends for good by   *)
(* its first message (once), its deadline, or an unsubscribe.              *)
(***************************************************************************)
EXTENDS Naturals

CONSTANTS Topics, RequestIds

VARIABLES
  live,      \* open requests
  deadline,  \* ids of open requests that have a deadline
  used,      \* ids of the commands handled so far
  payloads,  \* payloads sent per id
  expired    \* ids told that their deadline passed

vars == <<live, deadline, used, payloads, expired>>

Request == [request_id : RequestIds, topic_name : Topics, once : BOOLEAN]

Init ==
  /\ live = {}
  /\ deadline = {}
  /\ used = {}
  /\ payloads = [id \in RequestIds |-> 0]
  /\ expired = {}

\* Ends the requests in R.
End(R) ==
  /\ live' = live \ R
  /\ deadline' = deadline \ {r.request_id : r \in R}

Open(r, timed) ==
  /\ r.request_id \notin used
  /\ live' = live \cup {r}
  /\ deadline' = IF timed THEN deadline \cup {r.request_id} ELSE deadline
  /\ used' = used \cup {r.request_id}
  /\ UNCHANGED <<payloads, expired>>

Refuse(id) ==
  /\ id \notin used
  /\ used' = used \cup {id}
  /\ UNCHANGED <<live, deadline, payloads, expired>>

Deliver(t) ==
  LET receivers == {r \in live : r.topic_name = t}
  IN /\ receivers # {}
     /\ payloads' = [id \in RequestIds |->
          IF \E r \in receivers : r.request_id = id THEN payloads[id] + 1 ELSE payloads[id]]
     /\ End({r \in receivers : r.once})
     /\ UNCHANGED <<used, expired>>

Expire(id) ==
  /\ id \in deadline
  /\ End({r \in live : r.request_id = id})
  /\ expired' = expired \cup {id}
  /\ UNCHANGED <<used, payloads>>

Close(topics) ==
  /\ End({r \in live : r.topic_name \in topics})
  /\ UNCHANGED <<used, payloads, expired>>

Next ==
  \/ \E r \in Request, timed \in BOOLEAN : Open(r, timed)
  \/ \E id \in RequestIds : Refuse(id) \/ Expire(id)
  \/ \E t \in Topics : Deliver(t)
  \/ \E topics \in SUBSET Topics : Close(topics)

Spec == Init /\ [][Next]_vars
===============================================================================
