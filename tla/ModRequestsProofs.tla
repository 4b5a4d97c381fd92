--------------------------- MODULE ModRequestsProofs ---------------------------
(***************************************************************************)
(* Proofs about ModRequests, for any players, addons and kinds of requests *)
(* and any number of requests, events, connections and worlds.             *)
(***************************************************************************)
EXTENDS ModRequests, SequenceTheorems, TLAPS

Kinds == CommandKinds \cup AddonKinds \cup {"echo_stop"}
Via == [connection : Nat \ {0}, type : BridgeTypes]
Request == [id : Nat, by : Players \cup Addons, kind : Kinds, topic : Topics, via : Via]
Counts == [events : Nat, owed : Nat, heard : Nat, outcomes : Nat, strangers : Nat]

Typed ==
  /\ requests \in Seq(Request) /\ told \in Seq(Counts) /\ Len(told) = Len(requests)
  /\ server \in BOOLEAN /\ ticking \in BOOLEAN /\ bridgeType \in BridgeTypes
  /\ connections \in Nat /\ bridge \in {0, connections} /\ (bridge # 0 \/ ticking => server)

\* Requests are numbered over all bridges, and a bridge that was closed is not
\* opened again: the one that is open has the number of the last connection.
Numbered ==
  \A s \in DOMAIN requests :
    /\ requests[s].id = s
    /\ requests[s].via.connection <= connections
    /\ requests[s].via.connection = bridge => requests[s].via = active

\* An entry of the commands is that of its request.
Entered ==
  \A i \in DOMAIN pending :
    /\ i \in DOMAIN requests /\ requests[i].by \in Players
    /\ pending[i].request = i /\ pending[i].old \in BOOLEAN

\* The addons own what they have asked: as long as they hold a handle, or until
\* they have heard of it.
HeldByHandle ==
  /\ handles \subseteq DOMAIN requests /\ DOMAIN persistentOwners = handles
  /\ \A i \in handles : /\ persistentOwners[i] = requests[i].by
                        /\ requests[i].by \in addons /\ HasHandle(requests[i].kind)
HeldUntilHeard ==
  /\ DOMAIN oneShotOwners =
       {i \in DOMAIN requests : requests[i].by \in addons /\ ~HasHandle(requests[i].kind) /\ told[i].owed = 0}
  /\ \A i \in DOMAIN oneShotOwners : oneShotOwners[i] = requests[i].by
Owned == addons \subseteq Addons /\ HeldByHandle /\ HeldUntilHeard

\* Only echoes and statistics go on.
Lasting == \A s \in sessions : s \in DOMAIN requests /\ requests[s].kind \in Echoes \cup Stats

ModInv ==
  Typed /\ Numbered /\ Entered /\ Owned /\ Lasting /\ NoStrangers /\ PlayersAreTold /\ AddonsAreTold /\ SessionsAreStopped

-------------------------------------------------------------------------------
\* What the elements of the two histories are.
LEMMA Histories ==
  ASSUME Typed
  PROVE  /\ Len(requests) \in Nat
         /\ DOMAIN requests = 1 .. Len(requests) /\ DOMAIN told = 1 .. Len(requests)
         /\ \A s \in DOMAIN requests : requests[s] \in Request /\ told[s] \in Counts
         /\ nextRequestId \notin DOMAIN requests /\ nextRequestId \in Nat
<1>1. Len(requests) \in Nat /\ DOMAIN requests = 1 .. Len(requests) /\ DOMAIN told = 1 .. Len(requests)
  BY LenProperties DEF Typed
<1>2. \A s \in DOMAIN requests : requests[s] \in Request /\ told[s] \in Counts
  BY <1>1, ElementOfSeq DEF Typed
<1> QED
  BY <1>1, <1>2 DEF nextRequestId

\* The invariant implies what the runs check.
LEMMA Implied ==
  ASSUME Players \cap Addons = {}, ModInv
  PROVE  ModConsistent
<1> USE Histories DEF ModInv
<1>1. TypeOK
  <2>1. \A i \in DOMAIN pending : pending[i].request \in DOMAIN requests /\ pending[i].old \in BOOLEAN
    BY DEF Entered
  <2>2. handles \cup sessions \subseteq DOMAIN requests
    BY DEF Owned, HeldByHandle, Lasting
  <2> QED
    BY <2>1, <2>2 DEF TypeOK, Typed
<1>2. OwnersAreApart
  <2>1. \A i \in DOMAIN pending : requests[i].by \notin addons
    BY DEF Entered, Owned
  <2> QED
    BY <2>1 DEF OwnersAreApart, Owned, HeldByHandle, HeldUntilHeard
<1> QED
  BY <1>1, <1>2 DEF ModConsistent, RequestsReachOwners

LEMMA InitInv == Init => ModInv
<1> SUFFICES ASSUME Init PROVE ModInv
  OBVIOUS
<1>1. requests = <<>> /\ told = <<>> /\ Len(requests) = 0 /\ Len(told) = 0
  BY EmptySeq DEF Init
<1>2. requests \in Seq(Request) /\ told \in Seq(Counts)
  BY <1>1, EmptySeq
<1>3. DOMAIN requests = {} /\ DOMAIN pending = {} /\ DOMAIN oneShotOwners = {} /\ DOMAIN persistentOwners = {}
  BY DEF Init
<1>4. Typed
  BY <1>1, <1>2 DEF Typed, Init
<1>5. Numbered /\ Entered /\ NoStrangers /\ PlayersAreTold /\ AddonsAreTold
  BY <1>3 DEF Numbered, Entered, NoStrangers, PlayersAreTold, AddonsAreTold
<1>6. Owned /\ Lasting /\ SessionsAreStopped
  BY <1>3 DEF Init, Owned, HeldByHandle, HeldUntilHeard, Lasting, SessionsAreStopped
<1> QED
  BY <1>4, <1>5, <1>6 DEF ModInv

-------------------------------------------------------------------------------
\* A packet that is sent adds one request, under an id of its own.
LEMMA Sending ==
  ASSUME ModInv, NEW by \in Players \cup Addons, NEW k \in Kinds, NEW t \in Topics, NEW via \in Via,
         via.connection <= connections, via.connection = bridge => via = active,
         Send(by, k, t, via),
         UNCHANGED <<server, ticking, bridgeType, bridge, connections>>
  PROVE  /\ DOMAIN requests' = DOMAIN requests \cup {nextRequestId}
         /\ \A s \in DOMAIN requests : requests'[s] = requests[s] /\ told'[s] = told[s]
         /\ requests'[nextRequestId] = [id |-> nextRequestId, by |-> by, kind |-> k, topic |-> t, via |-> via]
         /\ told'[nextRequestId] = Untold
         /\ sessions' \subseteq sessions \cup {nextRequestId}
         /\ Typed' /\ Numbered' /\ Lasting' /\ NoStrangers'
<1> DEFINE n == nextRequestId
           r == [id |-> n, by |-> by, kind |-> k, topic |-> t, via |-> via]
<1>1. /\ Typed /\ Len(requests) \in Nat /\ Len(told) = Len(requests)
      /\ DOMAIN requests = 1 .. Len(requests) /\ n = Len(requests) + 1 /\ n \notin DOMAIN requests
  BY Histories DEF ModInv, Typed, nextRequestId
<1>2. r \in Request /\ Untold \in Counts
  BY <1>1 DEF Request, Counts, Untold
<1>3. requests' = Append(requests, r) /\ told' = Append(told, Untold)
  BY DEF Send
<1>4. /\ requests' \in Seq(Request) /\ Len(requests') = Len(requests) + 1
      /\ \A s \in 1 .. Len(requests) : requests'[s] = requests[s]
      /\ requests'[Len(requests) + 1] = r
  BY <1>1, <1>2, <1>3, AppendProperties DEF Typed
<1>5. /\ told' \in Seq(Counts) /\ Len(told') = Len(told) + 1
      /\ \A s \in 1 .. Len(told) : told'[s] = told[s]
      /\ told'[Len(told) + 1] = Untold
  BY <1>1, <1>2, <1>3, AppendProperties DEF Typed
<1>6. DOMAIN requests' = DOMAIN requests \cup {n}
  BY <1>1, <1>4, LenProperties
<1>7. sessions' \subseteq sessions \cup {n} /\ (n \in sessions' => n \in sessions \/ k \in Echoes \cup Stats)
  BY <1>1 DEF Send
<1>8. Typed'
  BY <1>1, <1>4, <1>5 DEF Typed
<1>9. Numbered'
  BY <1>1, <1>4, <1>6 DEF ModInv, Numbered, active
<1>10. Lasting'
  BY <1>1, <1>4, <1>6, <1>7 DEF ModInv, Lasting
<1>11. NoStrangers'
  BY <1>1, <1>5, <1>6 DEF ModInv, NoStrangers, Untold
<1> QED
  BY <1>1, <1>4, <1>5, <1>6, <1>7, <1>8, <1>9, <1>10, <1>11

\* A command enters its request.
LEMMA CommandInv ==
  ASSUME Players \cap Addons = {}, ModInv,
         NEW p \in Players, NEW k \in CommandKinds, NEW t \in Topics, Command(p, k, t)
  PROVE  ModInv'
<1> DEFINE n == nextRequestId
<1>1. UNCHANGED <<server, ticking, bridgeType, bridge, connections, oneShotOwners, persistentOwners, addons, handles>>
  BY DEF Command
<1>2. active \in Via /\ active.connection <= connections
  BY DEF Command, ModInv, Typed, active, Via
<1>3. /\ DOMAIN requests' = DOMAIN requests \cup {n}
      /\ \A s \in DOMAIN requests : requests'[s] = requests[s] /\ told'[s] = told[s]
      /\ requests'[n] = [id |-> n, by |-> p, kind |-> k, topic |-> t, via |-> active]
      /\ told'[n] = Untold /\ sessions' \subseteq sessions \cup {n}
      /\ Typed' /\ Numbered' /\ Lasting' /\ NoStrangers'
  <2>1. Send(p, k, t, active)
    BY DEF Command
  <2>2. p \in Players \cup Addons /\ k \in Kinds
    BY DEF Kinds
  <2> QED
    BY <1>1, <1>2, <2>1, <2>2, Sending
<1>4. n \notin DOMAIN requests /\ n = Len(requests) + 1
  BY Histories DEF ModInv, nextRequestId
<1>5. ~isTracked(n)
  BY <1>4 DEF isTracked, ModInv, Owned, HeldByHandle, HeldUntilHeard
<1>6. pending' = With(pending, n, [request |-> n, old |-> FALSE])
  BY <1>4, <1>5 DEF Command
<1>7. /\ DOMAIN pending' = DOMAIN pending \cup {n} /\ pending'[n] = [request |-> n, old |-> FALSE]
      /\ \A i \in DOMAIN pending \ {n} : pending'[i] = pending[i]
  BY <1>6 DEF With
<1>8. DOMAIN pending \subseteq DOMAIN requests
  BY DEF ModInv, Entered
<1>9. Entered'
  <2> SUFFICES ASSUME NEW i \in DOMAIN pending'
               PROVE  /\ i \in DOMAIN requests' /\ requests'[i].by \in Players
                      /\ pending'[i].request = i /\ pending'[i].old \in BOOLEAN
    BY DEF Entered
  <2>1. CASE i = n
    BY <2>1, <1>3, <1>7
  <2>2. CASE i # n
    <3>1. i \in DOMAIN pending /\ pending'[i] = pending[i] /\ i \in DOMAIN requests /\ requests'[i] = requests[i]
      BY <2>2, <1>3, <1>7, <1>8
    <3> QED
      BY <3>1, <1>3 DEF ModInv, Entered
  <2> QED
    BY <2>1, <2>2
<1>10. Owned'
  <2>1. p \notin addons
    BY DEF ModInv, Owned
  <2>2. HeldByHandle'
    BY <1>1, <1>3, <1>4 DEF ModInv, Owned, HeldByHandle, HasHandle
  <2>3. HeldUntilHeard'
    BY <1>1, <1>3, <1>4, <2>1 DEF ModInv, Owned, HeldUntilHeard, HasHandle
  <2> QED
    BY <1>1, <2>2, <2>3 DEF ModInv, Owned
<1>11. PlayersAreTold'
  <2> SUFFICES ASSUME NEW s \in DOMAIN requests', requests'[s].by \in Players
               PROVE  /\ s \in sessions' /\ requests'[s].via = active' => Waits(s)' /\ told'[s].heard = told'[s].events
                      /\ ~isPersistentStreamingKind(requests'[s].kind) => told'[s].outcomes = (IF Waits(s)' THEN 0 ELSE 1)
    BY DEF PlayersAreTold
  <2>1. active' = active
    BY <1>1 DEF active
  <2>2. CASE s = n
    BY <2>2, <1>3, <1>7 DEF Waits, Untold
  <2>3. CASE s # n
    <3>1. s \in DOMAIN requests /\ requests'[s] = requests[s] /\ told'[s] = told[s] /\ requests[s].id = s
      BY <2>3, <1>3 DEF ModInv, Numbered
    <3>2. Waits(s)' <=> Waits(s)
      BY <2>3, <3>1, <1>7 DEF Waits
    <3>3. s \in sessions' => s \in sessions
      BY <2>3, <1>3
    <3> QED
      BY <2>1, <3>1, <3>2, <3>3 DEF ModInv, PlayersAreTold, isPersistentStreamingKind
  <2> QED
    BY <2>2, <2>3
<1>12. AddonsAreTold'
  BY <1>3 DEF ModInv, AddonsAreTold, HasHandle, Untold
<1>13. SessionsAreStopped'
  BY <1>1, <1>3 DEF ModInv, SessionsAreStopped, Lasting, active
<1> QED
  BY <1>3, <1>9, <1>10, <1>11, <1>12, <1>13 DEF ModInv

\* What an addon sends leaves the players alone.
LEMMA AddonSends ==
  ASSUME Players \cap Addons = {}, ModInv,
         NEW a \in addons, NEW k \in Kinds, NEW t \in Topics, NEW via \in Via,
         via.connection <= connections, via.connection = bridge => via = active,
         Send(a, k, t, via),
         UNCHANGED <<server, ticking, bridgeType, bridge, connections, pending, addons>>
  PROVE  /\ DOMAIN requests' = DOMAIN requests \cup {nextRequestId}
         /\ \A s \in DOMAIN requests : requests'[s] = requests[s] /\ told'[s] = told[s]
         /\ requests'[nextRequestId] = [id |-> nextRequestId, by |-> a, kind |-> k, topic |-> t, via |-> via]
         /\ told'[nextRequestId] = Untold
         /\ Typed' /\ Numbered' /\ Lasting' /\ NoStrangers'
         /\ Entered' /\ PlayersAreTold' /\ AddonsAreTold' /\ SessionsAreStopped'
<1> DEFINE n == nextRequestId
<1>1. a \in Players \cup Addons /\ a \notin Players
  BY DEF ModInv, Owned
<1>2. UNCHANGED <<server, ticking, bridgeType, bridge, connections>>
  OBVIOUS
<1>3. /\ DOMAIN requests' = DOMAIN requests \cup {n}
      /\ \A s \in DOMAIN requests : requests'[s] = requests[s] /\ told'[s] = told[s]
      /\ requests'[n] = [id |-> n, by |-> a, kind |-> k, topic |-> t, via |-> via]
      /\ told'[n] = Untold /\ sessions' \subseteq sessions \cup {n}
      /\ Typed' /\ Numbered' /\ Lasting' /\ NoStrangers'
  BY <1>1, <1>2, Sending
<1>4. active' = active
  BY DEF active
<1>5. Entered'
  BY <1>3 DEF ModInv, Entered
<1>6. PlayersAreTold'
  <2> SUFFICES ASSUME NEW s \in DOMAIN requests', requests'[s].by \in Players
               PROVE  /\ s \in sessions' /\ requests'[s].via = active' => Waits(s)' /\ told'[s].heard = told'[s].events
                      /\ ~isPersistentStreamingKind(requests'[s].kind) => told'[s].outcomes = (IF Waits(s)' THEN 0 ELSE 1)
    BY DEF PlayersAreTold
  <2>1. s # n /\ s \in DOMAIN requests /\ requests'[s] = requests[s] /\ told'[s] = told[s]
    BY <1>1, <1>3
  <2>2. (Waits(s)' <=> Waits(s)) /\ (s \in sessions' => s \in sessions)
    BY <2>1, <1>3 DEF Waits
  <2> QED
    BY <1>4, <2>1, <2>2 DEF ModInv, PlayersAreTold, isPersistentStreamingKind
<1>7. AddonsAreTold'
  BY <1>3 DEF ModInv, AddonsAreTold, HasHandle, Untold
<1>8. SessionsAreStopped'
  BY <1>1, <1>3, <1>4 DEF ModInv, SessionsAreStopped, Lasting
<1> QED
  BY <1>3, <1>5, <1>6, <1>7, <1>8

\* An addon asks: its request is owned by a handle, or until it is heard of.
LEMMA AddonRequestInv ==
  ASSUME Players \cap Addons = {}, ModInv,
         NEW a \in Addons, NEW k \in AddonKinds, NEW t \in Topics, AddonRequest(a, k, t)
  PROVE  ModInv'
<1> DEFINE n == nextRequestId
<1>1. UNCHANGED <<server, ticking, bridgeType, bridge, connections, pending, addons>> /\ a \in addons
  BY DEF AddonRequest
<1>2. active \in Via /\ active.connection <= connections
  BY DEF AddonRequest, ModInv, Typed, active, Via
<1>3. /\ DOMAIN requests' = DOMAIN requests \cup {n}
      /\ \A s \in DOMAIN requests : requests'[s] = requests[s] /\ told'[s] = told[s]
      /\ requests'[n] = [id |-> n, by |-> a, kind |-> k, topic |-> t, via |-> active]
      /\ told'[n] = Untold
      /\ Typed' /\ Numbered' /\ Lasting' /\ NoStrangers'
      /\ Entered' /\ PlayersAreTold' /\ AddonsAreTold' /\ SessionsAreStopped'
  <2>1. Send(a, k, t, active) /\ k \in Kinds
    BY DEF AddonRequest, Kinds
  <2> QED
    BY <1>1, <1>2, <2>1, AddonSends
<1>4. n \notin DOMAIN requests /\ n = Len(requests) + 1
  BY Histories DEF ModInv, nextRequestId
<1>5. n \notin DOMAIN pending /\ n \notin handles
  BY <1>4 DEF ModInv, Entered, Owned, HeldByHandle
<1>6. CASE HasHandle(k)
  <2>1. handles' = handles \cup {n} /\ oneShotOwners' = oneShotOwners /\ persistentOwners' = With(persistentOwners, n, a)
    BY <1>4, <1>5, <1>6 DEF AddonRequest, OwnedBy, HasHandle, trackPersistent
  <2>2. HeldByHandle'
    BY <1>1, <1>3, <1>4, <1>6, <2>1 DEF ModInv, Owned, HeldByHandle, HasHandle, With
  <2>3. HeldUntilHeard'
    BY <1>1, <1>3, <1>4, <1>6, <2>1 DEF ModInv, Owned, HeldUntilHeard, HasHandle
  <2> QED
    BY <1>1, <1>3, <2>2, <2>3 DEF ModInv, Owned
<1>7. CASE ~HasHandle(k)
  <2>1. handles' = handles /\ persistentOwners' = persistentOwners /\ oneShotOwners' = With(oneShotOwners, n, a)
    BY <1>4, <1>5, <1>7 DEF AddonRequest, OwnedBy, HasHandle, trackPersistent
  <2>2. HeldByHandle'
    BY <1>1, <1>3, <1>4, <1>5, <2>1 DEF ModInv, Owned, HeldByHandle, HasHandle
  <2>3. HeldUntilHeard'
    BY <1>1, <1>3, <1>4, <1>7, <2>1 DEF ModInv, Owned, HeldUntilHeard, HasHandle, With, Untold
  <2> QED
    BY <1>1, <1>3, <2>2, <2>3 DEF ModInv, Owned
<1> QED
  BY <1>6, <1>7

\* A handle is closed: its request has no owner any more, and the unsubscribe of
\* a topic is owned until it is heard of.
LEMMA CloseHandleInv ==
  ASSUME Players \cap Addons = {}, ModInv, NEW s \in handles, CloseHandle(s)
  PROVE  ModInv'
<1> DEFINE n == nextRequestId
           r == requests[s]
<1>1. /\ UNCHANGED <<server, ticking, bridgeType, bridge, connections, pending, addons>>
      /\ r.by \in addons /\ handles' = handles \ {s}
  BY DEF CloseHandle
<1>2. s \in DOMAIN requests /\ r.id = s /\ HasHandle(r.kind) /\ s \in DOMAIN persistentOwners /\ persistentOwners[s] = r.by
  BY DEF ModInv, Numbered, Owned, HeldByHandle
<1>3. persistentOwners' = Without(persistentOwners, s)
  BY <1>2 DEF CloseHandle, untracked
<1>4. untracked(oneShotOwners, r.by, r.id) = oneShotOwners
  BY <1>2 DEF untracked, ModInv, Owned, HeldUntilHeard
<1>5. DOMAIN persistentOwners' = handles' /\ \A i \in handles' : persistentOwners'[i] = persistentOwners[i]
  BY <1>1, <1>3 DEF Without, Restrict, ModInv, Owned, HeldByHandle
<1>6. CASE CloseGoal(r)
  <2>1. UNCHANGED <<sessions, requests, told, oneShotOwners>>
    BY <1>4, <1>6 DEF CloseGoal
  <2>2. HeldByHandle'
    BY <1>1, <1>5, <2>1 DEF ModInv, Owned, HeldByHandle, HasHandle
  <2>3. Owned'
    BY <1>1, <2>1, <2>2 DEF ModInv, Owned, HeldUntilHeard, HasHandle
  <2>4. Typed' /\ Numbered' /\ Entered' /\ Lasting' /\ NoStrangers' /\ AddonsAreTold' /\ SessionsAreStopped'
    BY <1>1, <2>1 DEF ModInv, Typed, Numbered, Entered, Lasting, NoStrangers, AddonsAreTold, SessionsAreStopped, active, HasHandle
  <2>5. PlayersAreTold'
    BY <1>1, <2>1 DEF ModInv, PlayersAreTold, Waits, active, isPersistentStreamingKind
  <2> QED
    BY <2>3, <2>4, <2>5 DEF ModInv
<1>7. CASE CloseTopic(r)
  <2>1. r \in Request
    BY <1>2, Histories DEF ModInv
  <2>2. r.via \in Via /\ r.topic \in Topics /\ r.via.connection <= connections /\ (r.via.connection = bridge => r.via = active)
    BY <1>2, <2>1 DEF Request, ModInv, Numbered
  <2>3. /\ DOMAIN requests' = DOMAIN requests \cup {n}
        /\ \A i \in DOMAIN requests : requests'[i] = requests[i] /\ told'[i] = told[i]
        /\ requests'[n] = [id |-> n, by |-> r.by, kind |-> "echo_stop", topic |-> r.topic, via |-> r.via]
        /\ told'[n] = Untold
        /\ Typed' /\ Numbered' /\ Lasting' /\ NoStrangers'
        /\ Entered' /\ PlayersAreTold' /\ AddonsAreTold' /\ SessionsAreStopped'
    <3>1. Send(r.by, "echo_stop", r.topic, r.via) /\ "echo_stop" \in Kinds
      BY <1>7 DEF CloseTopic, Kinds
    <3> QED
      BY <1>1, <2>2, <3>1, AddonSends
  <2>4. n \notin DOMAIN requests /\ n \notin DOMAIN pending
    BY Histories DEF ModInv, Entered
  <2>5. oneShotOwners' = With(oneShotOwners, n, r.by)
    BY <1>4, <1>7, <2>4 DEF CloseTopic, OwnedBy
  <2>6. ~HasHandle("echo_stop")
    BY DEF HasHandle, Echoes
  <2>7. HeldByHandle'
    BY <1>1, <1>5, <2>3, <2>4 DEF ModInv, Owned, HeldByHandle, HasHandle
  <2>8. HeldUntilHeard'
    <3>1. /\ DOMAIN oneShotOwners' = DOMAIN oneShotOwners \cup {n} /\ oneShotOwners'[n] = requests'[n].by
          /\ \A i \in DOMAIN oneShotOwners \ {n} : oneShotOwners'[i] = oneShotOwners[i]
      BY <2>3, <2>5 DEF With
    <3>2. requests'[n].by \in addons /\ ~HasHandle(requests'[n].kind) /\ told'[n].owed = 0
      BY <1>1, <2>3, <2>6 DEF Untold
    <3> HIDE DEF n, r
    <3> QED
      BY <1>1, <2>3, <2>4, <3>1, <3>2 DEF ModInv, Owned, HeldUntilHeard, HasHandle
  <2> QED
    BY <1>1, <2>3, <2>7, <2>8 DEF ModInv, Owned
<1> QED
  BY <1>6, <1>7 DEF CloseHandle

-------------------------------------------------------------------------------
\* An event: who is told of it, and what is left of the entry of its request.
LEMMA Telling ==
  ASSUME ModInv, NEW s \in DOMAIN requests, NEW event, Deliver(s, event)
  PROVE  /\ requests[s].id = s /\ told' = [told EXCEPT ![s] = Told(s, event)]
         /\ Waits(s) <=> s \in DOMAIN pending
         /\ Owner(s) \cap addons = IF s \in DOMAIN oneShotOwners \cup DOMAIN persistentOwners THEN {requests[s].by} ELSE {}
         /\ Waits(s) => Expected(s, event)
         /\ pending' = IF Waits(s) /\ Completes(s, event) THEN Without(pending, s) ELSE pending
         /\ oneShotOwners' = Without(oneShotOwners, s)
<1>1. requests[s].id = s /\ (s \in DOMAIN pending => pending[s].request = s)
  BY DEF ModInv, Numbered, Entered
<1>2. Owner(s) \cap addons = IF s \in DOMAIN oneShotOwners \cup DOMAIN persistentOwners THEN {requests[s].by} ELSE {}
  <2>1. CASE s \in DOMAIN oneShotOwners
    BY <2>1 DEF Owner, ModInv, Owned, HeldUntilHeard
  <2>2. CASE s \notin DOMAIN oneShotOwners /\ s \in DOMAIN persistentOwners
    BY <2>2 DEF Owner, ModInv, Owned, HeldByHandle
  <2>3. CASE s \notin DOMAIN oneShotOwners /\ s \notin DOMAIN persistentOwners
    BY <2>3 DEF Owner
  <2> QED
    BY <2>1, <2>2, <2>3
<1>3. (Waits(s) <=> s \in DOMAIN pending) /\ (Waits(s) => Expected(s, event))
  BY <1>1 DEF Waits, Expected
<1> QED
  BY <1>1, <1>2, <1>3 DEF Deliver, consume

LEMMA ToldIs ==
  ASSUME Players \cap Addons = {}, ModInv, NEW s \in DOMAIN requests, NEW event, Deliver(s, event)
  PROVE  LET heard == Waits(s) \/ s \in DOMAIN oneShotOwners \cup DOMAIN persistentOwners
             owed  == requests[s].by \in addons /\ (HasHandle(requests[s].kind) => s \in handles)
             Plus(n, b) == IF b THEN n + 1 ELSE n
         IN  Told(s, event) =
               [events |-> told[s].events + 1, owed |-> Plus(told[s].owed, owed), heard |-> Plus(told[s].heard, heard),
                outcomes |-> Plus(told[s].outcomes, Waits(s) /\ event # "part"), strangers |-> told[s].strangers]
<1> DEFINE takers == Owner(s) \cap addons
           mine == s \in DOMAIN pending /\ pending[s].request = s
           Count(b) == IF b THEN 1 ELSE 0
<1>1. requests[s].id = s /\ (s \in DOMAIN pending <=> mine) /\ (Waits(s) <=> mine)
  BY Telling DEF Waits
<1>2. /\ takers \ {requests[s].by} = {}
      /\ requests[s].by \in takers <=> s \in DOMAIN oneShotOwners \cup DOMAIN persistentOwners
  BY Telling
<1>3. told[s] \in Counts
  BY Histories DEF ModInv
<1>4. Told(s, event) =
        [events    |-> told[s].events + 1,
         owed      |-> told[s].owed + Count(requests[s].by \in addons /\ (HasHandle(requests[s].kind) => s \in handles)),
         heard     |-> told[s].heard + Count(mine \/ requests[s].by \in takers),
         outcomes  |-> told[s].outcomes + Count(mine /\ event # "part"),
         strangers |-> told[s].strangers + Count(takers \ {requests[s].by} # {} \/ (s \in DOMAIN pending /\ ~mine /\ Expected(s, event)))]
  BY <1>1 DEF Told
<1>5. told[s].events \in Nat /\ told[s].owed \in Nat /\ told[s].heard \in Nat /\ told[s].outcomes \in Nat /\ told[s].strangers \in Nat
  BY <1>3 DEF Counts
<1> HIDE DEF takers, mine
<1> QED
  BY <1>1, <1>2, <1>4, <1>5

\* Nobody else is told, and everybody is told in time.
LEMMA DeliverInv ==
  ASSUME Players \cap Addons = {}, ModInv,
         NEW s \in DOMAIN requests, NEW event \in {"part", "answer", "error"}, Deliver(s, event)
  PROVE  ModInv'
<1> DEFINE held == s \in DOMAIN oneShotOwners \cup DOMAIN persistentOwners
           owed == requests[s].by \in addons /\ (HasHandle(requests[s].kind) => s \in handles)
<1>1. /\ UNCHANGED <<server, worlds, ticking, bridgeType, bridge, connections, addons, handles, requests, persistentOwners>>
      /\ active' = active
  BY DEF Deliver, consume, active
<1>2. /\ requests[s].id = s /\ (Waits(s) <=> s \in DOMAIN pending)
      /\ pending' = IF Waits(s) /\ Completes(s, event) THEN Without(pending, s) ELSE pending
      /\ oneShotOwners' = Without(oneShotOwners, s)
      /\ Waits(s) => Expected(s, event)
  BY Telling
<1>3. told[s] \in Counts /\ s \in DOMAIN told /\ DOMAIN told = DOMAIN requests /\ DOMAIN requests = 1 .. Len(requests)
  BY Histories DEF ModInv
<1>4. /\ told[s].events \in Nat /\ told[s].owed \in Nat /\ told[s].heard \in Nat
      /\ told[s].outcomes \in Nat /\ told[s].strangers \in Nat
  BY <1>3 DEF Counts
<1>5. /\ told' = [told EXCEPT ![s] = Told(s, event)]
      /\ Told(s, event) =
            [events   |-> told[s].events + 1,
             owed     |-> IF owed THEN told[s].owed + 1 ELSE told[s].owed,
             heard    |-> IF Waits(s) \/ held THEN told[s].heard + 1 ELSE told[s].heard,
             outcomes |-> IF Waits(s) /\ event # "part" THEN told[s].outcomes + 1 ELSE told[s].outcomes,
             strangers |-> told[s].strangers]
  BY Telling, ToldIs
<1>6. /\ \A i \in DOMAIN requests \ {s} : told'[i] = told[i]
      /\ told'[s] = Told(s, event) /\ Told(s, event) \in Counts
  BY <1>3, <1>4, <1>5 DEF Counts
<1>7. /\ told'[s].events = told[s].events + 1 /\ told'[s].strangers = told[s].strangers
      /\ told'[s].owed = IF owed THEN told[s].owed + 1 ELSE told[s].owed
      /\ told'[s].heard = IF Waits(s) \/ held THEN told[s].heard + 1 ELSE told[s].heard
      /\ told'[s].outcomes = IF Waits(s) /\ event # "part" THEN told[s].outcomes + 1 ELSE told[s].outcomes
  BY <1>5, <1>6
<1> HIDE DEF held, owed
<1>8. /\ DOMAIN oneShotOwners' = DOMAIN oneShotOwners \ {s}
      /\ \A i \in DOMAIN oneShotOwners' : oneShotOwners'[i] = oneShotOwners[i]
      /\ DOMAIN pending' = IF Waits(s) /\ Completes(s, event) THEN DOMAIN pending \ {s} ELSE DOMAIN pending
      /\ \A i \in DOMAIN pending' : pending'[i] = pending[i]
  BY <1>2 DEF Without, Restrict
<1>9. Typed'
  <2>1. told' \in Seq(Counts) /\ Len(told') = Len(told)
    <3>1. told \in Seq(Counts) /\ s \in 1 .. Len(told)
      BY <1>3 DEF ModInv, Typed
    <3> QED
      BY <1>5, <1>6, <3>1, ExceptSeq
  <2> QED
    BY <1>1, <2>1 DEF ModInv, Typed
<1>10. Numbered' /\ NoStrangers'
  BY <1>1, <1>6, <1>7 DEF ModInv, Numbered, NoStrangers
<1>11. Entered'
  BY <1>1, <1>8 DEF ModInv, Entered
<1>12. Lasting' /\ SessionsAreStopped'
  BY <1>1 DEF Deliver, ModInv, Lasting, SessionsAreStopped
<1>13. held <=> owed /\ (HasHandle(requests[s].kind) \/ told[s].owed = 0)
  BY DEF held, owed, ModInv, Owned, HeldByHandle, HeldUntilHeard
<1>14. Owned'
  <2>1. HeldByHandle'
    BY <1>1 DEF ModInv, Owned, HeldByHandle, HasHandle
  <2>2. HeldUntilHeard'
    <3>1. ASSUME s \notin DOMAIN oneShotOwners PROVE requests[s].by \notin addons \/ HasHandle(requests[s].kind) \/ told'[s].owed # 0
      BY <1>4, <1>7, <3>1 DEF ModInv, Owned, HeldUntilHeard
    <3>2. ASSUME s \in DOMAIN oneShotOwners PROVE told'[s].owed # 0
      BY <1>4, <1>7, <3>2 DEF owed, ModInv, Owned, HeldUntilHeard
    <3> QED
      BY <1>1, <1>6, <1>8, <3>1, <3>2 DEF ModInv, Owned, HeldUntilHeard, HasHandle
  <2> QED
    BY <1>1, <2>1, <2>2 DEF ModInv, Owned
<1>15. AddonsAreTold'
  <2>1. ASSUME requests[s].by \in Addons
        PROVE  told'[s].heard = IF HasHandle(requests[s].kind) \/ told'[s].owed = 0 THEN told'[s].owed ELSE 1
    <3>1. ~Waits(s)
      BY <1>2, <2>1 DEF ModInv, Entered
    <3>2. told[s].heard = IF HasHandle(requests[s].kind) \/ told[s].owed = 0 THEN told[s].owed ELSE 1
      BY <2>1 DEF ModInv, AddonsAreTold
    <3> QED
      BY <1>4, <1>7, <1>13, <3>1, <3>2
  <2> QED
    BY <1>1, <1>6, <2>1 DEF ModInv, AddonsAreTold, HasHandle
<1>16. PlayersAreTold'
  <2> SUFFICES ASSUME NEW i \in DOMAIN requests, requests[i].by \in Players
               PROVE  /\ i \in sessions' /\ requests[i].via = active => Waits(i)' /\ told'[i].heard = told'[i].events
                      /\ ~isPersistentStreamingKind(requests[i].kind) => told'[i].outcomes = (IF Waits(i)' THEN 0 ELSE 1)
    BY <1>1 DEF PlayersAreTold, isPersistentStreamingKind
  <2>1. CASE i # s
    <3>1. requests[i].id = i
      BY DEF ModInv, Numbered
    <3>2. Waits(i)' <=> Waits(i)
      BY <1>1, <1>8, <2>1, <3>1 DEF Waits
    <3>3. told'[i] = told[i] /\ (i \in sessions' => i \in sessions)
      BY <1>6, <2>1 DEF Deliver
    <3> QED
      BY <3>2, <3>3 DEF ModInv, PlayersAreTold
  <2>2. CASE i = s
    <3>1. Waits(s)' <=> Waits(s) /\ ~Completes(s, event)
      BY <1>1, <1>2, <1>8 DEF Waits
    <3>2. ASSUME s \in sessions', requests[s].via = active
          PROVE  Waits(s)' /\ told'[s].heard = told'[s].events
      <4>1. s \in sessions /\ event # "error" /\ requests[s].kind # "once"
        BY <3>2 DEF Deliver
      <4>2. Waits(s) /\ told[s].heard = told[s].events
        BY <2>2, <3>2, <4>1 DEF ModInv, PlayersAreTold
      <4>3. event = "part"
        BY <4>1 DEF Deliver, Comes, ModInv, Lasting, Echoes, Stats
      <4> QED
        BY <1>2, <1>7, <3>1, <4>1, <4>2, <4>3 DEF Completes
    <3>3. ASSUME ~isPersistentStreamingKind(requests[s].kind)
          PROVE  told'[s].outcomes = (IF Waits(s)' THEN 0 ELSE 1)
      <4>1. told[s].outcomes = (IF Waits(s) THEN 0 ELSE 1)
        BY <2>2, <3>3 DEF ModInv, PlayersAreTold
      <4>2. requests[s].kind # "once"
        BY <3>3 DEF isPersistentStreamingKind, Echoes
      <4>3. Waits(s) => (Completes(s, event) <=> event # "part")
        BY <1>2, <4>2 DEF Completes
      <4> QED
        BY <1>4, <1>7, <3>1, <4>1, <4>3
    <3> QED
      BY <2>2, <3>2, <3>3
  <2> QED
    BY <2>1, <2>2
<1> QED
  BY <1>9, <1>10, <1>11, <1>12, <1>14, <1>15, <1>16 DEF ModInv

\* A question that has waited for too long has its outcome: the timeout.
LEMMA EndTickInv ==
  ASSUME ModInv, EndTick
  PROVE  ModInv'
<1> DEFINE timedOut == {i \in DOMAIN pending :
                          pending[i].old /\ ~isPersistentStreamingKind(requests[pending[i].request].kind)}
<1>1. /\ UNCHANGED <<server, worlds, bridgeType, bridge, connections, oneShotOwners, persistentOwners, addons, handles,
                     sessions, requests>>
      /\ ticking /\ ticking' = FALSE /\ active' = active
  BY DEF EndTick, active
<1>2. /\ \A s \in DOMAIN requests : requests[s].id = s /\ told[s] \in Counts
      /\ DOMAIN told = DOMAIN requests /\ DOMAIN requests = 1 .. Len(requests) /\ Len(requests) \in Nat
  BY Histories DEF ModInv, Numbered
<1>3. \A i \in DOMAIN pending : i \in DOMAIN requests /\ pending[i].request = i
  BY DEF ModInv, Entered
<1>4. /\ DOMAIN pending' = DOMAIN pending \ timedOut
      /\ \A i \in DOMAIN pending' : pending'[i] = pending[i]
  BY DEF EndTick, Restrict
<1>5. told' = [s \in DOMAIN told |-> IF s \in timedOut THEN [told[s] EXCEPT !.outcomes = @ + 1] ELSE told[s]]
  <2>1. told' = [s \in DOMAIN told |->
                   IF \E i \in timedOut : pending[i].request = s THEN [told[s] EXCEPT !.outcomes = @ + 1] ELSE told[s]]
    BY DEF EndTick
  <2>2. \A s \in DOMAIN told : (\E i \in timedOut : pending[i].request = s) <=> s \in timedOut
    BY <1>3
  <2> QED
    BY <2>1, <2>2
<1>6. \A s \in timedOut : ~isPersistentStreamingKind(requests[s].kind) /\ s \in DOMAIN pending
  BY <1>3
<1> HIDE DEF timedOut
<1>7. \A s \in DOMAIN requests :
        /\ told'[s] \in Counts
        /\ told'[s].events = told[s].events /\ told'[s].owed = told[s].owed /\ told'[s].heard = told[s].heard
        /\ told'[s].strangers = told[s].strangers
        /\ told'[s].outcomes = IF s \in timedOut THEN told[s].outcomes + 1 ELSE told[s].outcomes
  BY <1>2, <1>5 DEF Counts
<1>8. Typed'
  <2>1. told' \in [1 .. Len(requests) -> Counts]
    BY <1>2, <1>5, <1>7
  <2>2. told' \in Seq(Counts) /\ Len(told') = Len(requests)
    BY <1>2, <2>1
  <2> QED
    BY <1>1, <2>2 DEF ModInv, Typed
<1>9. Numbered' /\ NoStrangers' /\ Lasting' /\ SessionsAreStopped'
  BY <1>1, <1>7 DEF ModInv, Numbered, NoStrangers, Lasting, SessionsAreStopped
<1>10. Entered'
  BY <1>1, <1>4 DEF ModInv, Entered
<1>11. Owned'
  <2>1. HeldByHandle'
    BY <1>1 DEF ModInv, Owned, HeldByHandle, HasHandle
  <2>2. HeldUntilHeard'
    BY <1>1, <1>7 DEF ModInv, Owned, HeldUntilHeard, HasHandle
  <2> QED
    BY <1>1, <2>1, <2>2 DEF ModInv, Owned
<1>12. AddonsAreTold'
  BY <1>1, <1>7 DEF ModInv, AddonsAreTold, HasHandle
<1>13. PlayersAreTold'
  <2> SUFFICES ASSUME NEW s \in DOMAIN requests, requests[s].by \in Players
               PROVE  /\ s \in sessions /\ requests[s].via = active => Waits(s)' /\ told'[s].heard = told'[s].events
                      /\ ~isPersistentStreamingKind(requests[s].kind) => told'[s].outcomes = (IF Waits(s)' THEN 0 ELSE 1)
    BY <1>1 DEF PlayersAreTold, isPersistentStreamingKind
  <2>1. (Waits(s) <=> s \in DOMAIN pending) /\ (Waits(s)' <=> Waits(s) /\ s \notin timedOut)
    BY <1>1, <1>2, <1>3, <1>4 DEF Waits
  <2>2. /\ s \in sessions /\ requests[s].via = active => Waits(s) /\ told[s].heard = told[s].events
        /\ ~isPersistentStreamingKind(requests[s].kind) => told[s].outcomes = (IF Waits(s) THEN 0 ELSE 1)
    BY DEF ModInv, PlayersAreTold
  <2>3. s \in sessions => isPersistentStreamingKind(requests[s].kind)
    BY DEF ModInv, Lasting, isPersistentStreamingKind
  <2> QED
    BY <1>6, <1>7, <2>1, <2>2, <2>3
<1> QED
  BY <1>8, <1>9, <1>10, <1>11, <1>12, <1>13 DEF ModInv

LEMMA TimePassesInv ==
  ASSUME ModInv, TimePasses
  PROVE  ModInv'
<1>1. /\ UNCHANGED <<server, worlds, ticking, bridgeType, bridge, connections, oneShotOwners, persistentOwners, addons,
                     handles, sessions, requests, told>>
      /\ DOMAIN pending' = DOMAIN pending /\ active' = active
  BY DEF TimePasses, active
<1>2. \A i \in DOMAIN pending : pending'[i].request = pending[i].request /\ pending'[i].old \in BOOLEAN
  <2> SUFFICES ASSUME NEW i \in DOMAIN pending
               PROVE  pending'[i].request = pending[i].request /\ pending'[i].old \in BOOLEAN
    OBVIOUS
  <2>1. pending'[i] = [pending[i] EXCEPT !.old = ~isPersistentStreamingKind(requests[pending[i].request].kind)]
    BY DEF TimePasses
  <2> QED
    BY <2>1
<1>3. Typed' /\ Numbered' /\ NoStrangers' /\ Lasting' /\ SessionsAreStopped' /\ AddonsAreTold'
  BY <1>1 DEF ModInv, Typed, Numbered, NoStrangers, Lasting, SessionsAreStopped, AddonsAreTold, HasHandle
<1>4. Owned'
  BY <1>1 DEF ModInv, Owned, HeldByHandle, HeldUntilHeard, HasHandle
<1>5. Entered'
  BY <1>1, <1>2 DEF ModInv, Entered
<1>6. PlayersAreTold'
  BY <1>1, <1>2 DEF ModInv, Numbered, PlayersAreTold, Waits, isPersistentStreamingKind
<1> QED
  BY <1>3, <1>4, <1>5, <1>6 DEF ModInv

-------------------------------------------------------------------------------
\* What leaves the requests and the connection as they are.
LEMMA QuietInv ==
  ASSUME ModInv,
         UNCHANGED <<bridgeType, bridge, connections, pending, oneShotOwners, persistentOwners, addons, handles,
                     sessions, requests, told>>,
         server' \in BOOLEAN, ticking' \in BOOLEAN, bridge # 0 \/ ticking' => server'
  PROVE  ModInv'
<1>1. active' = active
  BY DEF active
<1>2. Typed' /\ Numbered' /\ NoStrangers' /\ Lasting' /\ SessionsAreStopped' /\ AddonsAreTold'
  BY <1>1 DEF ModInv, Typed, Numbered, NoStrangers, Lasting, SessionsAreStopped, AddonsAreTold, HasHandle
<1>3. Owned' /\ Entered'
  BY DEF ModInv, Owned, HeldByHandle, HeldUntilHeard, HasHandle, Entered
<1>4. PlayersAreTold'
  BY <1>1 DEF ModInv, PlayersAreTold, Waits, isPersistentStreamingKind
<1> QED
  BY <1>2, <1>3, <1>4 DEF ModInv

\* The hook before a disconnect reaches every session that a command waits for:
\* what a player has started over this bridge, and names its topic, ends.
Parted ==
  /\ sessions' \subseteq sessions
  /\ \A s \in sessions' : ~(requests[s].by \in Players /\ requests[s].kind # "subscribe")
  /\ DOMAIN pending' \subseteq DOMAIN pending
  /\ \A i \in DOMAIN pending' : pending'[i] = pending[i]
  /\ \A i \in DOMAIN pending \ DOMAIN pending' : isPersistentStreamingKind(requests[i].kind)

\* No request that was made belongs to the bridge that is open next, if any is.
LEMMA NoneOfNull ==
  ASSUME ModInv, NEW s \in DOMAIN requests
  PROVE  /\ requests[s].via.connection \in Nat \ {0}
         /\ bridge = 0 => requests[s].via # active
         /\ bridge' \in {0, connections + 1} => requests[s].via.connection # bridge' /\ requests[s].via # active'
<1>1. requests[s] \in Request /\ requests[s].via.connection <= connections /\ connections \in Nat
  BY Histories DEF ModInv, Numbered, Typed
<1>2. requests[s].via.connection \in Nat \ {0}
  BY <1>1 DEF Request, Via
<1>3. bridge' \in {0, connections + 1} => requests[s].via.connection # bridge'
  BY <1>1, <1>2
<1> QED
  BY <1>2, <1>3 DEF active

LEMMA Parting ==
  ASSUME ModInv, disconnectInternal
  PROVE  Parted
<1>1. \A i \in DOMAIN pending : i \in DOMAIN requests /\ pending[i].request = i
  BY DEF ModInv, Entered
<1>2. CASE bridge = 0
  <2>1. UNCHANGED <<pending, sessions>>
    BY <1>2 DEF disconnectInternal
  <2>2. \A s \in sessions : requests[s].via # active
    BY <1>2, NoneOfNull DEF ModInv, Lasting
  <2> QED
    BY <2>1, <2>2 DEF Parted, ModInv, SessionsAreStopped
<1>3. CASE bridge # 0
  <2>1. /\ pending' = Restrict(pending, DOMAIN pending \ ToStop)
        /\ sessions' \subseteq sessions \ Stopped
    BY <1>3 DEF disconnectInternal
  <2>2. /\ DOMAIN pending' = DOMAIN pending \ ToStop
        /\ \A i \in DOMAIN pending' : pending'[i] = pending[i]
    BY <2>1 DEF Restrict
  <2>3. \A i \in ToStop : isPersistentStreamingKind(requests[i].kind)
    BY <1>1 DEF ToStop, isPersistentStreamingKind
  <2>4. ASSUME NEW s \in sessions, requests[s].by \in Players, requests[s].kind # "subscribe"
        PROVE  s \in Stopped
    <3>1. s \in DOMAIN requests /\ requests[s].kind \in Echoes \cup Stats /\ requests[s].via = active
      BY <2>4 DEF ModInv, Lasting, SessionsAreStopped
    <3>2. s \in DOMAIN pending
      BY <2>4, <3>1 DEF ModInv, PlayersAreTold, Numbered, Waits
    <3>3. s \in ToStop /\ pending[s].request = s
      BY <1>1, <3>1, <3>2 DEF ToStop
    <3>4. s \in Running(IF requests[s].kind \in Stats THEN "stats_stop" ELSE "echo_stop", TopicOf(requests[s]))
      BY <2>4, <3>1 DEF Running, TopicOf, active
    <3> QED
      BY <3>3, <3>4 DEF Stopped
  <2> QED
    BY <2>1, <2>2, <2>3, <2>4 DEF Parted
<1> QED
  BY <1>2, <1>3

\* Another bridge, or none.
LEMMA Linking ==
  ASSUME ModInv, Parted, UNCHANGED <<requests, told>>,
         server' \in BOOLEAN, ticking' \in BOOLEAN, bridgeType' \in BridgeTypes,
         connections' \in {connections, connections + 1},
         bridge' = 0 \/ (bridge' = connections + 1 /\ connections' = connections + 1),
         bridge' # 0 \/ ticking' => server'
  PROVE  /\ Typed' /\ Numbered' /\ Entered' /\ Lasting' /\ NoStrangers' /\ PlayersAreTold' /\ AddonsAreTold'
         /\ SessionsAreStopped'
<1>1. connections \in Nat /\ connections' \in Nat /\ connections <= connections' /\ bridge' \in {0, connections + 1}
  BY DEF ModInv, Typed
<1>2. \A s \in DOMAIN requests :
        /\ requests[s].id = s /\ requests[s].via.connection \in Nat /\ requests[s].via.connection <= connections
        /\ requests[s].via.connection # bridge' /\ requests[s].via # active'
  BY <1>1, NoneOfNull DEF ModInv, Numbered
<1>3. Typed'
  BY <1>1 DEF ModInv, Typed
<1>4. Numbered'
  BY <1>1, <1>2 DEF Numbered
<1>5. Entered' /\ Lasting' /\ NoStrangers' /\ SessionsAreStopped'
  BY DEF Parted, ModInv, Entered, Lasting, NoStrangers, SessionsAreStopped
<1>6. AddonsAreTold'
  BY DEF ModInv, AddonsAreTold, HasHandle
<1>7. PlayersAreTold'
  <2> SUFFICES ASSUME NEW s \in DOMAIN requests, requests[s].by \in Players
               PROVE  /\ requests[s].via # active'
                      /\ ~isPersistentStreamingKind(requests[s].kind) => told[s].outcomes = (IF Waits(s)' THEN 0 ELSE 1)
    BY DEF PlayersAreTold, isPersistentStreamingKind
  <2>1. requests[s].via # active' /\ requests[s].id = s
    BY <1>2
  <2>2. ~isPersistentStreamingKind(requests[s].kind) => (Waits(s)' <=> Waits(s))
    BY <2>1 DEF Waits, Parted
  <2> QED
    BY <2>1, <2>2 DEF ModInv, PlayersAreTold
<1> QED
  BY <1>3, <1>4, <1>5, <1>6, <1>7

\* The owners stay when the connection changes.
LEMMA LinkInv ==
  ASSUME ModInv, Parted,
         UNCHANGED <<server, ticking, oneShotOwners, persistentOwners, addons, handles, requests, told>>,
         server, bridgeType' \in BridgeTypes,
         connections' \in {connections, connections + 1},
         bridge' = 0 \/ (bridge' = connections + 1 /\ connections' = connections + 1)
  PROVE  ModInv'
<1>1. server' \in BOOLEAN /\ ticking' \in BOOLEAN /\ server'
  BY DEF ModInv, Typed
<1>2. Owned'
  BY DEF ModInv, Owned, HeldByHandle, HeldUntilHeard, HasHandle
<1> QED
  BY <1>1, <1>2, Linking DEF ModInv

LEMMA ConnectInv ==
  ASSUME ModInv, Connect
  PROVE  ModInv'
<1>1. /\ UNCHANGED <<server, ticking, bridgeType, pending, oneShotOwners, persistentOwners, addons, handles, sessions,
                     requests, told>>
      /\ server /\ bridge = 0 /\ connectInternal
  BY DEF Connect
<1>2. \A s \in sessions : requests[s].via # active
  BY <1>1, NoneOfNull DEF ModInv, Lasting
<1>3. Parted
  BY <1>1, <1>2 DEF Parted, ModInv, SessionsAreStopped
<1>4. /\ connections' \in {connections, connections + 1}
      /\ bridge' = 0 \/ (bridge' = connections + 1 /\ connections' = connections + 1)
      /\ bridgeType' \in BridgeTypes
  BY <1>1 DEF connectInternal, ModInv, Typed
<1> QED
  BY <1>1, <1>3, <1>4, LinkInv

LEMMA DisconnectInv ==
  ASSUME ModInv, Disconnect
  PROVE  ModInv'
<1>1. /\ UNCHANGED <<server, ticking, bridgeType, connections, oneShotOwners, persistentOwners, addons, handles,
                     requests, told>>
      /\ server /\ bridge' = 0 /\ disconnectInternal
  BY DEF Disconnect
<1>2. Parted /\ bridgeType' \in BridgeTypes
  BY <1>1, Parting DEF ModInv, Typed
<1> QED
  BY <1>1, <1>2, LinkInv

LEMMA SetConfigurationInv ==
  ASSUME ModInv, SetConfiguration
  PROVE  ModInv'
<1>1. /\ UNCHANGED <<server, ticking, oneShotOwners, persistentOwners, addons, handles, requests, told>>
      /\ server /\ bridgeType' \in BridgeTypes
      /\ IF bridge = 0 THEN UNCHANGED <<bridge, connections, pending, sessions>>
         ELSE disconnectInternal /\ connectInternal
  BY DEF SetConfiguration
<1>2. disconnectInternal
  BY <1>1 DEF disconnectInternal
<1>3. /\ connections' \in {connections, connections + 1}
      /\ bridge' = 0 \/ (bridge' = connections + 1 /\ connections' = connections + 1)
  BY <1>1 DEF connectInternal
<1> QED
  BY <1>1, <1>2, <1>3, Parting, LinkInv

\* The addons are gone, and so is all that they owned.
LEMMA ServerStoppingInv ==
  ASSUME ModInv, ServerStopping
  PROVE  ModInv'
<1>1. /\ UNCHANGED <<ticking, bridgeType, connections, requests, told>>
      /\ server' = FALSE /\ ticking = FALSE /\ bridge' = 0 /\ disconnectInternal
      /\ addons' = {} /\ oneShotOwners' = <<>> /\ persistentOwners' = <<>> /\ handles' = {}
  BY DEF ServerStopping, ModInv, Typed
<1>2. Parted /\ bridgeType' \in BridgeTypes
  BY <1>1, Parting DEF ModInv, Typed
<1>3. Owned'
  BY <1>1 DEF Owned, HeldByHandle, HeldUntilHeard
<1> QED
  BY <1>1, <1>2, <1>3, Linking DEF ModInv

-------------------------------------------------------------------------------
\* Every step, and every stutter, keeps the invariant.
LEMMA NextInv ==
  ASSUME Players \cap Addons = {}, ModInv, [Next]_vars
  PROVE  ModInv'
<1>1. CASE \E p \in Players, k \in CommandKinds, t \in Topics : Command(p, k, t)
  BY <1>1, CommandInv
<1>2. CASE \E a \in Addons, k \in AddonKinds, t \in Topics : AddonRequest(a, k, t)
  BY <1>2, AddonRequestInv
<1>3. CASE \E s \in handles : CloseHandle(s)
  BY <1>3, CloseHandleInv
<1>4. CASE BeginTick
  BY <1>4, QuietInv DEF BeginTick, ModInv, Typed
<1>5. CASE EndTick
  BY <1>5, EndTickInv
<1>6. CASE TimePasses
  BY <1>6, TimePassesInv
<1>7. CASE \E s \in DOMAIN requests, event \in {"part", "answer", "error"} : Deliver(s, event)
  BY <1>7, DeliverInv
<1>8. CASE Connect
  BY <1>8, ConnectInv
<1>9. CASE Disconnect
  BY <1>9, DisconnectInv
<1>10. CASE SetConfiguration
  BY <1>10, SetConfigurationInv
<1>11. CASE ServerStopping
  BY <1>11, ServerStoppingInv
<1>12. CASE ServerStarted
  BY <1>12, QuietInv DEF ServerStarted, ModInv, Typed
<1>13. CASE UNCHANGED vars
  BY <1>13, QuietInv DEF vars, ModInv, Typed
<1> QED
  BY <1>1, <1>2, <1>3, <1>4, <1>5, <1>6, <1>7, <1>8, <1>9, <1>10, <1>11, <1>12, <1>13 DEF Next

\* However connections and worlds come and go: a request has one owner, nobody
\* hears of another's, every question a player asked has one outcome, and what
\* a command started ends with the connection it was started over.
THEOREM ModSafety ==
  ASSUME Players \cap Addons = {}
  PROVE  Spec => []ModConsistent
<1>1. Init => ModInv
  BY InitInv
<1>2. ModInv /\ [Next]_vars => ModInv'
  BY NextInv
<1>3. ModInv => ModConsistent
  BY Implied
<1> QED
  BY <1>1, <1>2, <1>3, PTL DEF Spec

===============================================================================
