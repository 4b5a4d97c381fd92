------------------------------ MODULE ModRequests ------------------------------
(***************************************************************************)
(* The side of the game: BridgeManager and the bridge it holds, the        *)
(* requests that /ros commands (CommandRequestTracker) and addons          *)
(* (TrackedBridge, RequestRouter) make over it, and the way an event takes *)
(* to its owner (ModBridgeCallback).  All of it runs on the thread of the  *)
(* server: a command never falls into a tick, but an addon may act in the  *)
(* callback of an event.                                                   *)
(*                                                                         *)
(* The bridge on the other side is external: events of any request come as *)
(* long as its packets may, none, late, twice or in another order.  Packets *)
(* to it are taken to arrive, for `sessions' tells what was asked for; that *)
(* those of a client that went silent end, too, is said in NetworkClients. *)
(***************************************************************************)
EXTENDS Integers, Sequences, Functions

CONSTANTS
  Players,        \* requesters of commands
  Addons,         \* ids of the addons of loadAddons
  Topics, NoTopic,
  CommandKinds,   \* kinds of request that commands make, see below
  AddonKinds,     \* and addons
  BridgeTypes,    \* of the configuration: "network", "jni"
  MaxRequests,    \* bound on the requests
  MaxEvents,      \* bound on the events of a request
  MaxConnections, \* bound on the connections
  MaxWorlds       \* bound on the starts of a server

VARIABLES
  server,           \* RoscraftMod::server is not null
  worlds,           \* starts of a server so far
  ticking,          \* bridge.tick of onServerTick goes on
  bridgeType,       \* of the configuration
  bridge,           \* BridgeManager::bridge: number of its connection, 0 for null
  connections,      \* connections so far
  pending,          \* CommandRequestTracker::pending, with `old' after REQUEST_TIMEOUT_MILLIS
  oneShotOwners, persistentOwners,
  addons,           \* AddonManager::addons
  handles,          \* requests whose Subscription an addon holds
  sessions,         \* requests that run on the other side
  requests, told    \* history: what was asked, and who heard of it

vars == <<server, worlds, ticking, bridgeType, bridge, connections, pending, oneShotOwners, persistentOwners,
          addons, handles, sessions, requests, told>>

Echoes == {"echo", "once", "subscribe"}  \* `subscribe' is the short form of an echo
Stats == {"stats"}                       \* hz, bw and delay
Mute == {"pub", "echo_stop", "stats_stop"} \* have no answer, but may have an error
isPersistentStreamingKind(k) == k \in Echoes \cup Stats \cup Mute

\* The events of a request: all of them, those that came while an addon could
\* take them, those its owner heard, the outcomes (an answer, an error or the
\* timeout) among them, and those the owner of another request heard.
Untold == [events |-> 0, owed |-> 0, heard |-> 0, outcomes |-> 0, strangers |-> 0]

Init ==
  /\ server = TRUE /\ worlds = 1 /\ ticking = FALSE
  /\ bridgeType \in BridgeTypes /\ bridge = 0 /\ connections = 0
  /\ pending = <<>> /\ oneShotOwners = <<>> /\ persistentOwners = <<>>
  /\ addons = Addons /\ handles = {} /\ sessions = {} /\ requests = <<>> /\ told = <<>>

With(f, i, x) == [j \in DOMAIN f \cup {i} |-> IF j = i THEN x ELSE f[j]]
Without(f, i) == Restrict(f, DOMAIN f \ {i})
isTracked(i) == i \in DOMAIN oneShotOwners \cup DOMAIN persistentOwners

-----------------------------------------------------------------------------
(* Asking.                                                                 *)

\* Mutant: every bridge counts its own.
nextIdOfBridge == 1 + Len(SelectSeq(requests, LAMBDA r : r.via.connection = bridge))
\* REQUEST_COUNTER, which all bridges share.
nextRequestId == Len(requests) + 1

\* What a packet of kind k for topic t leaves running on the other side: an
\* unsubscribe ends all echoes of the topic, and a statistics session has one
\* request, the last one, which ends it with a window of 0.
Running(k, t) ==
  {s \in sessions :
     /\ requests[s].topic = t /\ requests[s].via.type = bridgeType
     /\ \/ requests[s].kind \in Echoes /\ k = "echo_stop"
        \/ requests[s].kind \in Stats /\ k \in Stats \cup {"stats_stop"}}

\* A packet built and sent by the bridge `via'.  A closed channel drops it; the
\* native functions of any JniBridge serve the one that is open.
active == [connection |-> bridge, type |-> bridgeType]
Send(by, k, t, via) ==
  /\ Len(requests) < MaxRequests
  /\ requests' = Append(requests, [id |-> nextRequestId, by |-> by, kind |-> k, topic |-> t, via |-> via])
  /\ told' = Append(told, Untold)
  /\ sessions' = IF via # active /\ via.type = "network" THEN sessions
                 ELSE (sessions \ Running(k, t))
                        \cup (IF k \in Echoes \cup Stats THEN {Len(requests) + 1} ELSE {})

\* executeLogicCommand: the command sends its packet, then its request is tracked.
Command(p, k, t) ==
  /\ server /\ ~ticking /\ bridge # 0
  /\ Send(p, k, t, active)
  /\ pending' = IF isTracked(nextRequestId) THEN pending
                ELSE With(pending, nextRequestId, [request |-> Len(requests) + 1, old |-> FALSE])
  /\ UNCHANGED <<server, worlds, ticking, bridgeType, bridge, connections, oneShotOwners, persistentOwners, addons, handles>>

\* TrackedBridge: subscriptions and goals keep their owner, the others until
\* their first event.  AddonContext gives a handle of them.
trackPersistent(k) == k \in Echoes \cup {"goal"}
HasHandle(k) == k \in Echoes \cup {"goal"}
OwnedBy(f, a) == IF nextRequestId \in DOMAIN pending THEN f ELSE With(f, nextRequestId, a)

AddonRequest(a, k, t) ==
  /\ server /\ a \in addons /\ bridge # 0
  /\ Send(a, k, t, active)
  /\ persistentOwners' = IF trackPersistent(k) THEN OwnedBy(persistentOwners, a) ELSE persistentOwners
  /\ oneShotOwners' = IF trackPersistent(k) THEN oneShotOwners ELSE OwnedBy(oneShotOwners, a)
  /\ handles' = IF HasHandle(k) THEN handles \cup {Len(requests) + 1} ELSE handles
  /\ UNCHANGED <<server, worlds, ticking, bridgeType, bridge, connections, pending, addons>>

\* The Subscription of AddonContext: untrack, then unsubscribe over the bridge it
\* was made with, which for a native one asserts that some bridge is open.
untracked(f, a, i) == IF i \in DOMAIN f /\ f[i] = a THEN Without(f, i) ELSE f

CloseGoal(r) ==
  /\ r.kind = "goal"
  /\ oneShotOwners' = untracked(oneShotOwners, r.by, r.id)
  /\ UNCHANGED <<sessions, requests, told>>

CloseTopic(r) ==
  /\ r.kind # "goal"
  /\ r.via.type = "jni" => bridge # 0 /\ bridgeType = "jni"
  /\ Send(r.by, "echo_stop", r.topic, r.via)
  /\ oneShotOwners' = OwnedBy(untracked(oneShotOwners, r.by, r.id), r.by)

CloseHandle(s) ==
  /\ server /\ requests[s].by \in addons
  /\ handles' = handles \ {s}
  /\ persistentOwners' = untracked(persistentOwners, requests[s].by, requests[s].id)
  /\ CloseGoal(requests[s]) \/ CloseTopic(requests[s])
  /\ UNCHANGED <<server, worlds, ticking, bridgeType, bridge, connections, pending, addons>>

-----------------------------------------------------------------------------
(* The tick of the server: events, then timeouts.                          *)

BeginTick ==
  /\ server /\ ~ticking
  /\ ticking' = TRUE
  /\ UNCHANGED <<server, worlds, bridgeType, bridge, connections, pending, oneShotOwners, persistentOwners, addons,
                 handles, sessions, requests, told>>

\* The events a request may have: those of its sessions, its answer, an error.
\* Those of an earlier connection wait for the next client of a network bridge.
Comes(s, event) ==
  /\ told[s].events < MaxEvents
  /\ \/ requests[s].via = active
     \/ requests[s].via.type = "network" /\ bridgeType = "network"
  /\ CASE event = "part" -> requests[s].kind \in Echoes \cup Stats \cup {"goal"}
       [] event = "answer" -> requests[s].kind \in {"query", "goal"}
       [] OTHER -> TRUE

\* RequestRouter::consume
Owner(i) ==
  IF i \in DOMAIN oneShotOwners THEN {oneShotOwners[i]}
  ELSE {persistentOwners[j] : j \in {i} \cap DOMAIN persistentOwners}
consume(i) == oneShotOwners' = Without(oneShotOwners, i) /\ UNCHANGED persistentOwners

\* The handlers of /ros commands: an entry of another kind hears nothing; parts
\* leave the entry, except that of an echo with the flag `once'.
Expected(s, event) ==
  event = "error" \/ requests[pending[requests[s].id].request].kind = requests[s].kind
Completes(s, event) ==
  \/ event # "part"
  \/ requests[s].kind = "once"
  \/ ~Expected(s, event) /\ requests[s].kind \notin Stats

Told(s, event) ==
  LET r == requests[s]
      takers == Owner(r.id) \cap addons
      entry == r.id \in DOMAIN pending
      mine == entry /\ pending[r.id].request = s
      Count(b) == IF b THEN 1 ELSE 0
  IN [events    |-> told[s].events + 1,
      owed      |-> told[s].owed + Count(r.by \in addons /\ (HasHandle(r.kind) => s \in handles)),
      heard     |-> told[s].heard + Count(mine \/ r.by \in takers),
      outcomes  |-> told[s].outcomes + Count(mine /\ event # "part"),
      strangers |-> told[s].strangers + Count(takers \ {r.by} # {} \/ (entry /\ ~mine /\ Expected(s, event)))]

\* ModBridgeCallback::onEvent: the addons, then the commands.
Deliver(s, event) ==
  /\ ticking /\ bridge # 0 /\ Comes(s, event)
  /\ consume(requests[s].id)
  /\ told' = [told EXCEPT ![s] = Told(s, event)]
  /\ pending' = IF requests[s].id \in DOMAIN pending /\ Completes(s, event) THEN Without(pending, requests[s].id)
                ELSE pending
  /\ sessions' = IF event = "error" \/ requests[s].kind = "once" THEN sessions \ {s} ELSE sessions
  /\ UNCHANGED <<server, worlds, ticking, bridgeType, bridge, connections, addons, handles, requests>>

\* processTimeouts; their requesters are told.
EndTick ==
  /\ ticking
  /\ ticking' = FALSE
  /\ LET timedOut == {i \in DOMAIN pending :
                        pending[i].old /\ ~isPersistentStreamingKind(requests[pending[i].request].kind)}
     IN /\ pending' = Restrict(pending, DOMAIN pending \ timedOut)
        /\ told' = [s \in DOMAIN told |->
                      IF \E i \in timedOut : pending[i].request = s THEN [told[s] EXCEPT !.outcomes = @ + 1] ELSE told[s]]
  /\ UNCHANGED <<server, worlds, bridgeType, bridge, connections, oneShotOwners, persistentOwners, addons, handles,
                 sessions, requests>>

\* The age of a streaming request is never asked for.
TimePasses ==
  LET Timed(i) == ~isPersistentStreamingKind(requests[pending[i].request].kind)
  IN /\ \E i \in DOMAIN pending : Timed(i) /\ ~pending[i].old
     /\ pending' = [i \in DOMAIN pending |-> [pending[i] EXCEPT !.old = Timed(i)]]
     /\ UNCHANGED <<server, worlds, ticking, bridgeType, bridge, connections, oneShotOwners, persistentOwners, addons,
                    handles, sessions, requests, told>>

-----------------------------------------------------------------------------
(* The connection.                                                         *)

\* extractTopicName: the short form keeps its options only.
TopicOf(r) == IF r.kind = "subscribe" THEN NoTopic ELSE r.topic

\* stopRunningSessions, the hook before a disconnect: what it sends, and the
\* entries it removes.  The ids of its packets are not counted: nothing waits
\* for them.
ToStop == {i \in DOMAIN pending : requests[pending[i].request].kind \in Echoes \cup Stats}
Stopped ==
  UNION {LET r == requests[pending[i].request]
         IN Running(IF r.kind \in Stats THEN "stats_stop" ELSE "echo_stop", TopicOf(r)) : i \in ToStop}

\* disconnectInternal; a native bridge takes its sessions with it.
disconnectInternal ==
  IF bridge = 0 THEN UNCHANGED <<pending, sessions>>
  ELSE /\ pending' = Restrict(pending, DOMAIN pending \ ToStop)
       /\ sessions' = {s \in sessions \ Stopped : bridgeType = "jni" => requests[s].via # active}

\* connectInternal, which may fail.
connectInternal ==
  \/ connections < MaxConnections /\ connections' = connections + 1 /\ bridge' = connections + 1
  \/ bridge' = 0 /\ UNCHANGED connections

Connect ==
  /\ server /\ ~ticking /\ bridge = 0
  /\ connectInternal
  /\ UNCHANGED <<server, worlds, ticking, bridgeType, pending, oneShotOwners, persistentOwners, addons, handles,
                 sessions, requests, told>>

Disconnect ==
  /\ server /\ ~ticking /\ bridge # 0
  /\ disconnectInternal /\ bridge' = 0
  /\ UNCHANGED <<server, worlds, ticking, bridgeType, connections, oneShotOwners, persistentOwners, addons, handles,
                 requests, told>>

\* setBridgeType, setNetworkHost, setNetworkPort, setNetworkEndpoint
SetConfiguration ==
  /\ server /\ ~ticking
  /\ \E t \in BridgeTypes :
       /\ t = bridgeType => t = "network" /\ bridge # 0
       /\ bridgeType' = t
       /\ IF bridge = 0 THEN UNCHANGED <<bridge, connections, pending, sessions>>
          ELSE disconnectInternal /\ connectInternal
  /\ UNCHANGED <<server, worlds, ticking, oneShotOwners, persistentOwners, addons, handles, requests, told>>

\* The addons go first and for good: only onInitialize loads them.
ServerStopping ==
  /\ server /\ ~ticking
  /\ server' = FALSE
  /\ addons' = {} /\ oneShotOwners' = <<>> /\ persistentOwners' = <<>> /\ handles' = {}
  /\ disconnectInternal /\ bridge' = 0
  /\ UNCHANGED <<worlds, ticking, bridgeType, connections, requests, told>>

\* Another world in the same process.
ServerStarted ==
  /\ ~server /\ worlds < MaxWorlds
  /\ server' = TRUE /\ worlds' = worlds + 1
  /\ UNCHANGED <<ticking, bridgeType, bridge, connections, pending, oneShotOwners, persistentOwners, addons, handles,
                 sessions, requests, told>>

-----------------------------------------------------------------------------
Next ==
  \/ \E p \in Players, k \in CommandKinds, t \in Topics : Command(p, k, t)
  \/ \E a \in Addons, k \in AddonKinds, t \in Topics : AddonRequest(a, k, t)
  \/ \E s \in handles : CloseHandle(s)
  \/ BeginTick \/ EndTick \/ TimePasses
  \/ \E s \in DOMAIN requests, event \in {"part", "answer", "error"} : Deliver(s, event)
  \/ Connect \/ Disconnect \/ SetConfiguration \/ ServerStopping \/ ServerStarted

\* The server ticks on, and time passes; nobody need do anything else.
Tick == BeginTick \/ EndTick
Spec == Init /\ [][Next]_vars /\ WF_vars(Tick) /\ WF_vars(TimePasses)

-----------------------------------------------------------------------------
TypeOK ==
  /\ {server, ticking} \subseteq BOOLEAN /\ bridgeType \in BridgeTypes
  /\ bridge \in {0, connections} /\ (bridge # 0 \/ ticking => server)
  /\ \A i \in DOMAIN pending : pending[i].request \in DOMAIN requests /\ pending[i].old \in BOOLEAN
  /\ handles \cup sessions \subseteq DOMAIN requests /\ DOMAIN told = DOMAIN requests

\* A request has one owner, a command or an addon, of the two ways an addon has.
OwnersAreApart ==
  /\ DOMAIN pending \cap (DOMAIN oneShotOwners \cup DOMAIN persistentOwners) = {}
  /\ DOMAIN oneShotOwners \cap DOMAIN persistentOwners = {}

\* However connections and worlds come and go between a request and its events:
\* nobody hears of another's request; a player who asked a question or sent a
\* goal is told one outcome, the answer or the timeout, and hears all of an echo
\* or a statistics session while it runs; an addon hears of every event of what
\* it holds a handle for, and of the first event of anything else it asked.
NoStrangers == \A s \in DOMAIN requests : told[s].strangers = 0
Waits(s) == requests[s].id \in DOMAIN pending /\ pending[requests[s].id].request = s
PlayersAreTold ==
  \A s \in DOMAIN requests : requests[s].by \in Players =>
    /\ s \in sessions /\ requests[s].via = active => Waits(s) /\ told[s].heard = told[s].events
    /\ ~isPersistentStreamingKind(requests[s].kind) => told[s].outcomes = (IF Waits(s) THEN 0 ELSE 1)
AddonsAreTold ==
  \A s \in DOMAIN requests : requests[s].by \in Addons =>
    told[s].heard = IF HasHandle(requests[s].kind) \/ told[s].owed = 0 THEN told[s].owed ELSE 1
RequestsReachOwners == NoStrangers /\ PlayersAreTold /\ AddonsAreTold

\* Nothing that a command has started, and that names its topic, goes on after
\* the connection it was started over.
SessionsAreStopped ==
  \A s \in sessions :
    requests[s].by \in Players /\ requests[s].kind # "subscribe" => requests[s].via = active

\* All of it: events reach the owners of their requests, a question has one
\* outcome, and what commands have started ends with their connection.
ModConsistent == TypeOK /\ OwnersAreApart /\ RequestsReachOwners /\ SessionsAreStopped

\* While a server runs, no question and no goal waits for good.
Settled ==
  server => \A i \in DOMAIN pending : isPersistentStreamingKind(requests[pending[i].request].kind)

===============================================================================
