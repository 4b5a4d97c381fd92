---------------------------- MODULE NetworkClients ----------------------------
(***************************************************************************)
(* NetworkBridge: how UDP endpoints become clients, are pruned when they   *)
(* fall silent, and take their sessions with them (network/src/bridge.cpp).*)
(*                                                                         *)
(* Three threads of control: the receive coroutine on the io thread (`rx'), *)
(* the main thread that ticks the bridge until shutdown and then destroys  *)
(* it (`tick'), and the ROS thread, which runs one callback of the two     *)
(* nodes with sessions at a time (`phase').                                *)
(* The first two share clients_ and clients_last_seen_ under one           *)
(* shared_mutex; each step below is one critical section or one queue      *)
(* operation, and everything between two of them may be interleaved.       *)
(* Time is the age of what was last seen: it saturates one past the        *)
(* InactivityTimeout.                                                      *)
(***************************************************************************)
EXTENDS Integers, Sequences, FiniteSets

CONSTANTS
  Endpoints,          \* UDP endpoints that send datagrams
  Kinds,              \* the kinds of sessions clients start: of topic statistics, of echo
  NoCommand,          \* a datagram that starts no session (or is malformed)
  Modes,              \* the values of --allow-multiple-connections the bridge is run with
  InactivityTimeout,  \* kClientInactivityTimeout
  HandleTime,         \* bound: time a datagram may take from its receipt to its queue
  MaxQueue            \* bound: commands, or stop-all commands, waiting in one queue

Never == -1
Ages == 0 .. InactivityTimeout + 1

ASSUME ClientsAssumption ==
  /\ NoCommand \notin Kinds
  /\ Modes \subseteq BOOLEAN
  /\ InactivityTimeout \in Nat

VARIABLES
  multi_client,        \* config_.allow_multiple_connections
  status,              \* BridgeStatus
  shutdown_requested,  \* App::shutdown_requested_
  stopped,             \* io_ctx_.stop() was called
  clients,             \* clients_
  last_seen,           \* clients_last_seen_, as an age; Never: no entry
  rx,                  \* receive coroutine: where, for whom, since when
  tick,                \* main thread: where in Run, Tick and Shutdown it is
  commands,            \* per kind: session commands of the handler's token
  stop_all,            \* per kind: stop-all commands of the pruning's token
  phase,               \* per kind: progress of the node's drain callback
  client_sessions      \* per kind: endpoints whose session the node runs

registryVars == <<clients, last_seen>>
nodeVars     == <<commands, stop_all, phase, client_sessions>>
lifeVars     == <<multi_client, status, shutdown_requested, stopped>>
clientsVars  == <<lifeVars, registryVars, rx, tick, nodeVars>>

RxSteps   == {"receive", "look", "add", "handle", "ended"}
TickSteps == {"sleep", "tick", "count", "stopStats", "stopEcho", "send",
              "cleanup", "destroy", "join", "clear", "done"}

NoDatagram(step) == [at |-> step, sender |-> NoCommand, command |-> NoCommand, age |-> 0]

ClientsTypeOK ==
  /\ multi_client \in BOOLEAN
  /\ status \in {"ready", "shuttingDown", "uninitialized"}
  /\ shutdown_requested \in BOOLEAN
  /\ stopped \in BOOLEAN
  /\ clients \subseteq Endpoints
  /\ last_seen \in [Endpoints -> Ages \cup {Never}]
  /\ rx \in [at : RxSteps, sender : Endpoints \cup {NoCommand},
             command : Kinds \cup {NoCommand}, age : Ages]
  /\ tick \in TickSteps
  /\ commands \in [Kinds -> Seq(Endpoints)]
  /\ stop_all \in [Kinds -> Nat]
  /\ phase \in [Kinds -> {"idle", "start", "stop", "gone"}]
  /\ client_sessions \in [Kinds -> SUBSET Endpoints]

\* The bridge after Init: bound, its io thread in the receive coroutine.
ClientsInit ==
  /\ multi_client \in Modes
  /\ status = "ready"
  /\ shutdown_requested = FALSE
  /\ stopped = FALSE
  /\ clients = {}
  /\ last_seen = [e \in Endpoints |-> Never]
  /\ rx = NoDatagram("receive")
  /\ tick = "sleep"
  /\ commands = [k \in Kinds |-> <<>>]
  /\ stop_all = [k \in Kinds |-> 0]
  /\ phase = [k \in Kinds |-> "idle"]
  /\ client_sessions = [k \in Kinds |-> {}]

-------------------------------------------------------------------------------
(***************************************************************************)
(* The receive coroutine.                                                  *)
(***************************************************************************)

\* The loop condition: the coroutine ends when a shutdown was requested.
NextReceive == NoDatagram(IF shutdown_requested THEN "ended" ELSE "receive")

\* A datagram arrives and the time is read.  After io_ctx_.stop() the
\* coroutine is not resumed any more.
ReceiveDatagram(e, command) ==
  /\ rx.at = "receive"
  /\ ~stopped
  /\ command # NoCommand => Len(commands[command]) < MaxQueue
  /\ rx' = [at |-> "look", sender |-> e, command |-> command, age |-> 0]
  /\ UNCHANGED <<lifeVars, registryVars, tick, nodeVars>>

ReceiveError ==
  /\ rx.at = "receive"
  /\ ~stopped
  /\ shutdown_requested
  /\ rx' = NextReceive
  /\ UNCHANGED <<lifeVars, registryVars, tick, nodeVars>>

Touch(e) == last_seen' = [last_seen EXCEPT ![e] = rx.age]

\* Mutant: a stranger's datagram is logged and then handled all the same.
LookUpAndHandle ==
  /\ rx.at = "look"
  /\ IF clients = {}
     THEN UNCHANGED last_seen /\ rx' = [rx EXCEPT !.at = "add"]
     ELSE /\ IF rx.sender \in clients THEN Touch(rx.sender) ELSE UNCHANGED last_seen
          /\ rx' = [rx EXCEPT !.at = "handle"]
  /\ UNCHANGED <<lifeVars, clients, tick, nodeVars>>

\* Under the shared lock: a registered client is touched, an unknown sender
\* is to be added, or, when there may be one client only, ignored.
LookUpClient ==
  /\ rx.at = "look"
  /\ LET known == IF multi_client THEN last_seen[rx.sender] # Never
                                 ELSE rx.sender \in clients
         admitted == multi_client \/ clients = {}
     IN \/ /\ known
           /\ IF last_seen[rx.sender] # Never THEN Touch(rx.sender) ELSE UNCHANGED last_seen
           /\ rx' = [rx EXCEPT !.at = "handle"]
        \/ /\ ~known /\ admitted
           /\ rx' = [rx EXCEPT !.at = "add"]
           /\ UNCHANGED last_seen
        \/ /\ ~known /\ ~admitted
           /\ rx' = NextReceive
           /\ UNCHANGED last_seen
  /\ UNCHANGED <<lifeVars, clients, tick, nodeVars>>

\* Under the exclusive lock, after the shared one was given up.
AddClient ==
  /\ rx.at = "add"
  /\ clients' = clients \cup {rx.sender}
  /\ Touch(rx.sender)
  /\ rx' = [rx EXCEPT !.at = "handle"]
  /\ UNCHANGED <<lifeVars, tick, nodeVars>>

HandleDatagram ==
  /\ rx.at = "handle"
  /\ commands' = IF rx.command = NoCommand THEN commands
                 ELSE [commands EXCEPT ![rx.command] = Append(@, rx.sender)]
  /\ rx' = NextReceive
  /\ UNCHANGED <<lifeVars, registryVars, tick, stop_all, phase, client_sessions>>

Handling == LookUpClient \/ AddClient \/ HandleDatagram

-------------------------------------------------------------------------------
(***************************************************************************)
(* The main thread: Run, Tick, Shutdown.                                   *)
(***************************************************************************)
RequestShutdown ==
  /\ ~shutdown_requested
  /\ shutdown_requested' = TRUE
  /\ UNCHANGED <<multi_client, status, stopped, registryVars, rx, tick, nodeVars>>

WakeUp ==
  /\ tick = "sleep"
  /\ tick' = IF shutdown_requested THEN "cleanup" ELSE "tick"
  /\ UNCHANGED <<lifeVars, registryVars, rx, nodeVars>>

Stale == {e \in Endpoints : last_seen[e] > InactivityTimeout}

\* The pruning's critical section, with the time read just before it.
PruneInactiveClients ==
  /\ tick = "tick"
  /\ clients' = clients \ Stale
  /\ last_seen' = [e \in Endpoints |-> IF e \in Stale THEN Never ELSE last_seen[e]]
  /\ tick' = IF Stale = {} THEN "send" ELSE "count"
  /\ UNCHANGED <<lifeVars, rx, nodeVars>>

\* Mutant: sessions are stopped only if somebody is still there.
CountClientsInverted ==
  /\ tick = "count"
  /\ tick' = IF clients = {} THEN "send" ELSE "stopStats"
  /\ UNCHANGED <<lifeVars, registryVars, rx, nodeVars>>

\* The lock was given up: the clients are counted anew.
CountClients ==
  /\ tick = "count"
  /\ tick' = IF clients = {} THEN "stopStats" ELSE "send"
  /\ UNCHANGED <<lifeVars, registryVars, rx, nodeVars>>

EnqueueStopAll(k) ==
  /\ k \in Kinds => stop_all[k] < MaxQueue
  /\ stop_all' = [j \in Kinds |-> IF j = k THEN stop_all[j] + 1 ELSE stop_all[j]]
  /\ UNCHANGED <<lifeVars, registryVars, rx, commands, phase, client_sessions>>

StopAllStats == tick = "stopStats" /\ EnqueueStopAll("stats") /\ tick' = "stopEcho"
StopAllEcho  == tick = "stopEcho"  /\ EnqueueStopAll("echo")  /\ tick' = "send"

\* DrainAndSendAll: sending to a snapshot of the clients changes none of this.
SendAll ==
  /\ tick = "send"
  /\ tick' = "sleep"
  /\ UNCHANGED <<lifeVars, registryVars, rx, nodeVars>>

\* App::Shutdown cancels the executor, which finishes its current callback.
CleanUpROS ==
  /\ tick = "cleanup"
  /\ \A k \in Kinds : phase[k] = "idle"
  /\ phase' = [k \in Kinds |-> "gone"]
  /\ client_sessions' = [k \in Kinds |-> {}]
  /\ tick' = "destroy"
  /\ UNCHANGED <<lifeVars, registryVars, rx, commands, stop_all>>

BeginDestroy ==
  /\ tick = "destroy"
  /\ status' = "shuttingDown"
  /\ stopped' = TRUE
  /\ tick' = "join"
  /\ UNCHANGED <<multi_client, shutdown_requested, registryVars, rx, nodeVars>>

\* Mutant: the io thread is left to itself.
DetachIoThread ==
  /\ tick = "join"
  /\ tick' = "clear"
  /\ UNCHANGED <<lifeVars, registryVars, rx, nodeVars>>

\* run() returns, and the io thread with it, once no handler is running.
JoinIoThread ==
  /\ tick = "join"
  /\ stopped
  /\ rx.at \in {"receive", "ended"}
  /\ rx' = NoDatagram("ended")
  /\ tick' = "clear"
  /\ UNCHANGED <<lifeVars, registryVars, nodeVars>>

\* The registry, and after it App's queues, are cleared.
FinishDestroy ==
  /\ tick = "clear"
  /\ clients' = {}
  /\ last_seen' = [e \in Endpoints |-> Never]
  /\ commands' = [k \in Kinds |-> <<>>]
  /\ stop_all' = [k \in Kinds |-> 0]
  /\ status' = "uninitialized"
  /\ tick' = "done"
  /\ UNCHANGED <<multi_client, shutdown_requested, stopped, rx, phase, client_sessions>>

MainThread ==
  \/ WakeUp
  \/ PruneInactiveClients
  \/ CountClients
  \/ StopAllStats
  \/ StopAllEcho
  \/ SendAll
  \/ CleanUpROS
  \/ BeginDestroy
  \/ JoinIoThread
  \/ FinishDestroy

-------------------------------------------------------------------------------
(***************************************************************************)
(* The nodes: a drain callback starts sessions, then handles stop-alls.    *)
(***************************************************************************)
RosThreadIdle == \A k \in Kinds : phase[k] = "idle"

DrainTimerFires(k) ==
  /\ RosThreadIdle
  /\ tick # "cleanup"
  /\ phase' = [phase EXCEPT ![k] = "start"]
  /\ UNCHANGED <<commands, stop_all, client_sessions>>

StartSession(k) ==
  /\ phase[k] = "start"
  /\ commands[k] # <<>>
  /\ client_sessions' = [client_sessions EXCEPT ![k] = @ \cup {Head(commands[k])}]
  /\ commands' = [commands EXCEPT ![k] = Tail(@)]
  /\ UNCHANGED <<stop_all, phase>>

StartsDone(k) ==
  /\ phase[k] = "start"
  /\ commands[k] = <<>>
  /\ phase' = [phase EXCEPT ![k] = "stop"]
  /\ UNCHANGED <<commands, stop_all, client_sessions>>

StopAllSessions(k) ==
  /\ phase[k] = "stop"
  /\ stop_all[k] > 0
  /\ client_sessions' = [client_sessions EXCEPT ![k] = {}]
  /\ stop_all' = [stop_all EXCEPT ![k] = @ - 1]
  /\ UNCHANGED <<commands, phase>>

StopsDone(k) ==
  /\ phase[k] = "stop"
  /\ stop_all[k] = 0
  /\ phase' = [phase EXCEPT ![k] = "idle"]
  /\ UNCHANGED <<commands, stop_all, client_sessions>>

\* A session ends by itself: its message limit, its timeout or an unsubscribe.
SessionEnds(k) ==
  /\ RosThreadIdle
  /\ \E e \in client_sessions[k] : client_sessions' = [client_sessions EXCEPT ![k] = @ \ {e}]
  /\ UNCHANGED <<commands, stop_all, phase>>

Drain(k) ==
  /\ \/ DrainTimerFires(k) \/ StartSession(k) \/ StartsDone(k)
     \/ StopAllSessions(k) \/ StopsDone(k)
  /\ UNCHANGED <<lifeVars, registryVars, rx, tick>>

EndOne(k) == SessionEnds(k) /\ UNCHANGED <<lifeVars, registryVars, rx, tick>>

-------------------------------------------------------------------------------
(***************************************************************************)
(* Time.  The bounds: a datagram is handled within HandleTime, and a drain *)
(* callback takes less than one unit of it.                                *)
(***************************************************************************)
Older(age) == IF age > InactivityTimeout THEN age ELSE age + 1

ClientsTimePasses ==
  /\ rx.at \in {"receive", "ended"} \/ rx.age < HandleTime
  /\ \A k \in Kinds : phase[k] \in {"idle", "gone"}
  /\ last_seen' = [e \in Endpoints |->
       IF last_seen[e] = Never THEN Never ELSE Older(last_seen[e])]
  /\ rx' = IF rx.at \in {"receive", "ended"} THEN rx ELSE [rx EXCEPT !.age = Older(@)]
  /\ UNCHANGED <<lifeVars, clients, tick, nodeVars>>

Arrive == \E e \in Endpoints, c \in Kinds \cup {NoCommand} : ReceiveDatagram(e, c)

ClientsNext ==
  \/ Arrive
  \/ ReceiveError
  \/ Handling
  \/ MainThread
  \/ \E k \in Kinds : Drain(k) \/ EndOne(k)
  \/ RequestShutdown
  \/ ClientsTimePasses

ClientsSpec == ClientsInit /\ [][ClientsNext]_clientsVars

\* Both threads and the executor keep running and time goes on; datagrams,
\* receive errors and the request to shut down may never come.
ClientsFairness ==
  /\ WF_clientsVars(Handling)
  /\ WF_clientsVars(MainThread)
  /\ \A k \in Kinds : SF_clientsVars(Drain(k))
  /\ SF_clientsVars(ClientsTimePasses)

ClientsFairSpec == ClientsSpec /\ ClientsFairness

-------------------------------------------------------------------------------
(***************************************************************************)
(* Properties.                                                             *)
(***************************************************************************)

\* The set of clients and the map of when each was last seen name the same
\* endpoints whenever the mutex is free: a client without a time would never
\* be pruned, a time without a client would be pruned as one (AddClient,
\* PruneInactiveClients, Destroy).
ClientsTracked == clients = {e \in Endpoints : last_seen[e] # Never}

\* In single-client mode there is at most one client although the check that
\* there is none and the insertion are two critical sections (ReceiveLoop).
OneClient == ~multi_client => \A e, f \in clients : e = f

\* In single-client mode a command is handled only while no other endpoint is
\* the client, although the lock was given up in between (ReceiveLoop).
ExclusiveHandling ==
  ~multi_client /\ rx.at = "handle" => clients \subseteq {rx.sender}

\* Once the bridge is destroyed no thread of it can touch the registry again
\* and nothing is registered or queued (Destroy joins before it clears).
DestroyedClean ==
  status = "uninitialized" =>
    /\ rx.at = "ended"
    /\ clients = {}
    /\ \A k \in Kinds : commands[k] = <<>> /\ stop_all[k] = 0 /\ client_sessions[k] = {}

\* If no datagram comes any more, every session the clients left behind is
\* stopped for good: however connecting, pruning, counting and draining
\* interleave, no session outlives the silence (PruneInactiveClients).
Silence == rx.at \in {"receive", "ended"}
SilenceStops == <>[]Silence => <>[](\A k \in Kinds : client_sessions[k] = {})

\* A requested shutdown ends: the io thread is joined whatever it was doing,
\* and the bridge is left uninitialized (Run, Shutdown, Destroy).
ClientsSettled == shutdown_requested => status = "uninitialized"

\* The registry and what it lets through.
ClientsConsistent == ClientsTypeOK /\ ClientsTracked /\ OneClient /\ ExclusiveHandling

===============================================================================
