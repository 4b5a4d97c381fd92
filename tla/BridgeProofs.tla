----------------------------- MODULE BridgeProofs -----------------------------
(***************************************************************************)
(* The bridge around its nodes: the registry of clients and its end, for   *)
(* any number of endpoints and kinds of sessions, in both modes; the runs  *)
(* of one App, which do not mix, for all hosts and any number of           *)
(* initialisations; and the way of commands and answers: the order of the  *)
(* typed queues (CommandQueue), the way through handlers and queues over   *)
(* ticks and lives of the bridge (PacketDispatch), and the memory that     *)
(* holds a command on its way (FrameArena), for any types, producers,      *)
(* order of draining and number of frames.                                 *)
(***************************************************************************)
EXTENDS NetworkClients, AppLifecycle, PacketDispatch, CommandQueue, FrameArena, SequenceTheorems, TLAPS

-------------------------------------------------------------------------------
(***************************************************************************)
(* Clients and destruction.                                                *)
(***************************************************************************)
Handled == {"look", "add", "handle"}

\* What the receive coroutine has found out stays true while it holds no lock:
\* with one client allowed, nobody is a client between the test that there is
\* none and the insertion, and nobody else while the datagram is handled.
Registry ==
  /\ rx.at \in Handled => rx.sender \in Endpoints
  /\ ~multi_client /\ rx.at = "add" => clients = {}
  /\ ClientsTracked /\ OneClient /\ ExclusiveHandling

\* How far the destruction has come, and what has stopped by then.
Destruction ==
  /\ status = "uninitialized" <=> tick = "done"
  /\ tick \in {"clear", "done"} => rx.at = "ended"
  /\ tick \in {"destroy", "join", "clear", "done"} =>
       \A k \in Kinds : phase[k] = "gone" /\ client_sessions[k] = {}
  /\ tick = "done" =>
       clients = {} /\ \A k \in Kinds : commands[k] = <<>> /\ stop_all[k] = 0

ClientsInv == ClientsTypeOK /\ Registry /\ Destruction

-------------------------------------------------------------------------------
\* The steps by thread: what each of them leaves alone.
LEMMA ReceiverKeeps ==
  ASSUME ClientsInv, Arrive \/ ReceiveError \/ Handling
  PROVE  ClientsInv'
<1> USE DEF ClientsInv, ClientsTypeOK, lifeVars, nodeVars, registryVars, NoDatagram, NextReceive, RxSteps, Ages, Never
<1>1. ASSUME NEW e \in Endpoints, NEW c \in Kinds \cup {NoCommand}, ReceiveDatagram(e, c)
      PROVE  ClientsInv'
  <2>1. ClientsTypeOK' /\ rx.at = "receive" /\ rx'.at = "look" /\ rx'.sender = e
    BY <1>1, ClientsAssumption DEF ReceiveDatagram
  <2> QED
    BY <1>1, <2>1 DEF ReceiveDatagram, Registry, Destruction, Handled, ClientsTracked, OneClient, ExclusiveHandling
<1>2. CASE ReceiveError
  BY <1>2, ClientsAssumption DEF ReceiveError, Registry, Destruction, Handled, ClientsTracked, OneClient, ExclusiveHandling
<1>3. CASE LookUpClient
  <2>1. rx.at = "look" /\ rx.sender \in Endpoints
    BY <1>3 DEF LookUpClient, Registry, Handled
  <2>2. /\ ClientsTypeOK' /\ UNCHANGED <<lifeVars, clients, tick, nodeVars>>
        /\ rx'.sender = rx.sender \/ rx'.at \notin Handled
    <3>1. UNCHANGED <<lifeVars, clients, tick, nodeVars>>
      BY <1>3 DEF LookUpClient
    <3>2. last_seen' \in [Endpoints -> Ages \cup {Never}]
      BY <1>3, <2>1 DEF LookUpClient, Touch
    <3>3. \/ rx' = [rx EXCEPT !.at = "handle"]
          \/ rx' = [rx EXCEPT !.at = "add"]
          \/ rx' = NextReceive
      BY <1>3 DEF LookUpClient
    <3>4. rx' \in [at : RxSteps, sender : Endpoints \cup {NoCommand}, command : Kinds \cup {NoCommand}, age : Ages]
      <4>1. NextReceive \in [at : RxSteps, sender : Endpoints \cup {NoCommand}, command : Kinds \cup {NoCommand}, age : Ages]
        BY ClientsAssumption
      <4>2. ASSUME NEW at \in RxSteps, rx' = [rx EXCEPT !.at = at]
            PROVE  rx' \in [at : RxSteps, sender : Endpoints \cup {NoCommand}, command : Kinds \cup {NoCommand}, age : Ages]
        BY <4>2
      <4> QED
        BY <3>3, <4>1, <4>2
    <3>5. rx'.sender = rx.sender \/ rx'.at \notin Handled
      BY <3>3 DEF Handled
    <3> QED
      BY <3>1, <3>2, <3>4, <3>5
  <2>3. ClientsTracked'
    BY <1>3, <2>1, <2>2, ClientsAssumption DEF LookUpClient, Touch, Registry, ClientsTracked
  <2>4. ~multi_client => (rx'.at = "add" => clients = {}) /\ (rx'.at = "handle" => rx.sender \in clients)
    BY <1>3, <2>1, <2>2 DEF LookUpClient
  <2> QED
    BY <2>1, <2>2, <2>3, <2>4 DEF Registry, Destruction, Handled, OneClient, ExclusiveHandling
<1>4. CASE AddClient
  <2>1. rx.at = "add" /\ rx.sender \in Endpoints
    BY <1>4 DEF AddClient, Registry, Handled
  <2>2. ClientsTypeOK' /\ clients' = clients \cup {rx.sender} /\ rx'.at = "handle" /\ rx'.sender = rx.sender
    BY <1>4, <2>1, ClientsAssumption DEF AddClient, Touch
  <2>3. ClientsTracked'
    BY <1>4, <2>1, ClientsAssumption DEF AddClient, Touch, Registry, ClientsTracked
  <2> QED
    BY <1>4, <2>1, <2>2, <2>3 DEF AddClient, Registry, Destruction, Handled, OneClient, ExclusiveHandling
<1>5. CASE HandleDatagram
  <2>1. rx.at = "handle" /\ rx.sender \in Endpoints
    BY <1>5 DEF HandleDatagram, Registry, Handled
  <2>2. ClientsTypeOK' /\ rx'.at \notin Handled
    BY <1>5, <2>1, ClientsAssumption DEF HandleDatagram, Handled
  <2> QED
    BY <1>5, <2>1, <2>2 DEF HandleDatagram, Registry, Destruction, Handled, ClientsTracked, OneClient, ExclusiveHandling
<1> QED
  BY <1>1, <1>2, <1>3, <1>4, <1>5 DEF Arrive, Handling

LEMMA MainThreadKeeps ==
  ASSUME ClientsInv, MainThread
  PROVE  ClientsInv'
<1> USE DEF ClientsInv, ClientsTypeOK, lifeVars, nodeVars, registryVars, TickSteps
<1> DEFINE Same == UNCHANGED <<clients, last_seen, rx, multi_client>>
<1>1. ASSUME Same, ClientsTypeOK', Destruction' PROVE ClientsInv'
  BY <1>1 DEF Registry, Handled, ClientsTracked, OneClient, ExclusiveHandling
<1>2. CASE WakeUp \/ CountClients \/ SendAll
  BY <1>1, <1>2 DEF WakeUp, CountClients, SendAll, Destruction
<1>3. CASE PruneInactiveClients
  <2>1. ClientsTypeOK'
    BY <1>3 DEF PruneInactiveClients
  <2>2. ClientsTracked'
    BY <1>3 DEF PruneInactiveClients, Registry, ClientsTracked
  <2>3. clients' \subseteq clients /\ UNCHANGED <<rx, lifeVars, nodeVars>> /\ tick = "tick" /\ tick' \in {"send", "count"}
    BY <1>3 DEF PruneInactiveClients
  <2> QED
    BY <2>1, <2>2, <2>3 DEF Registry, Destruction, OneClient, ExclusiveHandling
<1>4. ASSUME NEW k \in {"stats", "echo"}, EnqueueStopAll(k), tick \in {"stopStats", "stopEcho"}, tick' \in {"stopEcho", "send"}
      PROVE  ClientsInv'
  <2>1. ClientsTypeOK' /\ Destruction'
    BY <1>4 DEF EnqueueStopAll, Destruction
  <2> QED
    BY <1>1, <1>4, <2>1 DEF EnqueueStopAll
<1>5. CASE CleanUpROS
  <2>1. ClientsTypeOK' /\ Destruction'
    BY <1>5 DEF CleanUpROS, Destruction
  <2> QED
    BY <1>1, <1>5, <2>1 DEF CleanUpROS
<1>6. CASE BeginDestroy
  <2>1. ClientsTypeOK' /\ Destruction'
    BY <1>6 DEF BeginDestroy, Destruction
  <2> QED
    BY <1>1, <1>6, <2>1 DEF BeginDestroy
<1>7. CASE JoinIoThread
  <2>1. ClientsTypeOK' /\ rx'.at = "ended"
    BY <1>7, ClientsAssumption DEF JoinIoThread, NoDatagram, RxSteps, Ages
  <2> QED
    BY <1>7, <2>1 DEF JoinIoThread, Registry, Handled, Destruction, ClientsTracked, OneClient, ExclusiveHandling
<1>8. CASE FinishDestroy
  <2>1. ClientsTypeOK' /\ Destruction' /\ rx.at = "ended" /\ UNCHANGED <<rx, multi_client>>
    BY <1>8 DEF FinishDestroy, Destruction
  <2>2. clients' = {} /\ ClientsTracked'
    BY <1>8 DEF FinishDestroy, ClientsTracked
  <2> QED
    BY <2>1, <2>2 DEF Registry, Handled, OneClient, ExclusiveHandling
<1> QED
  BY <1>2, <1>3, <1>4, <1>5, <1>6, <1>7, <1>8 DEF MainThread, StopAllStats, StopAllEcho

LEMMA NodesKeep ==
  ASSUME ClientsInv, NEW k \in Kinds, Drain(k) \/ EndOne(k)
  PROVE  ClientsInv'
<1> USE DEF ClientsInv, ClientsTypeOK, lifeVars, nodeVars, registryVars
<1>1. UNCHANGED <<lifeVars, registryVars, rx, tick>>
  BY DEF Drain, EndOne
<1>2. ASSUME ClientsTypeOK', Destruction' PROVE ClientsInv'
  BY <1>1, <1>2 DEF Registry, Handled, ClientsTracked, OneClient, ExclusiveHandling
<1>3. CASE DrainTimerFires(k)
  <2>1. ClientsTypeOK' /\ Destruction'
    BY <1>1, <1>3 DEF DrainTimerFires, Destruction, RosThreadIdle
  <2> QED
    BY <1>2, <2>1
<1>4. CASE StartSession(k)
  <2>1. Head(commands[k]) \in Endpoints /\ Tail(commands[k]) \in Seq(Endpoints)
    BY <1>4 DEF StartSession
  <2>2. ClientsTypeOK' /\ Destruction'
    BY <1>1, <1>4, <2>1 DEF StartSession, Destruction
  <2> QED
    BY <1>2, <2>2
<1>5. CASE StartsDone(k) \/ StopsDone(k)
  <2>1. ClientsTypeOK' /\ Destruction'
    BY <1>1, <1>5 DEF StartsDone, StopsDone, Destruction
  <2> QED
    BY <1>2, <2>1
<1>6. CASE StopAllSessions(k)
  <2>1. ClientsTypeOK' /\ Destruction'
    BY <1>1, <1>6 DEF StopAllSessions, Destruction
  <2> QED
    BY <1>2, <2>1
<1>7. CASE SessionEnds(k)
  <2>1. ClientsTypeOK' /\ Destruction'
    BY <1>1, <1>7 DEF SessionEnds, Destruction, RosThreadIdle
  <2> QED
    BY <1>2, <2>1
<1> QED
  BY <1>3, <1>4, <1>5, <1>6, <1>7 DEF Drain, EndOne

LEMMA OthersKeep ==
  ASSUME ClientsInv, RequestShutdown \/ ClientsTimePasses
  PROVE  ClientsInv'
<1> USE DEF ClientsInv, ClientsTypeOK, lifeVars, nodeVars, registryVars
<1>1. CASE RequestShutdown
  BY <1>1 DEF RequestShutdown, Registry, Destruction, Handled, ClientsTracked, OneClient, ExclusiveHandling
<1>2. CASE ClientsTimePasses
  <2>1. \A a \in Ages : Older(a) \in Ages
    BY ClientsAssumption DEF Ages, Older
  <2>2. ClientsTypeOK' /\ rx'.at = rx.at /\ rx'.sender = rx.sender
    BY <1>2, <2>1 DEF ClientsTimePasses
  <2>3. \A e \in Endpoints : last_seen'[e] = Never <=> last_seen[e] = Never
    BY <1>2, <2>1, ClientsAssumption DEF ClientsTimePasses, Ages, Never
  <2> QED
    BY <1>2, <2>2, <2>3 DEF ClientsTimePasses, Registry, Destruction, Handled, ClientsTracked, OneClient, ExclusiveHandling
<1> QED
  BY <1>1, <1>2

LEMMA ClientsInvariant == ClientsSpec => []ClientsInv
<1>1. ClientsInit => ClientsInv
  <2> SUFFICES ASSUME ClientsInit PROVE ClientsInv
    OBVIOUS
  <2>1. ClientsTypeOK
    <3>1. multi_client \in BOOLEAN
      BY ClientsAssumption DEF ClientsInit
    <3>2. 0 \in Ages
      BY ClientsAssumption DEF Ages
    <3>3. rx \in [at : RxSteps, sender : Endpoints \cup {NoCommand}, command : Kinds \cup {NoCommand}, age : Ages]
      BY <3>2 DEF ClientsInit, NoDatagram, RxSteps
    <3>4. /\ last_seen \in [Endpoints -> Ages \cup {Never}]
          /\ commands \in [Kinds -> Seq(Endpoints)] /\ stop_all \in [Kinds -> Nat]
          /\ phase \in [Kinds -> {"idle", "start", "stop", "gone"}]
          /\ client_sessions \in [Kinds -> SUBSET Endpoints]
      BY DEF ClientsInit
    <3> QED
      BY <3>1, <3>3, <3>4 DEF ClientsInit, ClientsTypeOK, TickSteps
  <2> QED
    BY <2>1 DEF ClientsInit, ClientsInv, Registry, Destruction, Handled, NoDatagram, ClientsTracked, OneClient, ExclusiveHandling
<1>2. ClientsInv /\ [ClientsNext]_clientsVars => ClientsInv'
  <2> SUFFICES ASSUME ClientsInv, [ClientsNext]_clientsVars PROVE ClientsInv'
    OBVIOUS
  <2>1. CASE UNCHANGED clientsVars
    BY <2>1 DEF clientsVars, lifeVars, registryVars, nodeVars, ClientsInv, ClientsTypeOK, Registry, Destruction,
       Handled, ClientsTracked, OneClient, ExclusiveHandling
  <2> QED
    BY <2>1, ReceiverKeeps, MainThreadKeeps, NodesKeep, OthersKeep DEF ClientsNext
<1> QED
  BY <1>1, <1>2, PTL DEF ClientsSpec

\* The registry and the times of its clients name the same endpoints, single mode
\* has one client at most, and none beside the one whose datagram is handled,
\* although the receive thread gives its lock up between its steps.
THEOREM RegistrySafety == ClientsSpec => []ClientsConsistent
<1>1. ClientsInv => ClientsConsistent
  BY DEF ClientsInv, Registry, ClientsConsistent
<1> QED
  BY <1>1, ClientsInvariant, PTL

\* After the destruction nothing is registered, queued or running, and no thread
\* is left that could change that, wherever the shutdown met them.
THEOREM DestructionSafety == ClientsSpec => []DestroyedClean
<1>1. ClientsInv => DestroyedClean
  BY DEF ClientsInv, Destruction, DestroyedClean
<1> QED
  BY <1>1, ClientsInvariant, PTL

-------------------------------------------------------------------------------
(***************************************************************************)
(* The life of App.                                                        *)
(***************************************************************************)
\* What exists at each place of the owning thread: the nodes with their thread
\* from InitROS to the join, the bridge around them, the state between.
Down  == ros = "none" /\ ~nodes
Up    == ros # "none" /\ nodes
Stage ==
  /\ owner \in {"start", "bridge"} => Down /\ ~bridge_ /\ state = "uninitialized"
  /\ owner = "ros" => Down /\ bridge_ /\ state = "uninitialized"
  /\ owner = "initialized" => Up /\ bridge_
  /\ owner \in {"loop", "tick", "exchange"} \cup Waiting => Up /\ bridge_ /\ state = "initialized"
  /\ owner \in {"request", "cancel", "promise", "join"} => Up /\ bridge_
  /\ owner = "destroy" => Down /\ bridge_
  /\ owner = "clear" => Down /\ ~bridge_
  /\ owner = "ended" => Down /\ ~bridge_ /\ state = "uninitialized"
  /\ owner # "notify"

AppInv == AppTypeOK /\ Stage

-------------------------------------------------------------------------------
LEMMA OwnTypes ==
  ASSUME AppTypeOK, Own
  PROVE  AppTypeOK'
<1> USE DEF AppTypeOK, At, resources, Starting, Waiting, Stopping
<1>1. CASE ResetRequest
  <2>1. runs' \in 0 .. MaxRuns
    BY <1>1, AppAssumption DEF ResetRequest
  <2> QED
    BY <1>1, <2>1 DEF ResetRequest
<1>2. CASE InitBridge
  BY <1>2 DEF InitBridge
<1>3. CASE InitROS
  BY <1>3 DEF InitROS
<1>4. CASE Initialized
  BY <1>4 DEF Initialized
<1>5. CASE Loop \/ TickApp
  BY <1>5 DEF Loop, TickApp
<1>6. CASE TestPredicate \/ Block
  BY <1>6 DEF TestPredicate, Block
<1>7. CASE ExchangeState \/ SetRequested
  BY <1>7 DEF ExchangeState, SetRequested
<1>8. CASE CancelExecutor \/ SetPromise
  BY <1>8 DEF CancelExecutor, SetPromise
<1>9. CASE JoinRosThread \/ DestroyBridge
  BY <1>9 DEF JoinRosThread, DestroyBridge
<1>10. CASE FinishShutdown
  BY <1>10 DEF FinishShutdown
<1> QED
  BY <1>1, <1>2, <1>3, <1>4, <1>5, <1>6, <1>7, <1>8, <1>9, <1>10 DEF Own

LEMMA OwnStages ==
  ASSUME Stage, Own
  PROVE  Stage'
<1> USE DEF Stage, Up, Down, At, resources, Waiting
<1>1. CASE ResetRequest \/ InitBridge
  BY <1>1 DEF ResetRequest, InitBridge
<1>2. CASE InitROS
  BY <1>2 DEF InitROS
<1>3. CASE Initialized
  BY <1>3 DEF Initialized
<1>4. CASE Loop \/ TickApp
  BY <1>4 DEF Loop, TickApp
<1>5. CASE TestPredicate \/ Block
  BY <1>5 DEF TestPredicate, Block
<1>6. CASE ExchangeState
  BY <1>6 DEF ExchangeState
<1>7. CASE SetRequested \/ CancelExecutor \/ SetPromise
  BY <1>7 DEF SetRequested, CancelExecutor, SetPromise
<1>8. CASE JoinRosThread \/ DestroyBridge
  BY <1>8 DEF JoinRosThread, DestroyBridge
<1>9. CASE FinishShutdown
  BY <1>9 DEF FinishShutdown
<1> QED
  BY <1>1, <1>2, <1>3, <1>4, <1>5, <1>6, <1>7, <1>8, <1>9 DEF Own

\* Waking the owner changes only where it waits.
LEMMA NotifyKeeps ==
  ASSUME AppInv, owner' = AfterNotify(owner), AppTypeOK',
         UNCHANGED <<state, resources>>, ros' = "none" <=> ros = "none"
  PROVE  AppInv'
BY DEF AppInv, Stage, Up, Down, AfterNotify, Waiting, resources

LEMMA RosThreadKeeps ==
  ASSUME AppInv, RosThread
  PROVE  AppInv'
<1> USE DEF AppInv, RosAt, resources
<1>1. CASE BeginSpin \/ BeginCallback \/ EndCallback \/ CallbackThrows \/ EndSpin \/ RosRequests
  <2>1. UNCHANGED <<owner, state, resources>> /\ ros # "none" /\ ros' # "none"
    BY <1>1 DEF BeginSpin, BeginCallback, EndCallback, CallbackThrows, EndSpin, RosRequests
  <2>2. AppTypeOK'
    BY <1>1 DEF AppTypeOK, BeginSpin, BeginCallback, EndCallback, CallbackThrows, EndSpin, RosRequests
  <2> QED
    BY <2>1, <2>2 DEF Stage, Up, Down
<1>2. CASE RosNotifies
  <2>1. AppTypeOK'
    BY <1>2 DEF AppTypeOK, RosNotifies, AfterNotify, Waiting
  <2> QED
    BY <1>2, <2>1, NotifyKeeps DEF RosNotifies
<1> QED
  BY <1>1, <1>2 DEF RosThread

LEMMA RequesterKeeps ==
  ASSUME AppInv, StoreRequest \/ NotifyAll
  PROVE  AppInv'
<1> USE DEF AppInv, resources
<1>1. CASE StoreRequest
  BY <1>1 DEF StoreRequest, AppTypeOK, Stage, Up, Down
<1>2. CASE NotifyAll
  <2>1. AppTypeOK'
    BY <1>2 DEF AppTypeOK, NotifyAll, AfterNotify, Waiting
  <2> QED
    BY <1>2, <2>1, NotifyKeeps DEF NotifyAll
<1> QED
  BY <1>1, <1>2

\* A callback of a node, and a thread that ends in a request to shut down, have
\* the nodes, the executor and the bridge around them in every run, and a run
\* that has ended left nothing of them to the next, for every host and whatever
\* thread requests the shutdown when.
THEOREM RunSafety == AppSpec => []RunsAreSeparate
<1>1. AppInit => AppInv
  <2> SUFFICES ASSUME AppInit PROVE AppInv
    OBVIOUS
  <2>1. host \in {"run", "wait", "jni"} /\ runs \in 0 .. MaxRuns
    BY AppAssumption DEF AppInit
  <2>2. AppTypeOK
    BY <2>1 DEF AppInit, AppTypeOK, Starting
  <2>3. Stage
    BY DEF AppInit, Stage, Down, Waiting
  <2> QED
    BY <2>2, <2>3 DEF AppInv
<1>2. AppInv /\ [AppNext]_appVars => AppInv'
  <2> SUFFICES ASSUME AppInv, [AppNext]_appVars PROVE AppInv'
    OBVIOUS
  <2>1. CASE UNCHANGED appVars
    BY <2>1 DEF appVars, resources, AppInv, AppTypeOK, Stage, Up, Down
  <2> QED
    BY <2>1, OwnTypes, OwnStages, RosThreadKeeps, RequesterKeeps DEF AppNext, AppInv
<1>3. AppInv => RunsAreSeparate
  BY DEF AppInv, RunsAreSeparate, CallbacksHaveResources, ShutdownIsComplete, Stage, Up, Down, AppTypeOK, Starting, Waiting, Stopping
<1> QED
  BY <1>1, <1>2, <1>3, PTL DEF AppSpec

-------------------------------------------------------------------------------
(***************************************************************************)
(* Packets: commands and answers on their way.                             *)
(***************************************************************************)
\* What is there when the bridge does not run: nothing; and a tick ends before
\* it stops.
StoppedIsClean ==
  ~BridgeRunning =>
    flush = 0 /\ incoming_queue_ = NoneOf(Requests) /\ outgoing_queue_ = NoneOf(Answers)

\* The handler of a type is the only producer of its commands.
OwnToken ==
  \A t \in Requests, p \in Producers : p # t => incoming_queue_[t][p] = <<>>

\* What a tick owes was produced before it.
OwedIsOld ==
  \A a \in Answers, p \in Producers :
    \A x \in ToSet(owed[a][p]) : \E i \in 1 .. produced[a][p] : x = <<lives, i>>

\* The handlers that had their turn in this tick, or in the last.
Flushed(a) == flush = 0 \/ \E i \in 1 .. flush - 1 : DrainOrder[i] = a

\* They left nothing of what the tick owes.
FlushedIsSent ==
  \A a \in Answers, p \in Producers :
    Flushed(a) => ToSet(owed[a][p]) \cap ToSet(outgoing_queue_[a][p]) = {}

DispatchInv ==
  /\ DispatchTypeOK /\ StoppedIsClean /\ OwnToken
  /\ PacketsInOrder /\ AnswersAccounted
  /\ OwedIsOld /\ FlushedIsSent
-------------------------------------------------------------------------------
(***************************************************************************)
(* Sequences and storages.                                                 *)
(***************************************************************************)
LEMMA PutLast ==
  ASSUME NEW h \in Seq(Numbered), NEW q \in Seq(Numbered), NEW x \in Numbered
  PROVE  (h \o q) \o <<x>> = h \o (q \o <<x>>)
<1>1. <<x>> \in Seq(Numbered)
  OBVIOUS
<1> QED
  BY <1>1, ConcatAssociative

LEMMA TakeFirst ==
  ASSUME NEW h \in Seq(Numbered), NEW q \in Seq(Numbered), q # <<>>
  PROVE  /\ Append(h, Head(q)) \in Seq(Numbered) /\ Tail(q) \in Seq(Numbered)
         /\ Append(h, Head(q)) \o Tail(q) = h \o q
<1>1. /\ Head(q) \in Numbered /\ Tail(q) \in Seq(Numbered) /\ Len(Tail(q)) = Len(q) - 1
      /\ Head(q) = q[1] /\ \A i \in 1 .. Len(q) - 1 : Tail(q)[i] = q[i + 1]
  BY HeadTailProperties
<1>2. /\ Append(h, Head(q)) \in Seq(Numbered) /\ Len(Append(h, Head(q))) = Len(h) + 1
      /\ \A i \in 1 .. Len(h) : Append(h, Head(q))[i] = h[i]
      /\ Append(h, Head(q))[Len(h) + 1] = q[1]
  BY <1>1, AppendProperties
<1>3. Len(Append(h, Head(q)) \o Tail(q)) = Len(h \o q)
  BY <1>1, <1>2, ConcatProperties, LenProperties
<1>4. ASSUME NEW i \in 1 .. Len(h \o q)
      PROVE  (Append(h, Head(q)) \o Tail(q))[i] = (h \o q)[i]
  BY <1>1, <1>2, ConcatProperties, LenProperties
<1>5. Append(h, Head(q)) \o Tail(q) \in Seq(Numbered) /\ h \o q \in Seq(Numbered)
  BY <1>1, <1>2, ConcatProperties
<1> QED
  BY <1>1, <1>2, <1>3, <1>4, <1>5, SeqEqual

LEMMA SecondPart ==
  ASSUME NEW h \in Seq(Numbered), NEW q \in Seq(Numbered), NEW k \in 1 .. Len(q)
  PROVE  /\ Len(h) + k \in 1 .. Len(h \o q)
         /\ (h \o q)[Len(h) + k] = q[k]
<1>1. Len(h) \in Nat /\ Len(q) \in Nat /\ k \in Nat /\ k >= 1 /\ k <= Len(q)
  BY LenProperties
<1>2. /\ Len(h \o q) = Len(h) + Len(q)
      /\ \A i \in 1 .. Len(h) + Len(q) : (h \o q)[i] = IF i <= Len(h) THEN h[i] ELSE q[i - Len(h)]
  BY ConcatProperties
<1>3. Len(h) + k \in 1 .. Len(h) + Len(q) /\ ~(Len(h) + k <= Len(h)) /\ (Len(h) + k) - Len(h) = k
  BY <1>1
<1> QED
  BY <1>2, <1>3

LEMMA ElementsOf ==
  ASSUME NEW q \in Seq(Numbered), NEW x \in Numbered
  PROVE  /\ ToSet(q \o <<x>>) \subseteq ToSet(q) \cup {x}
         /\ q # <<>> => ToSet(Tail(q)) \subseteq ToSet(q)
         /\ ToSet(<<>>) = {}
<1>1. ToSet(q \o <<x>>) \subseteq ToSet(q) \cup {x}
  BY DEF ToSet
<1>2. q # <<>> => ToSet(Tail(q)) \subseteq ToSet(q)
  BY DEF ToSet
<1> QED
  BY <1>1, <1>2 DEF ToSet

LEMMA NumbersAre ==
  ASSUME NEW n \in Nat, lives \in Nat
  PROVE  /\ Numbers(n) \in Seq(Numbered) /\ Len(Numbers(n)) = n
         /\ \A i \in 1 .. n : Numbers(n)[i] = <<lives, i>>
         /\ Numbers(0) = <<>>
         /\ Numbers(n + 1) = Numbers(n) \o << <<lives, n + 1>> >>
<1>1. ASSUME NEW m \in Nat
      PROVE  /\ Numbers(m) \in Seq(Numbered) /\ Len(Numbers(m)) = m
             /\ \A i \in 1 .. m : Numbers(m)[i] = <<lives, i>>
  <2>1. Numbers(m) \in [1 .. m -> Numbered]
    BY DEF Numbers, Numbered
  <2> QED
    BY <2>1 DEF Numbers
<1>2. Numbers(0) = <<>>
  BY <1>1
<1>3. /\ << <<lives, n + 1>> >> \in Seq(Numbered) /\ Len(<< <<lives, n + 1>> >>) = 1
      /\ << <<lives, n + 1>> >>[1] = <<lives, n + 1>>
  BY DEF Numbered
<1>4. /\ Numbers(n) \o << <<lives, n + 1>> >> \in Seq(Numbered)
      /\ Len(Numbers(n) \o << <<lives, n + 1>> >>) = n + 1
      /\ \A i \in 1 .. n + 1 : (Numbers(n) \o << <<lives, n + 1>> >>)[i] = <<lives, i>>
  BY <1>1, <1>3, ConcatProperties
<1>5. Numbers(n + 1) = Numbers(n) \o << <<lives, n + 1>> >>
  <2>1. /\ Numbers(n + 1) \in Seq(Numbered) /\ Len(Numbers(n + 1)) = n + 1
        /\ \A i \in 1 .. n + 1 : Numbers(n + 1)[i] = <<lives, i>>
    BY <1>1
  <2>2. Len(Numbers(n + 1)) = Len(Numbers(n) \o << <<lives, n + 1>> >>)
        /\ \A i \in 1 .. Len(Numbers(n + 1)) : Numbers(n + 1)[i] = (Numbers(n) \o << <<lives, n + 1>> >>)[i]
    BY <1>4, <2>1
  <2> QED
    BY <1>4, <2>1, <2>2, SeqEqual
<1> QED
  BY <1>1, <1>2, <1>5

LEMMA TokenIsOwn ==
  ASSUME NEW t \in Requests
  PROVE  Token(t) = t /\ t \in Producers
BY DispatchAssumption DEF Token

LEMMA Enqueued ==
  ASSUME NEW s \in Storage, NEW p \in Producers, NEW x \in Numbered
  PROVE  /\ Enqueue(s, p, x) \in Storage
         /\ Enqueue(s, p, x)[p] = s[p] \o <<x>>
         /\ \A q \in Producers : q # p => Enqueue(s, p, x)[q] = s[q]
<1>1. s[p] \in Seq(Numbered) /\ <<x>> \in Seq(Numbered)
  BY DEF Storage
<1>2. s[p] \o <<x>> \in Seq(Numbered)
  BY <1>1, ConcatProperties
<1> QED
  BY <1>2 DEF Enqueue, EnqueueBulk, Storage

LEMMA Dequeued ==
  ASSUME NEW s \in Storage, NEW d \in Dequeue(s)
  PROVE  /\ d.from \in Producers /\ s[d.from] # <<>>
         /\ d.command = Head(s[d.from]) /\ d.command \in Numbered
         /\ d.rest \in Storage /\ d.rest[d.from] = Tail(s[d.from])
         /\ \A p \in Producers : p # d.from => d.rest[p] = s[p]
<1>1. PICK p \in Producers :
        s[p] # <<>> /\ d = [command |-> Head(s[p]), from |-> p, rest |-> [s EXCEPT ![p] = Tail(@)]]
  BY DEF Dequeue
<1>2. s[p] \in Seq(Numbered)
  BY DEF Storage
<1>3. Head(s[p]) \in Numbered /\ Tail(s[p]) \in Seq(Numbered)
  BY <1>1, <1>2, HeadTailProperties
<1> QED
  BY <1>1, <1>3 DEF Storage

LEMMA EmptyIsStorage ==
  /\ EmptyStorage \in Storage
  /\ \A p \in Producers : EmptyStorage[p] = <<>>
BY DEF EmptyStorage, Storage

-------------------------------------------------------------------------------
(***************************************************************************)
(* The invariant of the dispatch, one lemma per action that changes it.    *)
(***************************************************************************)
LEMMA NothingIsKept ==
  /\ NoneOf(Requests) \in [Requests -> Storage] /\ NoneOf(Answers) \in [Answers -> Storage]
  /\ NoneSent \in [Answers -> Storage]
  /\ \A t \in Requests, p \in Producers : NoneOf(Requests)[t][p] = <<>>
  /\ \A a \in Answers, p \in Producers : NoneOf(Answers)[a][p] = <<>> /\ NoneSent[a][p] = <<>>
BY EmptyIsStorage DEF NoneOf, NoneSent

\* A life begins: nothing was received, produced or sent, and nothing waits.
LEMMA LifeBegins ==
  ASSUME handler_registry_' = Handlers, flush' = 0, client_changes' \in Nat, lives' \in Nat,
         incoming_queue_' = NoneOf(Requests), outgoing_queue_' = NoneOf(Answers),
         packets' = [t \in Requests |-> 0], handled' = [t \in Requests |-> <<>>],
         produced' = CountOf(Answers), sent' = NoneSent, owed' = NoneSent
  PROVE  DispatchInv'
<1>1. DispatchTypeOK'
  <2>1. 0 \in 0 .. Len(DrainOrder)
    BY DispatchAssumption, LenProperties
  <2>2. [t \in Requests |-> 0] \in [Requests -> Nat] /\ [t \in Requests |-> <<>>] \in [Requests -> Seq(Numbered)]
    OBVIOUS
  <2>3. CountOf(Answers) \in [Answers -> [Producers -> Nat]]
    BY DEF CountOf
  <2> QED
    BY <2>1, <2>2, <2>3, NothingIsKept DEF DispatchTypeOK
<1>2. Numbers(0)' = <<>> /\ <<>> \o <<>> = <<>>
  <2>1. Numbers(0)' = <<>>
    BY DEF Numbers
  <2> QED
    BY <2>1
<1>3. PacketsInOrder' /\ AnswersAccounted'
  <2>1. ASSUME NEW t \in Requests
        PROVE  (Numbers(packets[t]) = handled[t] \o incoming_queue_[t][Token(t)])'
    <3>1. packets'[t] = 0 /\ handled'[t] = <<>> /\ incoming_queue_'[t][Token(t)] = <<>>
      BY NothingIsKept, TokenIsOwn
    <3> QED
      BY <1>2, <3>1 DEF Numbers
  <2>2. ASSUME NEW a \in Answers, NEW p \in Producers
        PROVE  (Numbers(produced[a][p]) = sent[a][p] \o outgoing_queue_[a][p])'
    <3>1. produced'[a][p] = 0 /\ sent'[a][p] = <<>> /\ outgoing_queue_'[a][p] = <<>>
      BY NothingIsKept DEF CountOf
    <3> QED
      BY <1>2, <3>1 DEF Numbers
  <2> QED
    BY <2>1, <2>2, TokenIsOwn DEF PacketsInOrder, AnswersAccounted, Token
<1>4. OwnToken' /\ OwedIsOld' /\ FlushedIsSent'
  BY NothingIsKept DEF OwnToken, OwedIsOld, FlushedIsSent, ToSet
<1>5. StoppedIsClean'
  BY DEF StoppedIsClean
<1> QED
  BY <1>1, <1>3, <1>4, <1>5 DEF DispatchInv

\* A step that leaves the answers alone.
LEMMA AnswersAside ==
  ASSUME UNCHANGED <<outgoing_queue_, handler_registry_, flush, lives, produced, sent, owed>>,
         AnswersAccounted, OwedIsOld, FlushedIsSent
  PROVE  AnswersAccounted' /\ OwedIsOld' /\ FlushedIsSent'
<1>1. AnswersAccounted'
  BY DEF AnswersAccounted, Numbers, BridgeRunning
<1>2. OwedIsOld'
  BY DEF OwedIsOld
<1>3. FlushedIsSent'
  BY DEF FlushedIsSent, Flushed
<1> QED
  BY <1>1, <1>2, <1>3

\* A step that leaves the commands alone.
LEMMA CommandsAside ==
  ASSUME UNCHANGED <<incoming_queue_, handler_registry_, lives, packets, handled>>,
         PacketsInOrder, OwnToken
  PROVE  PacketsInOrder' /\ OwnToken'
<1>1. PacketsInOrder'
  BY DEF PacketsInOrder, Numbers, BridgeRunning, Token
<1>2. OwnToken'
  BY DEF OwnToken
<1> QED
  BY <1>1, <1>2

LEMMA ReceiveKeeps ==
  ASSUME DispatchInv, NEW t \in Requests, ReceivePacket(t)
  PROVE  DispatchInv'
<1> DEFINE x == <<lives, packets[t] + 1>>
<1>1. /\ BridgeRunning /\ DispatchTypeOK /\ Token(t) = t /\ t \in Producers
      /\ incoming_queue_[t] \in Storage /\ packets[t] \in Nat /\ x \in Numbered
  BY TokenIsOwn DEF ReceivePacket, DispatchInv, DispatchTypeOK, Numbered
<1>2. /\ packets' = [packets EXCEPT ![t] = packets[t] + 1]
      /\ incoming_queue_' = [incoming_queue_ EXCEPT ![t] = Enqueue(incoming_queue_[t], t, x)]
      /\ UNCHANGED <<outgoing_queue_, handler_registry_, flush, client_changes, lives, handled, produced, sent, owed>>
  BY <1>1 DEF ReceivePacket, DispatchTypeOK
<1>3. /\ Enqueue(incoming_queue_[t], t, x) \in Storage
      /\ Enqueue(incoming_queue_[t], t, x)[t] = incoming_queue_[t][t] \o <<x>>
      /\ \A q \in Producers : q # t => Enqueue(incoming_queue_[t], t, x)[q] = incoming_queue_[t][q]
  BY <1>1, Enqueued
<1>4. /\ packets'[t] = packets[t] + 1 /\ incoming_queue_'[t][t] = incoming_queue_[t][t] \o <<x>>
      /\ \A q \in Producers : q # t => incoming_queue_'[t][q] = incoming_queue_[t][q]
      /\ \A r \in Requests : r # t => packets'[r] = packets[r] /\ incoming_queue_'[r] = incoming_queue_[r]
  BY <1>1, <1>2, <1>3 DEF DispatchTypeOK
<1> HIDE DEF x
<1>5. DispatchTypeOK'
  BY <1>1, <1>2, <1>3 DEF DispatchTypeOK
<1>6. PacketsInOrder'
  <2> SUFFICES ASSUME NEW r \in Requests
               PROVE  Numbers(packets'[r]) = handled[r] \o incoming_queue_'[r][r]
    BY <1>2, TokenIsOwn DEF PacketsInOrder, Numbers, Token
  <2>1. Numbers(packets[r]) = handled[r] \o incoming_queue_[r][r]
    BY <1>1, TokenIsOwn DEF DispatchInv, PacketsInOrder
  <2>2. CASE r = t
    <3>1. Numbers(packets[t] + 1) = (handled[t] \o incoming_queue_[t][t]) \o <<x>>
      BY <1>1, <2>1, <2>2, NumbersAre DEF x, DispatchTypeOK
    <3>2. handled[t] \in Seq(Numbered) /\ incoming_queue_[t][t] \in Seq(Numbered)
      BY <1>1 DEF DispatchTypeOK, Storage
    <3>3. (handled[t] \o incoming_queue_[t][t]) \o <<x>> = handled[t] \o (incoming_queue_[t][t] \o <<x>>)
      BY <1>1, <3>2, PutLast
    <3> QED
      BY <1>4, <2>2, <3>1, <3>3
  <2>3. CASE r # t
    BY <1>4, <2>1, <2>3
  <2> QED
    BY <2>2, <2>3
<1>7. AnswersAccounted' /\ OwedIsOld' /\ FlushedIsSent'
  BY <1>2, AnswersAside DEF DispatchInv
<1>8. OwnToken'
  BY <1>4 DEF DispatchInv, OwnToken
<1>9. StoppedIsClean'
  BY <1>1, <1>2 DEF StoppedIsClean, BridgeRunning
<1> QED
  BY <1>5, <1>6, <1>7, <1>8, <1>9 DEF DispatchInv

LEMMA NodePollKeeps ==
  ASSUME DispatchInv, NEW t \in Served, NodePoll(t)
  PROVE  DispatchInv'
<1>1. BridgeRunning /\ DispatchTypeOK /\ t \in Requests /\ t \in Producers /\ incoming_queue_[t] \in Storage
  BY DispatchAssumption DEF NodePoll, DispatchInv, DispatchTypeOK
<1>2. PICK d \in Dequeue(incoming_queue_[t]), some \in SUBSET AnswersOf(t) :
        /\ incoming_queue_' = [incoming_queue_ EXCEPT ![t] = d.rest]
        /\ handled' = [handled EXCEPT ![t] = Append(@, d.command)]
        /\ outgoing_queue_' = [a \in Answers |->
             IF a \in some THEN Enqueue(outgoing_queue_[a], t, <<lives, produced[a][t] + 1>>)
             ELSE outgoing_queue_[a]]
        /\ produced' = [a \in Answers |-> [p \in Producers |->
             IF a \in some /\ p = t THEN produced[a][p] + 1 ELSE produced[a][p]]]
        /\ UNCHANGED <<handler_registry_, flush, client_changes, lives, packets, sent, owed>>
  BY DEF NodePoll
<1>3. /\ d.from \in Producers /\ incoming_queue_[t][d.from] # <<>>
      /\ d.command = Head(incoming_queue_[t][d.from]) /\ d.command \in Numbered
      /\ d.rest \in Storage /\ d.rest[d.from] = Tail(incoming_queue_[t][d.from])
      /\ \A p \in Producers : p # d.from => d.rest[p] = incoming_queue_[t][p]
  BY <1>1, Dequeued
<1>4. d.from = t
  BY <1>1, <1>3 DEF DispatchInv, OwnToken
<1>5. /\ handled[t] \in Seq(Numbered) /\ incoming_queue_[t][t] \in Seq(Numbered)
      /\ handled'[t] = Append(handled[t], Head(incoming_queue_[t][t]))
      /\ incoming_queue_'[t] = d.rest
      /\ \A r \in Requests : r # t => handled'[r] = handled[r] /\ incoming_queue_'[r] = incoming_queue_[r]
  BY <1>1, <1>2, <1>3, <1>4 DEF DispatchTypeOK, Storage
<1>6. UNCHANGED <<handler_registry_, flush, client_changes, lives, packets, sent, owed>>
  BY <1>2
\* The commands.
<1>7. handled' \in [Requests -> Seq(Numbered)] /\ incoming_queue_' \in [Requests -> Storage]
  <2>1. Append(handled[t], d.command) \in Seq(Numbered)
    BY <1>3, <1>5, AppendProperties
  <2> QED
    BY <1>1, <1>2, <1>3, <2>1 DEF DispatchTypeOK
<1>8. PacketsInOrder'
  <2> SUFFICES ASSUME NEW r \in Requests
               PROVE  Numbers(packets[r]) = handled'[r] \o incoming_queue_'[r][r]
    BY <1>6, TokenIsOwn DEF PacketsInOrder, Numbers, Token
  <2>1. Numbers(packets[r]) = handled[r] \o incoming_queue_[r][r]
    BY <1>1, TokenIsOwn DEF DispatchInv, PacketsInOrder
  <2>2. CASE r = t
    <3>1. incoming_queue_[t][t] # <<>> /\ incoming_queue_'[t][t] = Tail(incoming_queue_[t][t])
      BY <1>3, <1>4, <1>5
    <3>2. Append(handled[t], Head(incoming_queue_[t][t])) \o Tail(incoming_queue_[t][t])
            = handled[t] \o incoming_queue_[t][t]
      BY <1>5, <3>1, TakeFirst
    <3> QED
      BY <1>5, <2>1, <2>2, <3>1, <3>2
  <2>3. CASE r # t
    BY <1>5, <2>1, <2>3
  <2> QED
    BY <2>2, <2>3
<1>9. OwnToken'
  <2> SUFFICES ASSUME NEW r \in Requests, NEW p \in Producers, p # r
               PROVE  incoming_queue_'[r][p] = <<>>
    BY DEF OwnToken
  <2>1. incoming_queue_[r][p] = <<>>
    BY DEF DispatchInv, OwnToken
  <2> QED
    BY <1>3, <1>4, <1>5, <2>1
\* The answers.
<1>10. ASSUME NEW a \in Answers, NEW p \in Producers
      PROVE  /\ outgoing_queue_'[a] \in Storage /\ outgoing_queue_[a][p] \in Seq(Numbered)
             /\ \/ produced'[a][p] = produced[a][p] /\ outgoing_queue_'[a][p] = outgoing_queue_[a][p]
                \/ /\ produced'[a][p] = produced[a][p] + 1
                   /\ outgoing_queue_'[a][p] = outgoing_queue_[a][p] \o << <<lives, produced[a][p] + 1>> >>
             /\ produced[a][p] \in Nat /\ sent[a][p] \in Seq(Numbered)
             /\ <<lives, produced[a][p] + 1>> \in Numbered
  <2>1. /\ outgoing_queue_[a] \in Storage /\ sent[a] \in Storage /\ lives \in Nat
        /\ produced[a][p] \in Nat /\ produced[a][t] \in Nat
    BY <1>1 DEF DispatchTypeOK
  <2>2. /\ outgoing_queue_[a][p] \in Seq(Numbered) /\ sent[a][p] \in Seq(Numbered)
        /\ <<lives, produced[a][t] + 1>> \in Numbered /\ <<lives, produced[a][p] + 1>> \in Numbered
    BY <2>1 DEF Storage, Numbered
  <2>3. CASE a \in some
    <3> DEFINE e == Enqueue(outgoing_queue_[a], t, <<lives, produced[a][t] + 1>>)
    <3>1. /\ e \in Storage /\ e[t] = outgoing_queue_[a][t] \o << <<lives, produced[a][t] + 1>> >>
          /\ \A q \in Producers : q # t => e[q] = outgoing_queue_[a][q]
      BY <1>1, <2>1, <2>2, Enqueued
    <3>2. /\ outgoing_queue_'[a] = e
          /\ produced'[a][p] = IF p = t THEN produced[a][p] + 1 ELSE produced[a][p]
      BY <1>2, <2>3
    <3> HIDE DEF e
    <3> QED
      BY <2>1, <2>2, <3>1, <3>2
  <2>4. CASE a \notin some
    BY <1>2, <2>1, <2>2, <2>4
  <2> QED
    BY <2>3, <2>4
<1>11. DispatchTypeOK'
  <2>1. produced' \in [Answers -> [Producers -> Nat]]
    BY <1>1, <1>2 DEF DispatchTypeOK
  <2>2. outgoing_queue_' \in [Answers -> Storage]
    <3>1. \A a \in Answers : outgoing_queue_'[a] \in Storage
      BY <1>1, <1>10
    <3>2. outgoing_queue_' = [a \in Answers |-> outgoing_queue_'[a]]
      BY <1>2
    <3> QED
      BY <3>1, <3>2
  <2> QED
    BY <1>1, <1>2, <1>7, <2>1, <2>2 DEF DispatchTypeOK
<1>12. AnswersAccounted'
  <2> SUFFICES ASSUME NEW a \in Answers, NEW p \in Producers
               PROVE  Numbers(produced'[a][p]) = sent[a][p] \o outgoing_queue_'[a][p]
    BY <1>6 DEF AnswersAccounted, Numbers
  <2> DEFINE x == <<lives, produced[a][p] + 1>>
  <2>1. Numbers(produced[a][p]) = sent[a][p] \o outgoing_queue_[a][p]
    BY <1>1 DEF DispatchInv, AnswersAccounted
  <2>2. Numbers(produced[a][p] + 1) = (sent[a][p] \o outgoing_queue_[a][p]) \o <<x>>
    BY <1>1, <1>10, <2>1, NumbersAre DEF DispatchTypeOK
  <2>3. (sent[a][p] \o outgoing_queue_[a][p]) \o <<x>> = sent[a][p] \o (outgoing_queue_[a][p] \o <<x>>)
    BY <1>10, PutLast
  <2> QED
    BY <1>10, <2>1, <2>2, <2>3
<1>13. OwedIsOld'
  <2> SUFFICES ASSUME NEW a \in Answers, NEW p \in Producers, NEW x \in ToSet(owed[a][p])
               PROVE  \E i \in 1 .. produced'[a][p] : x = <<lives, i>>
    BY <1>6 DEF OwedIsOld
  <2>1. PICK i \in 1 .. produced[a][p] : x = <<lives, i>>
    BY DEF DispatchInv, OwedIsOld
  <2>2. produced[a][p] \in Nat /\ produced'[a][p] \in {produced[a][p], produced[a][p] + 1}
    BY <1>10
  <2>3. i \in 1 .. produced'[a][p]
    BY <2>1, <2>2
  <2> QED
    BY <2>1, <2>3
<1>14. FlushedIsSent'
  <2> SUFFICES ASSUME NEW a \in Answers, NEW p \in Producers, Flushed(a),
                      NEW x \in ToSet(owed[a][p]), x \in ToSet(outgoing_queue_'[a][p])
               PROVE  FALSE
    BY <1>6 DEF FlushedIsSent, Flushed
  <2>1. x \notin ToSet(outgoing_queue_[a][p])
    BY DEF DispatchInv, FlushedIsSent
  <2>2. x = <<lives, produced[a][p] + 1>>
    BY <1>10, <2>1, ElementsOf
  <2>3. PICK i \in 1 .. produced[a][p] : x = <<lives, i>>
    BY DEF DispatchInv, OwedIsOld
  <2>4. i = produced[a][p] + 1
    BY <2>2, <2>3
  <2> QED
    <3>1. produced[a][p] \in Nat /\ i \in 1 .. produced[a][p]
      BY <1>10
    <3> QED
      BY <2>4, <3>1
<1>15. StoppedIsClean'
  BY <1>1, <1>6 DEF StoppedIsClean, BridgeRunning
<1> QED
  BY <1>8, <1>9, <1>11, <1>12, <1>13, <1>14, <1>15 DEF DispatchInv

LEMMA BeginFlushKeeps ==
  ASSUME DispatchInv, BeginFlush
  PROVE  DispatchInv'
<1>1. /\ BridgeRunning /\ flush' = 1 /\ owed' = outgoing_queue_ /\ DispatchTypeOK
      /\ UNCHANGED <<incoming_queue_, outgoing_queue_, handler_registry_, client_changes, lives, packets,
                     handled, produced, sent>>
  BY DEF BeginFlush, DispatchInv
<1>2. DispatchTypeOK'
  <2>1. 1 \in 0 .. Len(DrainOrder)
    BY DispatchAssumption, EmptySeq
  <2> QED
    BY <1>1, <2>1 DEF DispatchTypeOK
<1>3. AnswersAccounted'
  BY <1>1 DEF DispatchInv, AnswersAccounted, Numbers, BridgeRunning
<1>4. OwedIsOld'
  <2> SUFFICES ASSUME NEW a \in Answers, NEW p \in Producers, NEW x \in ToSet(outgoing_queue_[a][p])
               PROVE  \E i \in 1 .. produced[a][p] : x = <<lives, i>>
    BY <1>1 DEF OwedIsOld
  <2>1. /\ sent[a][p] \in Seq(Numbered) /\ outgoing_queue_[a][p] \in Seq(Numbered)
        /\ produced[a][p] \in Nat /\ lives \in Nat
    BY <1>1 DEF DispatchTypeOK, Storage
  <2>2. PICK k \in 1 .. Len(outgoing_queue_[a][p]) : x = outgoing_queue_[a][p][k]
    BY <2>1 DEF ToSet
  <2> DEFINE i == Len(sent[a][p]) + k
  <2>3. i \in 1 .. Len(sent[a][p] \o outgoing_queue_[a][p]) /\ (sent[a][p] \o outgoing_queue_[a][p])[i] = x
    BY <2>1, <2>2, SecondPart
  <2>4. Numbers(produced[a][p]) = sent[a][p] \o outgoing_queue_[a][p]
    BY <1>1 DEF DispatchInv, AnswersAccounted
  <2> HIDE DEF i
  <2>5. i \in 1 .. produced[a][p] /\ x = Numbers(produced[a][p])[i]
    BY <2>1, <2>3, <2>4, NumbersAre
  <2>6. x = <<lives, i>>
    BY <2>1, <2>5, NumbersAre
  <2> QED
    BY <2>5, <2>6
<1>5. FlushedIsSent'
  BY <1>1 DEF FlushedIsSent, Flushed
<1>6. StoppedIsClean'
  BY <1>1 DEF StoppedIsClean, BridgeRunning
<1>7. PacketsInOrder' /\ OwnToken'
  BY <1>1, CommandsAside DEF DispatchInv
<1> QED
  BY <1>2, <1>3, <1>4, <1>5, <1>6, <1>7 DEF DispatchInv

LEMMA DrainAndFlushKeeps ==
  ASSUME DispatchInv, DrainAndFlush
  PROVE  DispatchInv'
<1> DEFINE a == DrainOrder[flush]
<1>1. /\ DispatchTypeOK /\ BridgeRunning /\ flush \in 1 .. Len(DrainOrder)
      /\ handler_registry_ = Handlers /\ Len(DrainOrder) \in Nat
      /\ UNCHANGED <<incoming_queue_, handler_registry_, client_changes, lives, packets, handled, produced, owed>>
  <2>1. DispatchTypeOK /\ flush # 0 /\ Len(DrainOrder) \in Nat
    BY DispatchAssumption, LenProperties DEF DrainAndFlush, DispatchInv
  <2>2. flush \in 1 .. Len(DrainOrder)
    BY <2>1 DEF DispatchTypeOK
  <2>3. BridgeRunning /\ handler_registry_ = Handlers
    BY <2>1 DEF DispatchInv, StoppedIsClean, BridgeRunning, DispatchTypeOK
  <2> QED
    BY <2>1, <2>2, <2>3 DEF DrainAndFlush
<1>2. a \in Answers /\ a \in Handlers /\ DrainOrder[flush] = a
  BY <1>1, DispatchAssumption, ElementOfSeq DEF Handlers
<1> HIDE DEF a
<1>3. PacketsInOrder' /\ OwnToken'
  BY <1>1, CommandsAside DEF DispatchInv
<1>4. StoppedIsClean'
  BY <1>1 DEF StoppedIsClean, BridgeRunning
\* Its turn is over.
<1>5. CASE /\ Drained(a)
           /\ flush' = IF flush = Len(DrainOrder) THEN 0 ELSE flush + 1
           /\ UNCHANGED <<outgoing_queue_, sent>>
  <2>1. flush' \in 0 .. Len(DrainOrder)
    BY <1>1, <1>5
  <2>2. DispatchTypeOK'
    BY <1>1, <1>5, <2>1 DEF DispatchTypeOK
  <2>3. AnswersAccounted'
    BY <1>1, <1>5 DEF DispatchInv, AnswersAccounted, Numbers, BridgeRunning
  <2>4. OwedIsOld'
    BY <1>1 DEF DispatchInv, OwedIsOld
  <2>5. FlushedIsSent'
    <3> SUFFICES ASSUME NEW b \in Answers, NEW p \in Producers, Flushed(b)'
                 PROVE  ToSet(owed[b][p]) \cap ToSet(outgoing_queue_[b][p]) = {}
      BY <1>1, <1>5 DEF FlushedIsSent
    <3>1. \E i \in 1 .. flush : DrainOrder[i] = b
      <4>1. CASE flush = Len(DrainOrder)
        <5>1. PICK i \in DOMAIN DrainOrder : b = DrainOrder[i]
          BY DEF Answers, ToSet
        <5>2. DOMAIN DrainOrder = 1 .. Len(DrainOrder)
          BY DispatchAssumption, LenProperties
        <5> QED
          BY <4>1, <5>1, <5>2
      <4>2. CASE flush # Len(DrainOrder)
        <5>1. flush' = flush + 1 /\ flush \in Nat
          BY <1>1, <1>5, <4>2
        <5>2. flush' # 0 /\ 1 .. flush' - 1 = 1 .. flush
          BY <5>1
        <5> QED
          BY <5>2 DEF Flushed
      <4> QED
        BY <4>1, <4>2
    <3>2. CASE b = a
      <4>1. outgoing_queue_[b][p] = <<>>
        BY <1>5, <3>2, EmptyIsStorage DEF Drained
      <4> QED
        BY <4>1 DEF ToSet
    <3>3. CASE b # a
      <4>1. PICK i \in 1 .. flush : DrainOrder[i] = b
        BY <3>1
      <4>2. i \in 1 .. flush - 1
        BY <1>1, <1>2, <3>3, <4>1
      <4> QED
        BY <4>1, <4>2 DEF DispatchInv, FlushedIsSent, Flushed
    <3> QED
      BY <3>2, <3>3
  <2> QED
    BY <1>3, <1>4, <2>2, <2>3, <2>4, <2>5 DEF DispatchInv
\* An answer is sent.
<1>6. ASSUME NEW d \in Dequeue(outgoing_queue_[a]),
             outgoing_queue_' = [outgoing_queue_ EXCEPT ![a] = d.rest],
             sent' = [sent EXCEPT ![a][d.from] = Append(@, d.command)],
             UNCHANGED flush
      PROVE  DispatchInv'
  <2> DEFINE f == d.from
             q == outgoing_queue_[a][f]
             h == sent[a][f]
  <2>1. /\ outgoing_queue_ \in [Answers -> Storage] /\ sent \in [Answers -> Storage]
        /\ outgoing_queue_[a] \in Storage /\ sent[a] \in Storage
    BY <1>1, <1>2 DEF DispatchTypeOK
  <2>2. /\ f \in Producers /\ q # <<>> /\ d.command = Head(q) /\ d.rest \in Storage
        /\ d.rest[f] = Tail(q)
        /\ \A p \in Producers : p # f => d.rest[p] = outgoing_queue_[a][p]
    BY <1>6, <2>1, Dequeued
  <2>3. q \in Seq(Numbered) /\ h \in Seq(Numbered)
    BY <2>1, <2>2 DEF Storage
  <2>4. Append(h, Head(q)) \in Seq(Numbered) /\ Append(h, Head(q)) \o Tail(q) = h \o q
    BY <2>2, <2>3, TakeFirst
  <2>5. sent' = [sent EXCEPT ![a] = [sent[a] EXCEPT ![f] = Append(h, Head(q))]]
    BY <1>6, <2>2
  <2> HIDE DEF f, q, h
  <2>6. [sent[a] EXCEPT ![f] = Append(h, Head(q))] \in Storage
    BY <2>1, <2>2, <2>4 DEF Storage
  <2>7. /\ outgoing_queue_' \in [Answers -> Storage] /\ sent' \in [Answers -> Storage]
        /\ outgoing_queue_'[a] = d.rest /\ sent'[a] = [sent[a] EXCEPT ![f] = Append(h, Head(q))]
        /\ \A b \in Answers : b # a => outgoing_queue_'[b] = outgoing_queue_[b] /\ sent'[b] = sent[b]
    <3> DEFINE s == [sent[a] EXCEPT ![f] = Append(h, Head(q))]
    <3>1. /\ outgoing_queue_' = [outgoing_queue_ EXCEPT ![a] = d.rest] /\ sent' = [sent EXCEPT ![a] = s]
          /\ d.rest \in Storage /\ s \in Storage
      BY <1>6, <2>2, <2>5, <2>6
    <3> HIDE DEF s
    <3>2. /\ outgoing_queue_' \in [Answers -> Storage] /\ sent' \in [Answers -> Storage]
          /\ outgoing_queue_'[a] = d.rest /\ sent'[a] = s
          /\ \A b \in Answers : b # a => outgoing_queue_'[b] = outgoing_queue_[b] /\ sent'[b] = sent[b]
      BY <1>2, <2>1, <3>1
    <3> QED
      BY <3>2 DEF s
  <2>8. DispatchTypeOK'
    BY <1>1, <1>6, <2>7 DEF DispatchTypeOK
  <2>9. AnswersAccounted'
    <3> SUFFICES ASSUME NEW b \in Answers, NEW p \in Producers
                 PROVE  Numbers(produced[b][p]) = sent'[b][p] \o outgoing_queue_'[b][p]
      BY <1>1 DEF AnswersAccounted, Numbers
    <3>1. Numbers(produced[b][p]) = sent[b][p] \o outgoing_queue_[b][p]
      <4>1. AnswersAccounted
        BY DEF DispatchInv
      <4> QED
        BY <1>1, <4>1 DEF AnswersAccounted
    <3>2. CASE b = a /\ p = f
      <4>1. sent'[b][p] = Append(h, Head(q)) /\ outgoing_queue_'[b][p] = Tail(q)
        BY <2>1, <2>2, <2>7, <3>2 DEF Storage
      <4> QED
        BY <2>4, <3>1, <3>2, <4>1 DEF h, q
    <3>3. CASE b # a \/ p # f
      <4>1. sent'[b][p] = sent[b][p] /\ outgoing_queue_'[b][p] = outgoing_queue_[b][p]
        BY <2>1, <2>2, <2>7, <3>3 DEF Storage
      <4> QED
        BY <3>1, <4>1
    <3> QED
      BY <3>2, <3>3
  <2>10. OwedIsOld'
    BY <1>1 DEF DispatchInv, OwedIsOld
  <2>11. FlushedIsSent'
    <3> SUFFICES ASSUME NEW b \in Answers, NEW p \in Producers, Flushed(b)
                 PROVE  ToSet(owed[b][p]) \cap ToSet(outgoing_queue_'[b][p]) = {}
      BY <1>1, <1>6 DEF FlushedIsSent, Flushed
    <3>1. ToSet(owed[b][p]) \cap ToSet(outgoing_queue_[b][p]) = {}
      BY DEF DispatchInv, FlushedIsSent
    <3>2. ToSet(Tail(q)) \subseteq ToSet(q)
      <4>1. Head(q) \in Numbered
        BY <2>2, <2>3, HeadTailProperties
      <4> QED
        BY <2>2, <2>3, <4>1, ElementsOf
    <3>3. outgoing_queue_'[b][p] = outgoing_queue_[b][p] \/ (b = a /\ p = f /\ outgoing_queue_'[b][p] = Tail(q))
      BY <2>2, <2>7
    <3>4. CASE b = a /\ p = f /\ outgoing_queue_'[b][p] = Tail(q)
      BY <3>1, <3>2, <3>4 DEF q
    <3> QED
      BY <3>1, <3>3, <3>4
  <2> QED
    BY <1>3, <1>4, <2>8, <2>9, <2>10, <2>11 DEF DispatchInv
<1> QED
  BY <1>1, <1>2, <1>5, <1>6 DEF DrainAndFlush, a

LEMMA ShutdownKeeps ==
  ASSUME DispatchInv, Shutdown
  PROVE  DispatchInv'
<1>1. /\ DispatchTypeOK /\ flush = 0 /\ handler_registry_' = {}
      /\ incoming_queue_' = NoneOf(Requests) /\ outgoing_queue_' = NoneOf(Answers)
      /\ client_changes' = 2 * ((client_changes + 1) \div 2)
      /\ UNCHANGED <<flush, lives, packets, handled, produced, sent, owed>>
  BY DEF Shutdown, Cleared, DispatchInv
<1>2. DispatchTypeOK'
  <2>1. client_changes' \in Nat
    BY <1>1 DEF DispatchTypeOK
  <2> QED
    BY <1>1, <2>1, NothingIsKept DEF DispatchTypeOK
<1>3. StoppedIsClean' /\ PacketsInOrder' /\ AnswersAccounted'
  BY <1>1 DEF StoppedIsClean, PacketsInOrder, AnswersAccounted, BridgeRunning
<1>4. OwnToken' /\ FlushedIsSent'
  BY <1>1, NothingIsKept DEF OwnToken, FlushedIsSent, ToSet
<1>5. OwedIsOld'
  BY <1>1 DEF DispatchInv, OwedIsOld
<1> QED
  BY <1>2, <1>3, <1>4, <1>5 DEF DispatchInv

LEMMA DispatchStep ==
  ASSUME DispatchInv, [DispatchNext]_dispatch_vars
  PROVE  DispatchInv'
<1>1. ASSUME NEW t \in Requests \cup Unknown, DispatchReceive(t)
      PROVE  DispatchInv' \/ UNCHANGED dispatch_vars
  BY <1>1, ReceiveKeeps DEF DispatchReceive
<1>2. CASE \E t \in Served : NodePoll(t)
  BY <1>2, NodePollKeeps
<1>3. CASE BeginFlush \/ DrainAndFlush \/ Shutdown
  BY <1>3, BeginFlushKeeps, DrainAndFlushKeeps, ShutdownKeeps
<1>4. CASE ClientsChange
  <2>1. client_changes' \in Nat
    BY <1>4 DEF ClientsChange, DispatchInv, DispatchTypeOK
  <2>2. UNCHANGED <<incoming_queue_, outgoing_queue_, handler_registry_, flush, lives, packets, handled,
                    produced, sent, owed>>
    BY <1>4 DEF ClientsChange
  <2>3. DispatchTypeOK' /\ StoppedIsClean'
    BY <2>1, <2>2 DEF DispatchInv, DispatchTypeOK, StoppedIsClean, BridgeRunning
  <2> QED
    BY <2>2, <2>3, AnswersAside, CommandsAside DEF DispatchInv
<1>5. CASE Restart
  <2>1. /\ flush = 0 /\ incoming_queue_ = NoneOf(Requests) /\ outgoing_queue_ = NoneOf(Answers)
        /\ client_changes \in Nat /\ lives + 1 \in Nat
    BY <1>5 DEF Restart, DispatchInv, DispatchTypeOK, StoppedIsClean
  <2> QED
    BY <1>5, <2>1, LifeBegins DEF Restart
<1>6. CASE UNCHANGED dispatch_vars
  <2>1. DispatchTypeOK' /\ StoppedIsClean'
    BY <1>6 DEF DispatchInv, DispatchTypeOK, StoppedIsClean, BridgeRunning, dispatch_vars
  <2> QED
    BY <1>6, <2>1, AnswersAside, CommandsAside DEF DispatchInv, dispatch_vars
<1> QED
  BY <1>1, <1>2, <1>3, <1>4, <1>5, <1>6 DEF DispatchNext

LEMMA DispatchBegins ==
  ASSUME DispatchInit
  PROVE  DispatchInv
<1>1. DispatchTypeOK
  <2>1. 0 \in 0 .. Len(DrainOrder)
    BY DispatchAssumption, LenProperties
  <2>2. CountOf(Answers) \in [Answers -> [Producers -> Nat]]
    BY DEF CountOf
  <2>3. packets \in [Requests -> Nat] /\ handled \in [Requests -> Seq(Numbered)]
    BY DEF DispatchInit
  <2> QED
    BY <2>1, <2>2, <2>3, NothingIsKept DEF DispatchInit, DispatchTypeOK
<1>2. Numbers(0) = <<>> /\ <<>> \o <<>> = <<>>
  BY DEF Numbers
<1>3. PacketsInOrder /\ AnswersAccounted
  BY <1>2, NothingIsKept, TokenIsOwn DEF DispatchInit, PacketsInOrder, AnswersAccounted, CountOf
<1>4. OwnToken /\ OwedIsOld /\ FlushedIsSent
  BY NothingIsKept DEF DispatchInit, OwnToken, OwedIsOld, FlushedIsSent, ToSet
<1>5. StoppedIsClean
  BY DEF DispatchInit, StoppedIsClean
<1> QED
  BY <1>1, <1>3, <1>4, <1>5 DEF DispatchInv

\* Over any number of packets, clients, ticks and lives of the bridge, every
\* packet becomes one command of its node in the order of its type, every
\* answer is sent once and in the order of its node or still waits, and a tick
\* leaves nothing that waited when it began (CommandHandlerRegistry, App).
THEOREM DispatchSafety == DispatchSpec => []PacketsAccounted
<1>1. DispatchInv => PacketsAccounted
  BY DEF DispatchInv, PacketsAccounted, TickFlushes, FlushedIsSent, Flushed
<1>2. DispatchInit => DispatchInv
  BY DispatchBegins
<1>3. DispatchInv /\ [DispatchNext]_dispatch_vars => DispatchInv'
  BY DispatchStep
<1> QED
  BY <1>1, <1>2, <1>3, PTL DEF DispatchSpec

-------------------------------------------------------------------------------
(***************************************************************************)
(* The memory of what waits.                                               *)
(***************************************************************************)
\* What is not of a kind that is built in a frame is on the heap, and so what
\* it was.
Kept(c) == c.kind \notin FramedKinds => c.memory = Heap /\ c.intact

\* A local is a copy in the frame of the nodes and may well be lost: the
\* invariant says nothing of it.
CommandsKept ==
  /\ \A c \in receiving \cup callback.reply : Kept(c)
  /\ \A i \in DOMAIN incoming : Kept(incoming[i])
  /\ \A i \in DOMAIN outgoing : Kept(outgoing[i])

FramesInv == FramesTypeOK /\ CommandsKept

LEMMA HeapIsNoFrame ==
  /\ Heap \notin Frames /\ Heap \in Nat
  /\ NodeAllocator \in Frames
  /\ frame_index \in Frames => NextFrame \in Frames /\ PendingFrameIndex \in Frames
<1>1. \A n \in Nat : n % FrameCount \in 0 .. FrameCount - 1
  BY FramesAssumption
<1>2. Heap \notin Frames /\ Heap \in Nat
  BY FramesAssumption DEF Heap, Frames
<1>3. NodeAllocator \in Frames
  BY <1>1 DEF NodeAllocator, Frames
<1>4. frame_index \in Frames => NextFrame \in Frames
  BY <1>1, FramesAssumption DEF NextFrame, Frames
<1> QED
  BY <1>2, <1>3, <1>4 DEF PendingFrameIndex

LEMMA NewIsKept ==
  ASSUME frame_index \in Frames, NEW kind \in FrameKinds
  PROVE  New(kind) \in FrameCommand /\ Kept(New(kind))
<1>1. QueueResource(kind) \in Frames \cup {Heap}
  BY HeapIsNoFrame DEF QueueResource
<1>2. kind \notin FramedKinds => QueueResource(kind) = Heap
  BY DEF QueueResource, FramedKinds
<1> QED
  BY <1>1, <1>2 DEF New, FrameCommand, Kept

LEMMA ResetKeeps ==
  ASSUME NEW f \in Frames, NEW c \in FrameCommand
  PROVE  AfterReset(f, c) \in FrameCommand /\ (Kept(c) => Kept(AfterReset(f, c)))
<1>1. AfterReset(f, c) = [kind |-> c.kind, memory |-> c.memory, intact |-> c.intact /\ c.memory # f]
  BY DEF AfterReset, FrameCommand
<1>2. Heap # f
  BY HeapIsNoFrame
<1> QED
  BY <1>1, <1>2 DEF FrameCommand, Kept

LEMMA ResetQueueKeeps ==
  ASSUME NEW f \in Frames, NEW q \in Seq(FrameCommand), \A i \in DOMAIN q : Kept(q[i])
  PROVE  /\ QueueAfterReset(f, q) \in Seq(FrameCommand)
         /\ \A i \in DOMAIN QueueAfterReset(f, q) : Kept(QueueAfterReset(f, q)[i])
<1>1. DOMAIN q = 1 .. Len(q) /\ Len(q) \in Nat
  BY LenProperties
<1>2. \A i \in DOMAIN q : AfterReset(f, q[i]) \in FrameCommand /\ Kept(AfterReset(f, q[i]))
  BY <1>1, ResetKeeps, ElementOfSeq
<1>3. QueueAfterReset(f, q) \in [1 .. Len(q) -> FrameCommand]
  BY <1>1, <1>2 DEF QueueAfterReset
<1>4. QueueAfterReset(f, q) \in Seq(FrameCommand)
  BY <1>1, <1>3, SeqDef
<1> QED
  BY <1>2, <1>4 DEF QueueAfterReset

LEMMA ResetSetKeeps ==
  ASSUME NEW f \in Frames, NEW cs \in AtMostOne(FrameCommand)
  PROVE  /\ AllAfterReset(f, cs) \in AtMostOne(FrameCommand)
         /\ (\A c \in cs : Kept(c)) => \A c \in AllAfterReset(f, cs) : Kept(c)
<1>1. \A c \in cs : c \in FrameCommand
  BY DEF AtMostOne
<1>2. CASE cs = {}
  BY <1>2 DEF AllAfterReset, AtMostOne
<1>3. CASE cs # {}
  <2>1. PICK c \in FrameCommand : cs = {c}
    BY <1>3 DEF AtMostOne
  <2>2. AllAfterReset(f, cs) = {AfterReset(f, c)}
    BY <2>1 DEF AllAfterReset
  <2> QED
    BY <2>1, <2>2, ResetKeeps DEF AtMostOne
<1> QED
  BY <1>2, <1>3

LEMMA QueuesKeep ==
  ASSUME NEW q \in Seq(FrameCommand), \A i \in DOMAIN q : Kept(q[i])
  PROVE  /\ \A c \in FrameCommand : Kept(c) =>
              /\ Append(q, c) \in Seq(FrameCommand)
              /\ \A i \in DOMAIN Append(q, c) : Kept(Append(q, c)[i])
         /\ q # <<>> =>
              /\ Head(q) \in FrameCommand /\ Tail(q) \in Seq(FrameCommand)
              /\ \A i \in DOMAIN Tail(q) : Kept(Tail(q)[i])
<1>1. ASSUME NEW c \in FrameCommand, Kept(c)
      PROVE  /\ Append(q, c) \in Seq(FrameCommand)
             /\ \A i \in DOMAIN Append(q, c) : Kept(Append(q, c)[i])
  <2>1. Append(q, c) \in Seq(FrameCommand)
    BY AppendProperties
  <2> SUFFICES ASSUME NEW i \in DOMAIN Append(q, c) PROVE Kept(Append(q, c)[i])
    BY <2>1
  <2>2. Append(q, c)[i] = c \/ (i \in DOMAIN q /\ Append(q, c)[i] = q[i])
    OBVIOUS
  <2> QED
    BY <1>1, <2>2
<1>2. ASSUME q # <<>>
      PROVE  /\ Head(q) \in FrameCommand /\ Tail(q) \in Seq(FrameCommand)
             /\ \A i \in DOMAIN Tail(q) : Kept(Tail(q)[i])
  <2>1. Head(q) \in FrameCommand /\ Tail(q) \in Seq(FrameCommand)
    BY <1>2, HeadTailProperties
  <2> SUFFICES ASSUME NEW i \in DOMAIN Tail(q) PROVE Kept(Tail(q)[i])
    BY <2>1
  <2>2. i + 1 \in DOMAIN q /\ Tail(q)[i] = q[i + 1]
    BY <1>2
  <2> QED
    BY <2>2
<1> QED
  BY <1>1, <1>2

LEMMA FramesStep ==
  ASSUME FramesInv, [FramesNext]_frameVars
  PROVE  FramesInv'
<1>1. FramesTypeOK /\ CommandsKept
  BY DEF FramesInv
<1>2. ASSUME NEW kind \in IncomingKinds, BeginReceive(kind)
      PROVE  FramesInv'
  <2>1. New(kind) \in FrameCommand /\ Kept(New(kind))
    BY <1>1, NewIsKept DEF FramesTypeOK, FrameKinds
  <2>2. FramesTypeOK'
    BY <1>1, <1>2, <2>1 DEF BeginReceive, FramesTypeOK, AtMostOne
  <2>3. CommandsKept'
    BY <1>1, <1>2, <2>1 DEF BeginReceive, CommandsKept
  <2> QED
    BY <2>2, <2>3 DEF FramesInv
<1>3. CASE EndReceive
  <2>1. PICK c \in receiving : incoming' = Append(incoming, c)
    BY <1>3 DEF EndReceive
  <2>2. c \in FrameCommand /\ Kept(c)
    BY <1>1, <2>1 DEF FramesTypeOK, CommandsKept, AtMostOne
  <2>3. incoming' \in Seq(FrameCommand) /\ \A i \in DOMAIN incoming' : Kept(incoming'[i])
    BY <1>1, <2>1, <2>2, QueuesKeep DEF FramesTypeOK, CommandsKept
  <2>4. receiving' = {} /\ UNCHANGED <<frame_index, frame_tick, callback, outgoing>>
    BY <1>3 DEF EndReceive
  <2>5. FramesTypeOK'
    BY <1>1, <2>3, <2>4 DEF FramesTypeOK, AtMostOne
  <2>6. CommandsKept'
    BY <1>1, <2>3, <2>4 DEF CommandsKept
  <2> QED
    BY <2>5, <2>6 DEF FramesInv
<1>4. CASE BeginDrainCallback
  <2> DEFINE local == [Head(incoming) EXCEPT !.memory = NodeAllocator]
  <2>1. /\ incoming # <<>> /\ incoming' = Tail(incoming)
        /\ callback' = [running |-> TRUE, reply |-> {}, local |-> {local}]
        /\ UNCHANGED <<frame_index, frame_tick, receiving, outgoing>>
    BY <1>4 DEF BeginDrainCallback
  <2>2. /\ Head(incoming) \in FrameCommand /\ incoming' \in Seq(FrameCommand)
        /\ \A i \in DOMAIN incoming' : Kept(incoming'[i])
    BY <1>1, <2>1, QueuesKeep DEF FramesTypeOK, CommandsKept
  <2>3. local \in FrameCommand
    BY <2>2, HeapIsNoFrame DEF FrameCommand
  <2> HIDE DEF local
  <2>4. callback' \in [running : BOOLEAN, local : AtMostOne(FrameCommand), reply : AtMostOne(FrameCommand)]
    BY <2>1, <2>3 DEF AtMostOne
  <2>5. FramesTypeOK'
    BY <1>1, <2>1, <2>2, <2>4 DEF FramesTypeOK
  <2>6. CommandsKept'
    BY <1>1, <2>1, <2>2 DEF CommandsKept
  <2> QED
    BY <2>5, <2>6 DEF FramesInv
<1>5. CASE BeginEventCallback
  <2>1. /\ callback' = [running |-> TRUE, local |-> {}, reply |-> {}]
        /\ UNCHANGED <<frame_index, frame_tick, receiving, incoming, outgoing>>
    BY <1>5 DEF BeginEventCallback, NoCallback
  <2>2. FramesTypeOK'
    BY <1>1, <2>1 DEF FramesTypeOK, AtMostOne
  <2>3. CommandsKept'
    BY <1>1, <2>1 DEF CommandsKept
  <2> QED
    BY <2>2, <2>3 DEF FramesInv
<1>6. ASSUME NEW kind \in OutgoingKinds, BuildReply(kind)
      PROVE  FramesInv'
  <2>1. New(kind) \in FrameCommand /\ Kept(New(kind))
    BY <1>1, NewIsKept DEF FramesTypeOK, FrameKinds
  <2>2. /\ callback' = [callback EXCEPT !.reply = {New(kind)}]
        /\ UNCHANGED <<frame_index, frame_tick, receiving, incoming, outgoing>>
    BY <1>6 DEF BuildReply
  <2>3. callback' \in [running : BOOLEAN, local : AtMostOne(FrameCommand), reply : AtMostOne(FrameCommand)]
        /\ callback'.reply = {New(kind)}
    BY <1>1, <2>1, <2>2 DEF FramesTypeOK, AtMostOne
  <2>4. FramesTypeOK'
    BY <1>1, <2>2, <2>3 DEF FramesTypeOK
  <2>5. CommandsKept'
    BY <1>1, <2>1, <2>2, <2>3 DEF CommandsKept
  <2> QED
    BY <2>4, <2>5 DEF FramesInv
<1>7. CASE FinishCallback
  <2>1. /\ callback' = [running |-> FALSE, local |-> {}, reply |-> {}]
        /\ UNCHANGED <<frame_index, frame_tick, receiving, incoming>>
    BY <1>7 DEF FinishCallback, NoCallback
  <2>2. outgoing' \in Seq(FrameCommand) /\ \A i \in DOMAIN outgoing' : Kept(outgoing'[i])
    <3>1. CASE UNCHANGED outgoing
      BY <1>1, <3>1 DEF FramesTypeOK, CommandsKept
    <3>2. CASE \E c \in callback.reply : outgoing' = Append(outgoing, c)
      <4>1. PICK c \in callback.reply : outgoing' = Append(outgoing, c)
        BY <3>2
      <4>2. callback.reply \in AtMostOne(FrameCommand)
        BY <1>1 DEF FramesTypeOK
      <4>3. c \in FrameCommand /\ Kept(c)
        BY <1>1, <4>1, <4>2 DEF CommandsKept, AtMostOne
      <4> QED
        BY <1>1, <4>1, <4>3, QueuesKeep DEF FramesTypeOK, CommandsKept
    <3> QED
      BY <1>7, <3>1, <3>2 DEF FinishCallback
  <2>3. FramesTypeOK'
    BY <1>1, <2>1, <2>2 DEF FramesTypeOK, AtMostOne
  <2>4. CommandsKept'
    BY <1>1, <2>1, <2>2 DEF CommandsKept
  <2> QED
    BY <2>3, <2>4 DEF FramesInv
<1>8. CASE BridgeTick
  <2>1. /\ outgoing' = outgoing \/ outgoing' = <<>>
        /\ frame_tick' = "advance" /\ UNCHANGED <<frame_index, receiving, callback, incoming>>
    BY <1>8 DEF BridgeTick
  <2>2. outgoing' \in Seq(FrameCommand) /\ \A i \in DOMAIN outgoing' : Kept(outgoing'[i])
    <3>1. CASE outgoing' = outgoing
      BY <1>1, <3>1 DEF FramesTypeOK, CommandsKept
    <3>2. CASE outgoing' = <<>>
      BY <3>2
    <3> QED
      BY <2>1, <3>1, <3>2
  <2>3. FramesTypeOK'
    BY <1>1, <2>1, <2>2 DEF FramesTypeOK
  <2>4. CommandsKept'
    BY <1>1, <2>1, <2>2 DEF CommandsKept
  <2> QED
    BY <2>3, <2>4 DEF FramesInv
<1>9. CASE Advance
  <2> DEFINE next == NextFrame
  <2>1. next \in Frames
    BY <1>1, HeapIsNoFrame DEF FramesTypeOK
  <2>2. /\ frame_tick' = "drain" /\ frame_index' = next
        /\ receiving' = AllAfterReset(next, receiving)
        /\ callback' = [callback EXCEPT !.local = AllAfterReset(next, @), !.reply = AllAfterReset(next, @)]
        /\ incoming' = QueueAfterReset(next, incoming)
        /\ outgoing' = QueueAfterReset(next, outgoing)
    BY <1>9 DEF Advance
  <2> HIDE DEF next
  <2>3. /\ receiving' \in AtMostOne(FrameCommand)
        /\ \A c \in receiving' : Kept(c)
    BY <1>1, <2>1, <2>2, ResetSetKeeps DEF FramesTypeOK, CommandsKept
  <2>4. /\ callback.local \in AtMostOne(FrameCommand) /\ callback.reply \in AtMostOne(FrameCommand)
        /\ callback' = [running |-> callback.running, local |-> AllAfterReset(next, callback.local),
                        reply |-> AllAfterReset(next, callback.reply)]
        /\ callback.running \in BOOLEAN
    BY <1>1, <2>2 DEF FramesTypeOK
  <2>5. /\ callback' \in [running : BOOLEAN, local : AtMostOne(FrameCommand), reply : AtMostOne(FrameCommand)]
        /\ \A c \in callback'.reply : Kept(c)
    BY <1>1, <2>1, <2>4, ResetSetKeeps DEF CommandsKept
  <2>6. /\ incoming' \in Seq(FrameCommand) /\ (\A i \in DOMAIN incoming' : Kept(incoming'[i]))
        /\ outgoing' \in Seq(FrameCommand) /\ (\A i \in DOMAIN outgoing' : Kept(outgoing'[i]))
    BY <1>1, <2>1, <2>2, ResetQueueKeeps DEF FramesTypeOK, CommandsKept
  <2>7. FramesTypeOK'
    BY <2>1, <2>2, <2>3, <2>5, <2>6 DEF FramesTypeOK
  <2>8. CommandsKept'
    BY <2>3, <2>5, <2>6 DEF CommandsKept
  <2> QED
    BY <2>7, <2>8 DEF FramesInv
<1>10. CASE UNCHANGED frameVars
  BY <1>1, <1>10 DEF frameVars, FramesInv, FramesTypeOK, CommandsKept
<1> QED
  BY <1>2, <1>3, <1>4, <1>5, <1>6, <1>7, <1>8, <1>9, <1>10 DEF FramesNext

LEMMA FramesBegin ==
  ASSUME FramesInit
  PROVE  FramesInv
<1>1. FramesTypeOK
  <2>1. 0 \in Frames
    BY FramesAssumption DEF Frames
  <2> QED
    BY <2>1 DEF FramesInit, FramesTypeOK, NoCallback, AtMostOne
<1>2. CommandsKept
  BY DEF FramesInit, CommandsKept, NoCallback
<1> QED
  BY <1>1, <1>2 DEF FramesInv

\* With any number of frames and however the three threads run, a command that
\* waits in a queue is what was enqueued, unless it is of one of the kinds that
\* are built in a frame, and no reset that takes one of these takes another
\* command (QueueResource, App::AdvanceFrame).
THEOREM FrameSafety == FramesSpec => []FramesConsistent
<1>1. FramesInv => FramesConsistent
  BY DEF FramesInv, FramesConsistent, CommandsKept, Kept, HeapSurvives
<1>2. FramesInit => FramesInv
  BY FramesBegin
<1>3. FramesInv /\ [FramesNext]_frameVars => FramesInv'
  BY FramesStep
<1> QED
  BY <1>1, <1>2, <1>3, PTL DEF FramesSpec

-------------------------------------------------------------------------------
(***************************************************************************)
(* The order of the queues.                                                *)
(***************************************************************************)
QueuesInv == QueuesTypeOK /\ ProducerOrder

CommandsOf == [Producers -> Seq(Nat)]
Entry == [in : Seq(Nat), out : Seq(Nat)]

LEMMA Associative ==
  ASSUME NEW a \in Seq(Nat), NEW b \in Seq(Nat), NEW c \in Seq(Nat)
  PROVE  (a \o b) \o c = a \o (b \o c)
BY ConcatAssociative

LEMMA StorageReplaced ==
  ASSUME QueuesTypeOK, NEW t \in CommandTypes, NEW s \in CommandsOf, messages_' = WithStorage(t, s)
  PROVE  /\ DOMAIN messages_' = DOMAIN messages_ \cup {t} /\ messages_'[t] = s
         /\ \A u \in DOMAIN messages_ : u # t => messages_'[u] = messages_[u]
         /\ DOMAIN messages_' \subseteq CommandTypes
         /\ messages_' \in [DOMAIN messages_' -> CommandsOf]
BY DEF WithStorage, QueuesTypeOK, CommandsOf

LEMMA LogAdds ==
  ASSUME QueuesTypeOK, NEW t \in CommandTypes, NEW got \in CommandsOf
  PROVE  /\ Out(t, got) \in [CommandTypes -> [Producers -> Entry]]
         /\ \A p \in Producers : /\ Out(t, got)[t][p].in = log[t][p].in
                                 /\ Out(t, got)[t][p].out = log[t][p].out \o got[p]
         /\ \A u \in CommandTypes : u # t => Out(t, got)[u] = log[u]
<1> DEFINE after == [p \in Producers |-> [log[t][p] EXCEPT !.out = @ \o got[p]]]
<1>1. log \in [CommandTypes -> [Producers -> Entry]] /\ log[t] \in [Producers -> Entry]
  BY DEF QueuesTypeOK, Entry
<1>2. ASSUME NEW p \in Producers
      PROVE  after[p] \in Entry /\ after[p].in = log[t][p].in /\ after[p].out = log[t][p].out \o got[p]
  <2>1. log[t][p] \in Entry /\ got[p] \in Seq(Nat)
    BY <1>1 DEF CommandsOf
  <2>2. log[t][p].out \o got[p] \in Seq(Nat)
    BY <2>1, ConcatProperties DEF Entry
  <2> QED
    BY <2>1, <2>2 DEF Entry
<1>3. Out(t, got) = [log EXCEPT ![t] = after]
  BY DEF Out
<1>4. after \in [Producers -> Entry]
  BY <1>2
<1> HIDE DEF after
<1> QED
  BY <1>1, <1>2, <1>3, <1>4

\* Of every producer a prefix is taken, and the rest stays.
LEMMA TakingKeeps ==
  ASSUME QueuesInv, NEW t \in CommandTypes, IsRegistered(t),
         NEW got \in CommandsOf, NEW rest \in CommandsOf,
         \A p \in Producers : got[p] \o rest[p] = messages_[t][p],
         messages_' = WithStorage(t, rest), log' = Out(t, got), UNCHANGED enqueued
  PROVE  QueuesInv'
<1>1. QueuesTypeOK /\ ProducerOrder /\ t \in DOMAIN messages_
  BY DEF QueuesInv, IsRegistered
<1>2. /\ DOMAIN messages_' = DOMAIN messages_ /\ messages_'[t] = rest
      /\ \A u \in DOMAIN messages_ : u # t => messages_'[u] = messages_[u]
      /\ DOMAIN messages_' \subseteq CommandTypes /\ messages_' \in [DOMAIN messages_' -> CommandsOf]
  BY <1>1, StorageReplaced
<1>3. /\ log' \in [CommandTypes -> [Producers -> Entry]]
      /\ \A p \in Producers : /\ log'[t][p].in = log[t][p].in
                              /\ log'[t][p].out = log[t][p].out \o got[p]
      /\ \A u \in CommandTypes : u # t => log'[u] = log[u]
  BY <1>1, LogAdds
<1>4. QueuesTypeOK'
  BY <1>1, <1>2, <1>3 DEF QueuesTypeOK, CommandsOf, Entry
<1>5. ProducerOrder'
  <2> SUFFICES ASSUME NEW u \in CommandTypes, NEW p \in Producers
               PROVE  log'[u][p].in = log'[u][p].out \o (IF u \in DOMAIN messages_' THEN messages_'[u][p] ELSE <<>>)
    BY DEF ProducerOrder, IsRegistered
  <2>1. log[u][p].in = log[u][p].out \o (IF u \in DOMAIN messages_ THEN messages_[u][p] ELSE <<>>)
    BY <1>1 DEF ProducerOrder, IsRegistered
  <2>2. CASE u = t
    <3>1. log[t][p].out \in Seq(Nat) /\ got[p] \in Seq(Nat) /\ rest[p] \in Seq(Nat)
      BY <1>1 DEF QueuesTypeOK, CommandsOf
    <3>2. (log[t][p].out \o got[p]) \o rest[p] = log[t][p].out \o (got[p] \o rest[p])
      BY <3>1, Associative
    <3> QED
      BY <1>1, <1>2, <1>3, <2>1, <2>2, <3>2
  <2>3. CASE u # t
    BY <1>2, <1>3, <2>1, <2>3
  <2> QED
    BY <2>2, <2>3
<1> QED
  BY <1>4, <1>5 DEF QueuesInv

LEMMA EmptyKeeps ==
  /\ EmptyStorage \in CommandsOf /\ NoLog \in [Producers -> Entry]
  /\ \A p \in Producers : EmptyStorage[p] = <<>> /\ NoLog[p].in = <<>> /\ NoLog[p].out = <<>>
  /\ <<>> \o <<>> = <<>>
BY DEF EmptyStorage, CommandsOf, NoLog, Entry

LEMMA RegisterKeeps ==
  ASSUME QueuesInv, NEW t \in CommandTypes, Register(t)
  PROVE  QueuesInv'
<1>1. QueuesTypeOK /\ ProducerOrder /\ UNCHANGED <<enqueued, log>>
  BY DEF QueuesInv, Register
<1>2. CASE IsRegistered(t)
  BY <1>1, <1>2 DEF Register, QueuesInv, QueuesTypeOK, ProducerOrder, IsRegistered
<1>3. CASE ~IsRegistered(t)
  <2>1. /\ DOMAIN messages_' = DOMAIN messages_ \cup {t} /\ messages_'[t] = EmptyStorage
        /\ \A u \in DOMAIN messages_ : u # t => messages_'[u] = messages_[u]
        /\ DOMAIN messages_' \subseteq CommandTypes /\ messages_' \in [DOMAIN messages_' -> CommandsOf]
    BY <1>1, <1>3, EmptyKeeps, StorageReplaced DEF Register
  <2>2. QueuesTypeOK'
    BY <1>1, <2>1 DEF QueuesTypeOK, CommandsOf
  <2>3. ProducerOrder'
    <3> SUFFICES ASSUME NEW u \in CommandTypes, NEW p \in Producers
                 PROVE  log[u][p].in = log[u][p].out \o (IF u \in DOMAIN messages_' THEN messages_'[u][p] ELSE <<>>)
      BY <1>1 DEF ProducerOrder, IsRegistered
    <3>1. log[u][p].in = log[u][p].out \o (IF u \in DOMAIN messages_ THEN messages_[u][p] ELSE <<>>)
      BY <1>1 DEF ProducerOrder, IsRegistered
    <3> QED
      BY <1>3, <2>1, <3>1, EmptyKeeps DEF IsRegistered
  <2> QED
    BY <2>2, <2>3 DEF QueuesInv
<1> QED
  BY <1>2, <1>3

LEMMA EnqueueKeeps ==
  ASSUME QueuesInv, NEW t \in CommandTypes, NEW p \in Producers, NEW n \in 0 .. 2, EnqueueRange(t, p, n)
  PROVE  QueuesInv'
<1> DEFINE batch == [i \in 1 .. n |-> enqueued + i]
           old      == messages_[t]
<1>1. /\ QueuesTypeOK /\ ProducerOrder /\ t \in DOMAIN messages_ /\ enqueued + n <= MaxEnqueued
      /\ messages_' = WithStorage(t, EnqueueBulk(old, p, batch))
      /\ enqueued' = enqueued + n
      /\ log' = [log EXCEPT ![t][p].in = @ \o batch]
  BY DEF QueuesInv, EnqueueRange, IsRegistered
<1>2. /\ enqueued \in Nat /\ old \in CommandsOf /\ old[p] \in Seq(Nat)
      /\ log \in [CommandTypes -> [Producers -> Entry]] /\ log[t][p] \in Entry
  BY <1>1, QueuesAssumption DEF QueuesTypeOK, CommandsOf, Entry
<1>3. batch \in Seq(Nat)
  <2>1. batch \in [1 .. n -> Nat] /\ n \in Nat
    BY <1>2
  <2> QED
    BY <2>1, SeqDef
<1> HIDE DEF batch, old
<1>4. old[p] \o batch \in Seq(Nat) /\ log[t][p].in \o batch \in Seq(Nat)
  BY <1>2, <1>3, ConcatProperties DEF Entry
<1>5. /\ EnqueueBulk(old, p, batch) \in CommandsOf
      /\ EnqueueBulk(old, p, batch)[p] = old[p] \o batch
      /\ \A q \in Producers : q # p => EnqueueBulk(old, p, batch)[q] = old[q]
  BY <1>2, <1>4 DEF EnqueueBulk, CommandsOf
<1>6. /\ DOMAIN messages_' = DOMAIN messages_ /\ messages_'[t] = EnqueueBulk(old, p, batch)
      /\ \A u \in DOMAIN messages_ : u # t => messages_'[u] = messages_[u]
      /\ DOMAIN messages_' \subseteq CommandTypes /\ messages_' \in [DOMAIN messages_' -> CommandsOf]
  BY <1>1, <1>5, StorageReplaced
<1>7. /\ log' \in [CommandTypes -> [Producers -> Entry]]
      /\ log'[t][p].in = log[t][p].in \o batch /\ log'[t][p].out = log[t][p].out
      /\ \A q \in Producers : q # p => log'[t][q] = log[t][q]
      /\ \A u \in CommandTypes : u # t => log'[u] = log[u]
  BY <1>1, <1>2, <1>4 DEF Entry
<1>8. QueuesTypeOK'
  <2>1. enqueued' \in 0 .. MaxEnqueued
    BY <1>1, <1>2, QueuesAssumption
  <2> QED
    BY <1>6, <1>7, <2>1 DEF QueuesTypeOK, CommandsOf, Entry
<1>9. ProducerOrder'
  <2> SUFFICES ASSUME NEW u \in CommandTypes, NEW q \in Producers
               PROVE  log'[u][q].in = log'[u][q].out \o (IF u \in DOMAIN messages_' THEN messages_'[u][q] ELSE <<>>)
    BY DEF ProducerOrder, IsRegistered
  <2>1. log[u][q].in = log[u][q].out \o (IF u \in DOMAIN messages_ THEN messages_[u][q] ELSE <<>>)
    BY <1>1 DEF ProducerOrder, IsRegistered
  <2>2. CASE u = t /\ q = p
    <3>1. log[t][p].out \in Seq(Nat)
      BY <1>2 DEF Entry
    <3>2. (log[t][p].out \o old[p]) \o batch = log[t][p].out \o (old[p] \o batch)
      BY <1>2, <1>3, <3>1, Associative
    <3>3. log[t][p].in = log[t][p].out \o old[p]
      BY <1>1, <2>1, <2>2 DEF old
    <3> QED
      BY <1>1, <1>5, <1>6, <1>7, <2>2, <3>2, <3>3
  <2>3. CASE u = t /\ q # p
    <3>1. log'[t][q] = log[t][q] /\ messages_'[t][q] = messages_[t][q] /\ t \in DOMAIN messages_'
      BY <1>1, <1>5, <1>6, <1>7, <2>3 DEF old
    <3> QED
      BY <1>1, <2>1, <2>3, <3>1
  <2>4. CASE u # t
    BY <1>6, <1>7, <2>1, <2>4
  <2> QED
    BY <2>2, <2>3, <2>4
<1> QED
  BY <1>8, <1>9 DEF QueuesInv

LEMMA DequeueKeeps ==
  ASSUME QueuesInv, NEW t \in CommandTypes, DequeueOne(t)
  PROVE  QueuesInv'
<1> DEFINE s == messages_[t]
<1>1. t \in DOMAIN messages_ /\ s \in CommandsOf
  BY DEF QueuesInv, DequeueOne, IsRegistered, QueuesTypeOK, CommandsOf
<1>2. PICK d \in Dequeue(s) :
        /\ messages_' = WithStorage(t, d.rest)
        /\ log' = Out(t, [p \in Producers |-> IF p = d.from THEN <<d.command>> ELSE <<>>])
        /\ enqueued' = enqueued
  BY DEF DequeueOne
<1>3. PICK f \in Producers :
        s[f] # <<>> /\ d = [command |-> Head(s[f]), from |-> f, rest |-> [s EXCEPT ![f] = Tail(@)]]
  BY DEF Dequeue
<1> DEFINE got  == [p \in Producers |-> IF p = f THEN <<Head(s[f])>> ELSE <<>>]
           rest == [s EXCEPT ![f] = Tail(s[f])]
<1>4. messages_' = WithStorage(t, rest) /\ log' = Out(t, got)
  BY <1>2, <1>3
<1> HIDE DEF s
<1>5. s[f] \in Seq(Nat)
  BY <1>1 DEF CommandsOf
<1>6. /\ Head(s[f]) \in Nat /\ Tail(s[f]) \in Seq(Nat) /\ <<Head(s[f])>> \o Tail(s[f]) = s[f]
  <2>1. Head(s[f]) \in Nat /\ Tail(s[f]) \in Seq(Nat)
    BY <1>3, <1>5, HeadTailProperties
  <2> QED
    BY <1>3, <1>5, <2>1
<1>7. got \in CommandsOf /\ rest \in CommandsOf
  BY <1>1, <1>6 DEF CommandsOf
<1>8. ASSUME NEW p \in Producers
      PROVE  got[p] \o rest[p] = s[p]
  <2>1. CASE p = f
    BY <1>1, <1>6, <2>1 DEF CommandsOf
  <2>2. CASE p # f
    <3>1. got[p] = <<>> /\ rest[p] = s[p] /\ s[p] \in Seq(Nat)
      BY <1>1, <2>2 DEF CommandsOf
    <3>2. <<>> \o s[p] = s[p]
      BY <3>1, ConcatEmptySeq
    <3> QED
      BY <3>1, <3>2
  <2> QED
    BY <2>1, <2>2
<1> HIDE DEF got, rest
<1> QED
  BY <1>1, <1>2, <1>4, <1>7, <1>8, TakingKeeps DEF IsRegistered, s

LEMMA DequeueIntoKeeps ==
  ASSUME QueuesInv, NEW t \in CommandTypes, NEW max_count \in 0 .. 2, DequeueInto(t, max_count)
  PROVE  QueuesInv'
<1> DEFINE s == messages_[t]
<1>1. t \in DOMAIN messages_ /\ s \in CommandsOf
  BY DEF QueuesInv, DequeueInto, IsRegistered, QueuesTypeOK, CommandsOf
<1>2. PICK taken \in Into(s, max_count) :
        messages_' = WithStorage(t, taken.rest) /\ log' = Out(t, taken.got) /\ enqueued' = enqueued
  BY DEF DequeueInto
<1>3. PICK n \in [Producers -> 0 .. max_count] :
        taken = Taken(s, n) /\ \A p \in Producers : n[p] <= Len(s[p])
  BY DEF Into
<1> HIDE DEF s
<1>4. ASSUME NEW p \in Producers
      PROVE  /\ taken.got[p] \in Seq(Nat) /\ taken.rest[p] \in Seq(Nat)
             /\ taken.got[p] \o taken.rest[p] = s[p]
  <2>1. s[p] \in Seq(Nat) /\ Len(s[p]) \in Nat /\ n[p] \in 0 .. Len(s[p])
    BY <1>1, <1>3, LenProperties DEF CommandsOf
  <2>2. taken.got[p] = SubSeq(s[p], 1, n[p]) /\ taken.rest[p] = SubSeq(s[p], n[p] + 1, Len(s[p]))
    BY <1>3 DEF Taken
  <2>3. \A i \in 1 .. Len(s[p]) : s[p][i] \in Nat
    BY <2>1, ElementOfSeq
  <2>4. SubSeq(s[p], 1, n[p]) \in Seq(Nat) /\ SubSeq(s[p], n[p] + 1, Len(s[p])) \in Seq(Nat)
    BY <2>1, <2>3, SubSeqProperties
  <2>5. SubSeq(s[p], 1, n[p]) \o SubSeq(s[p], n[p] + 1, Len(s[p])) = s[p]
    <3>1. 1 \in 1 .. Len(s[p]) + 1 /\ n[p] \in 1 - 1 .. Len(s[p]) /\ Len(s[p]) \in n[p] .. Len(s[p])
      BY <2>1
    <3>2. SubSeq(s[p], 1, n[p]) \o SubSeq(s[p], n[p] + 1, Len(s[p])) = SubSeq(s[p], 1, Len(s[p]))
      BY <2>1, <3>1, ConcatAdjacentSubSeq
    <3> QED
      BY <2>1, <3>2, SubSeqFull
  <2> QED
    BY <2>2, <2>4, <2>5
<1>5. taken.got \in CommandsOf /\ taken.rest \in CommandsOf
  BY <1>3, <1>4 DEF Taken, CommandsOf
<1> QED
  BY <1>1, <1>2, <1>4, <1>5, TakingKeeps DEF IsRegistered, s

LEMMA ClearKeeps ==
  ASSUME QueuesInv, NEW T \in SUBSET CommandTypes, ClearTypes(T) \/ ResetTypes(T)
  PROVE  QueuesInv'
<1>1. QueuesTypeOK /\ ProducerOrder /\ enqueued' = enqueued
  BY DEF QueuesInv, ClearTypes, ResetTypes
<1>2. CASE ClearTypes(T)
  <2>1. /\ messages_' = [t \in DOMAIN messages_ |-> IF t \in T THEN EmptyStorage ELSE messages_[t]]
        /\ log' = [t \in CommandTypes |-> IF t \in T \cap DOMAIN messages_ THEN NoLog ELSE log[t]]
    BY <1>2 DEF ClearTypes
  <2>2. QueuesTypeOK'
    BY <1>1, <2>1, EmptyKeeps DEF QueuesTypeOK, CommandsOf, Entry
  <2>3. ProducerOrder'
    BY <1>1, <2>1, EmptyKeeps DEF ProducerOrder, IsRegistered, QueuesTypeOK
  <2> QED
    BY <2>2, <2>3 DEF QueuesInv
<1>3. CASE ResetTypes(T)
  <2>1. /\ messages_' = [t \in DOMAIN messages_ \ T |-> messages_[t]]
        /\ log' = [t \in CommandTypes |-> IF t \in T THEN NoLog ELSE log[t]]
    BY <1>3 DEF ResetTypes, Restrict
  <2>2. QueuesTypeOK'
    BY <1>1, <2>1, EmptyKeeps DEF QueuesTypeOK, CommandsOf, Entry
  <2>3. ProducerOrder'
    BY <1>1, <2>1, EmptyKeeps DEF ProducerOrder, IsRegistered, QueuesTypeOK
  <2> QED
    BY <2>2, <2>3 DEF QueuesInv
<1> QED
  BY <1>2, <1>3

\* Whichever producer the concurrent queue serves first, and whoever clears or
\* resets types in between, the commands of a producer come out once and in its
\* order (CommandQueue, TypedCommandStorage).
THEOREM QueueSafety == QueuesSpec => []ProducerOrder
<1>1. QueuesInit => QueuesInv
  <2> SUFFICES ASSUME QueuesInit PROVE QueuesInv
    OBVIOUS
  <2>1. DOMAIN messages_ = {}
    BY DEF QueuesInit
  <2>2. QueuesTypeOK
    BY <2>1, EmptyKeeps, QueuesAssumption DEF QueuesInit, QueuesTypeOK, Entry
  <2>3. ProducerOrder
    BY <2>1, EmptyKeeps DEF QueuesInit, ProducerOrder, IsRegistered
  <2> QED
    BY <2>2, <2>3 DEF QueuesInv
<1>2. QueuesInv /\ [QueuesNext]_queue_vars => QueuesInv'
  <2> SUFFICES ASSUME QueuesInv, [QueuesNext]_queue_vars PROVE QueuesInv'
    OBVIOUS
  <2>1. CASE \E t \in CommandTypes : Register(t) \/ DequeueOne(t)
    BY <2>1, RegisterKeeps, DequeueKeeps
  <2>2. CASE \E t \in CommandTypes, p \in Producers, n \in 0 .. 2 : EnqueueRange(t, p, n)
    BY <2>2, EnqueueKeeps
  <2>3. CASE \E t \in CommandTypes, n \in 0 .. 2 : DequeueInto(t, n)
    BY <2>3, DequeueIntoKeeps
  <2>4. CASE \E T \in Chosen : ClearTypes(T) \/ ResetTypes(T)
    <3>1. \A T \in Chosen : T \in SUBSET CommandTypes
      BY DEF Chosen
    <3> QED
      BY <2>4, <3>1, ClearKeeps
  <2>5. CASE UNCHANGED queue_vars
    BY <2>5 DEF queue_vars, QueuesInv, QueuesTypeOK, ProducerOrder, IsRegistered
  <2> QED
    BY <2>1, <2>2, <2>3, <2>4, <2>5 DEF QueuesNext
<1>3. QueuesInv => ProducerOrder
  BY DEF QueuesInv
<1> QED
  BY <1>1, <1>2, <1>3, PTL DEF QueuesSpec
===============================================================================
