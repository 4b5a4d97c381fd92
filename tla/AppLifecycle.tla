----------------------------- MODULE AppLifecycle ------------------------------
(***************************************************************************)
(* App: initialisation, the ROS thread, requests to shut down and the      *)
(* shutdown (app/app.cpp, app.hpp, network/src/runner.cpp).                *)
(*                                                                         *)
(* One thread owns the App: it initialises it, keeps it going the way its  *)
(* host does, and shuts it down.  The ROS thread runs callbacks and may    *)
(* die of an exception; any thread (a signal handler too) may request the  *)
(* shutdown.  A request is two steps, the store and the notification, and  *)
(* the condition variable forgets a notification nobody waits for.         *)
(***************************************************************************)
EXTENDS Naturals

CONSTANTS
  Hosts,    \* how the owner keeps the App going
  MaxRuns   \* bound: initialisations

ASSUME AppAssumption == Hosts \subseteq {"run", "wait", "jni"} /\ MaxRuns \in Nat

\* run: the tick loop of network::Run; wait: WaitForShutdown; jni: ticks until
\* the mod closes the bridge, and perhaps creates it again.
VARIABLES
  host,                \* how the owner runs this App
  state,               \* AppState
  shutdown_requested_,
  owner,               \* the owning thread: where it is
  ros,                 \* the ROS thread: where it is
  spinning,            \* the executor's flag, cleared by cancel()
  promised,            \* shutdown_promise_ has its value
  requester,           \* another thread in RequestShutdown
  nodes,               \* the nodes and the executor exist
  bridge_,             \* bridge_ exists
  failed,              \* history: an exception left the spin of this run
  runs                 \* history: initialisations so far

resources == <<nodes, bridge_>>
appVars == <<host, state, shutdown_requested_, owner, ros, spinning, promised,
             requester, resources, failed, runs>>

Waiting  == {"check", "decided", "blocked"}
Stopping == {"request", "notify", "cancel", "promise", "join", "destroy", "clear"}
Starting == {"start", "bridge", "ros", "initialized"}

AppTypeOK ==
  /\ host \in {"run", "wait", "jni"}
  /\ state \in {"uninitialized", "initialized", "shuttingDown"}
  /\ shutdown_requested_ \in BOOLEAN
  /\ owner \in Starting \cup {"loop", "tick", "exchange", "ended"} \cup Waiting \cup Stopping
  /\ ros \in {"none", "starting", "spinning", "callback", "request", "notify", "ended"}
  /\ spinning \in BOOLEAN
  /\ promised \in BOOLEAN
  /\ requester \in {"idle", "notify"}
  /\ nodes \in BOOLEAN
  /\ bridge_ \in BOOLEAN
  /\ failed \in BOOLEAN
  /\ runs \in 0 .. MaxRuns

AppInit ==
  /\ host \in Hosts
  /\ state = "uninitialized"
  /\ shutdown_requested_ = FALSE
  /\ owner = "start"
  /\ ros = "none"
  /\ spinning = FALSE
  /\ promised = FALSE
  /\ requester = "idle"
  /\ nodes = FALSE
  /\ bridge_ = FALSE
  /\ failed = FALSE
  /\ runs = 0

At(step, next) == owner = step /\ owner' = next

\* notify_all: the owner is woken only if it is already blocked.
AfterNotify(at) == IF at = "blocked" THEN "check" ELSE at

-------------------------------------------------------------------------------
(***************************************************************************)
(* Init.                                                                   *)
(***************************************************************************)
ResetRequest ==
  /\ At("start", "bridge")
  /\ runs < MaxRuns
  /\ runs' = runs + 1
  /\ shutdown_requested_' = FALSE
  /\ failed' = FALSE
  /\ UNCHANGED <<host, state, ros, spinning, promised, requester, resources>>

InitBridge ==
  /\ At("bridge", "ros")
  /\ bridge_' = TRUE
  /\ UNCHANGED <<host, state, shutdown_requested_, ros, spinning, promised,
                 requester, nodes, failed, runs>>

InitROS ==
  /\ At("ros", "initialized")
  /\ nodes' = TRUE
  /\ promised' = FALSE
  /\ ros' = "starting"
  /\ UNCHANGED <<host, state, shutdown_requested_, spinning, requester, bridge_, failed, runs>>

Initialized ==
  /\ At("initialized", IF host = "wait" THEN "check" ELSE "loop")
  /\ state' = "initialized"
  /\ UNCHANGED <<host, shutdown_requested_, ros, spinning, promised, requester,
                 resources, failed, runs>>

-------------------------------------------------------------------------------
(***************************************************************************)
(* The owner while the App is initialised.                                 *)
(***************************************************************************)

\* network::Run leaves its loop on a request; the mod ticks until it closes.
Loop ==
  /\ owner = "loop"
  /\ owner' \in IF host = "run" THEN IF shutdown_requested_ THEN {"exchange"} ELSE {"tick"}
                ELSE {"tick", "exchange"}
  /\ UNCHANGED <<host, state, shutdown_requested_, ros, spinning, promised,
                 requester, resources, failed, runs>>

TickApp ==
  /\ At("tick", "loop")
  /\ UNCHANGED <<host, state, shutdown_requested_, ros, spinning, promised,
                 requester, resources, failed, runs>>

\* WaitForShutdown: the predicate is tested with the mutex held, then wait()
\* blocks.  RequestShutdown does not take the mutex.
TestPredicate ==
  /\ At("check", IF shutdown_requested_ THEN "exchange" ELSE "decided")
  /\ UNCHANGED <<host, state, shutdown_requested_, ros, spinning, promised,
                 requester, resources, failed, runs>>

Block ==
  /\ At("decided", "blocked")
  /\ UNCHANGED <<host, state, shutdown_requested_, ros, spinning, promised,
                 requester, resources, failed, runs>>

-------------------------------------------------------------------------------
(***************************************************************************)
(* Shutdown, by the owner.                                                 *)
(***************************************************************************)
ExchangeState ==
  /\ At("exchange", IF state = "initialized" THEN "request" ELSE "ended")
  /\ state' = IF state = "initialized" THEN "shuttingDown" ELSE state
  /\ UNCHANGED <<host, shutdown_requested_, ros, spinning, promised, requester,
                 resources, failed, runs>>

SetRequested ==
  /\ At("request", "cancel")
  /\ shutdown_requested_' = TRUE
  /\ UNCHANGED <<host, state, ros, spinning, promised, requester, resources, failed, runs>>

\* cancel() is lost on a thread that has not begun to spin.
CancelExecutor ==
  /\ At("cancel", "promise")
  /\ spinning' = FALSE
  /\ UNCHANGED <<host, state, shutdown_requested_, ros, promised, requester,
                 resources, failed, runs>>

SetPromise ==
  /\ At("promise", "join")
  /\ promised' = TRUE
  /\ UNCHANGED <<host, state, shutdown_requested_, ros, spinning, requester,
                 resources, failed, runs>>

\* Mutant: the nodes are destroyed while the thread is left to end.
DetachRosThread ==
  /\ At("join", "destroy")
  /\ nodes' = FALSE
  /\ UNCHANGED <<host, state, shutdown_requested_, ros, spinning, promised, requester,
                 bridge_, failed, runs>>

JoinRosThread ==
  /\ ros = "ended"
  /\ At("join", "destroy")
  /\ ros' = "none"
  /\ nodes' = FALSE
  /\ UNCHANGED <<host, state, shutdown_requested_, spinning, promised, requester,
                 bridge_, failed, runs>>

DestroyBridge ==
  /\ At("destroy", "clear")
  /\ bridge_' = FALSE
  /\ UNCHANGED <<host, state, shutdown_requested_, ros, spinning, promised,
                 requester, nodes, failed, runs>>

\* Registry, queues and arenas are cleared; the mod may create a bridge again.
FinishShutdown ==
  /\ owner = "clear"
  /\ owner' = IF host = "jni" /\ runs < MaxRuns THEN "start" ELSE "ended"
  /\ state' = "uninitialized"
  /\ UNCHANGED <<host, shutdown_requested_, ros, spinning, promised, requester,
                 resources, failed, runs>>

Own ==
  \/ ResetRequest \/ InitBridge \/ InitROS \/ Initialized
  \/ Loop \/ TickApp \/ TestPredicate \/ Block
  \/ ExchangeState \/ SetRequested \/ CancelExecutor \/ SetPromise
  \/ JoinRosThread \/ DestroyBridge \/ FinishShutdown

-------------------------------------------------------------------------------
(***************************************************************************)
(* The ROS thread: spin_until_future_complete.                             *)
(***************************************************************************)
RosAt(step, next) == ros = step /\ ros' = next

BeginSpin ==
  /\ RosAt("starting", IF promised THEN "ended" ELSE "spinning")
  /\ spinning' = ~promised
  /\ UNCHANGED <<host, state, shutdown_requested_, owner, promised, requester,
                 resources, failed, runs>>

BeginCallback ==
  /\ RosAt("spinning", "callback")
  /\ spinning /\ ~promised
  /\ UNCHANGED <<host, state, shutdown_requested_, owner, spinning, promised,
                 requester, resources, failed, runs>>

EndCallback ==
  /\ RosAt("callback", "spinning")
  /\ UNCHANGED <<host, state, shutdown_requested_, owner, spinning, promised,
                 requester, resources, failed, runs>>

CallbackThrows ==
  /\ RosAt("callback", "request")
  /\ spinning' = FALSE
  /\ failed' = TRUE
  /\ UNCHANGED <<host, state, shutdown_requested_, owner, promised, requester,
                 resources, runs>>

EndSpin ==
  /\ RosAt("spinning", "ended")
  /\ promised \/ ~spinning
  /\ spinning' = FALSE
  /\ UNCHANGED <<host, state, shutdown_requested_, owner, promised, requester,
                 resources, failed, runs>>

RosRequests ==
  /\ RosAt("request", "notify")
  /\ shutdown_requested_' = TRUE
  /\ UNCHANGED <<host, state, owner, spinning, promised, requester, resources, failed, runs>>

RosNotifies ==
  /\ RosAt("notify", "ended")
  /\ owner' = AfterNotify(owner)
  /\ UNCHANGED <<host, state, shutdown_requested_, spinning, promised, requester,
                 resources, failed, runs>>

RosThread ==
  \/ BeginSpin \/ BeginCallback \/ EndCallback \/ CallbackThrows
  \/ EndSpin \/ RosRequests \/ RosNotifies

-------------------------------------------------------------------------------
(***************************************************************************)
(* Any other thread: a signal handler, a test, an embedding program.       *)
(***************************************************************************)
StoreRequest ==
  /\ requester = "idle"
  /\ requester' = "notify"
  /\ shutdown_requested_' = TRUE
  /\ UNCHANGED <<host, state, owner, ros, spinning, promised, resources, failed, runs>>

NotifyAll ==
  /\ requester = "notify"
  /\ requester' = "idle"
  /\ owner' = AfterNotify(owner)
  /\ UNCHANGED <<host, state, shutdown_requested_, ros, spinning, promised,
                 resources, failed, runs>>

AppNext == Own \/ RosThread \/ StoreRequest \/ NotifyAll

AppSpec == AppInit /\ [][AppNext]_appVars

\* The threads keep running, the ROS thread also out of an endless stream of
\* callbacks; a shutdown need not be requested, nor a callback throw.
RosProgress == BeginSpin \/ EndCallback \/ EndSpin \/ RosRequests \/ RosNotifies

AppFairness ==
  /\ WF_appVars(Own)
  /\ WF_appVars(RosProgress)
  /\ WF_appVars(NotifyAll)

AppFairSpec == AppSpec /\ AppFairness

-------------------------------------------------------------------------------
\* A ROS callback has its nodes, the executor and the bridge's queues around
\* it for as long as it runs, from the thread's start to its join, in every
\* run of the App (InitROS, CleanUpROS before Destroy, Shutdown).
CallbacksHaveResources == ros \in {"callback", "request", "notify"} => nodes /\ bridge_

\* Nothing of a run survives it: uninitialised means no ROS thread, nodes or
\* bridge, so that the next Init starts afresh (Shutdown, Init).
ShutdownIsComplete ==
  state = "uninitialized" /\ owner \in {"start", "ended"} =>
    ros = "none" /\ ~nodes /\ ~bridge_

\* The tick loop ends the App once its shutdown is requested, whatever the ROS
\* thread is doing when it is to be joined, and when the ROS thread has died of
\* an exception; for every host a shutdown that began completes: the join cannot
\* miss the end of a thread that was not yet, or no longer, spinning (Run,
\* SpinROS, Shutdown, CleanUpROS).
AppSettled ==
  (host = "run" /\ (shutdown_requested_ \/ failed)) \/ state = "shuttingDown" =>
    state = "uninitialized"

\* RequestShutdown "wakes any thread waiting in WaitForShutdown()".
RequestWakesWaiter == shutdown_requested_ ~> owner \notin Waiting

\* The runs of one App do not mix.
RunsAreSeparate == AppTypeOK /\ CallbacksHaveResources /\ ShutdownIsComplete

===============================================================================
