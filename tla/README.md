# Verification of roscraft

TLA+ models of [roscraft](../src/README.md), a bridge between Minecraft and ROS 2, with
TLC configurations that check them on small instances and TLAPS proofs about the way of a command from its
packet to the answer, the nodes that relay topics, call services, send goals and serve parameters, the statistics of topics, the cache of the
graph, the life of clients and of the App, the lock-free allocators, and the requests of the mod. The modules follow the C++ code of `src/roscraft_ws/bridge` and
`src/roscraft_ws/core`, and the Java code of the mod where it keeps track of requests; `PROJECT.json` gives, for every
definition, the lines it stands for, for every property a mutation of the code that breaks it, and
for every hazard the properties that watch it. In this text `bridge/…` stands for
`src/roscraft_ws/bridge/…`, `nodes/…` for `bridge/common/src/nodes/…` and `mod/…` for the Java
packages under `src/mc_mod/src/main/java/net/roscraft/mod/`.

Contents: 1 the system, 2 the modules, 3 the runs, 4 bounds and fairness, 5 the proofs,
6 disagreements found, 7 what is not modelled, 8 the plan.

## 1. The system

A Minecraft mod (Java) wants to look at topics, publish, call services, send goals, read parameters.
It talks to a *bridge* (C++) that hosts ROS 2 nodes. The bridge lives either in a process of its own and
is reached over UDP (`bridge/network`), or in the process of the game and is reached through JNI
(`bridge/jni`). Both wrap the same `App` (`bridge/common`).

```
 clients --UDP--> receive coroutine ---> incoming queues ---> drain timers of the nodes
                  (io thread)            one per command       (ROS thread: one executor)
                                         type, FIFO per token        |
 clients <--UDP-- tick thread <-------- outgoing queues <------------+
                  prune, send, advance frames
```

Four threads of control matter: the **io thread** runs the receive coroutine and enqueues; the **ROS
thread** runs all callbacks of all nodes, one at a time (`App::SpinROS` uses
`spin_until_future_complete`, which runs on the calling thread); the **tick thread** prunes clients,
sends what the nodes enqueued and advances the frames of the frame allocator; **any thread**, a signal
handler included, may request the shutdown. In the game everything happens on the **thread of the server**: its tick takes what the bridge
brings, to addons and to the `/ros` commands that asked, and then lets old requests time out.

### 1.1 Inventory

| Component | State | Operations | What is hard | What makes it correct |
|---|---|---|---|---|
| Topic relay node (`nodes/ros/topic/relay.cpp`) | subscriptions per topic with their requests, index id→topic, timeout timers, publishers, introspection cache, publish timers | drain of three queues, topic message, timeout, publish timer | one ROS subscription serves many requests that end in four ways; queues drained one after the other; counts that mean "endless" at zero | no subscription or timer outlives its request, a one-shot request has one outcome, a stream publishes what was asked |
| Network bridge (`bridge/network/src/bridge.cpp`) | clients, time each was last seen, status | receive, add, prune, send, init, destroy | check and insertion are two critical sections; the pruning looks again after it gave the lock up; destruction against a datagram in flight | registry and times agree, one client where one is allowed, nobody's sessions outlive them |
| App (`bridge/common/src/app/app.cpp`) | state, shutdown request, ROS thread, executor, promise, resources | init, tick, wait, request, shutdown | `cancel()` before the spin begins; a request between predicate and wait; an exception in a callback; the mod starts it again and again | callbacks only while their nodes exist, a shutdown ends and leaves nothing to the next run |
| Frame allocator, arenas (`core/memory`) | current frame, blocks | allocate, advance, reset, grow | commands wait in queues across resets; growing while others allocate | a queued command is still what was enqueued; no memory is given twice |
| Command queues (`command/queue.hpp`) | one storage per type, tokens | enqueue, three ways to dequeue, clear | order only within one producer token | FIFO per producer, nothing lost or duplicated |
| Command handlers and registry (`command/handler*.hpp`) | handler of each type, tokens | dispatch, decode, enqueue, drain and flush | answers produced while no client is there; types no node serves; clearing between runs | a packet becomes one command, an answer one packet, nothing crosses runs |
| Service call node (`nodes/ros/service/call.cpp`) | clients, repeat timers, pending futures | poll, call (two waits), repeat | waits inside a callback on the executor that delivers the answer | an answer in time reaches its call, a series makes the calls asked for |
| Action goal node (`nodes/ros/action/send_goal.cpp`) | generic clients, sessions, result futures, timeout timers | dispatch, response, feedback, poll of results, timeout | the same wait; timer before session, session before or after feedback; an id that is used again | a goal has one outcome and no word after it |
| Topic statistics node (`nodes/ros/topic/stats.cpp`) | sessions with windows, by mode and topic | start, take over, message, report, stop in three ways | a session changes owner and kind; windows trimmed in time and number | a report counts its own window, none comes after the end |
| Parameter nodes (`nodes/ros/param/*.cpp`) | clients of parameter services | get, set, list, describe, dump, load | the other node leaves, refuses, answers late or never | one answer per command; success is told only of what is set |
| Graph cache (`nodes/ros/graph/cache.cpp`) | two buffers, pending flag, one-shot timer, watcher thread | refresh, publish, answer, watch | a timer that cancels whatever the member holds by then | answers are no older than their query; no pending refresh is lost |
| Info, list and show nodes (`nodes/ros/*/info.cpp`, `interface/*.cpp`, `details/graph_utils.cpp`) | none that lasts | one query, several reads of the graph | the graph changes between the reads; names with hidden parts | answers tell of the graph while they were put together; what is listed is found |
| Introspection codec (`details/introspection_codec.cpp`) | none | text to CDR, CDR to YAML and JSON | escapes, bounds of arrays, ranges of integers | what is shown can be published again as the same message |
| Pool, stack, free list (`core/memory`) | chains of blocks, free lists, counters | allocate, deallocate, grow, rewind | races between compare-and-swaps; headers, padding, coalescing | memory has one owner; what is free is counted and joined |
| Shared handles (`core/memory/ref_counted.hpp`) | count in the object, allocator in the handle | make, copy, move, assign, reset | a source that lives in the object that dies | an object lives as long as its owners, and goes back where it came from |
| Containers (`core/container`) | vectors of bytes and of places | insert, erase, grow, relocate | a growth that fails half way; objects of any type in bytes | they hold what a map, a sequence, a string would |
| Addon event node (`nodes/addon/event.cpp`) | publisher, subscription | event both ways | memory of its commands | events reach the other side as they were |
| JNI bridge (`bridge/jni`) | the one bridge of the process, callback reference | create, destroy, tick, send, register | the process creates and destroys it again and again | no call on a destroyed bridge |
| Bridge manager of the mod (`mod/bridge`) | current bridge, configuration | connect, disconnect, reconfigure, tick | a reconnection that fails; requests under way at a disconnect | what commands started is stopped before the bridge closes |
| Ownership of requests (`mod/command/request`, `mod/addon/RequestRouter`) | ids with owner and age | register, complete, expire | late answers, answers over the next connection, two tables for one counter of ids | an event reaches the one who asked; a question has one outcome |
| Addons and events of the mod | subscriptions per addon | subscribe, dispatch, unload | callbacks that change the list | nothing reaches an unloaded addon |
| Core utilities, assertions, mod commands, packet encoding, Turtlebot addon, examples | | | parsing, formatting, diagnostics, demonstration | |

### 1.2 How components interact

* Datagrams become commands in **typed queues** (PacketDispatch, CommandQueue); a node empties the queue
  of each type in turn, so the order *between* types is lost (TopicRelay, finding 1).
* The **pruning** of clients enqueues "stop all" commands with a producer token of its own
  (`NetworkBridge::PruneInactiveClients`); FIFO holds per token only (NetworkClients' `stop_all`,
  TopicStats' `stats_stop_all`, TopicRelay's two unsubscribe sources).
* Commands own strings in the memory of a **frame** or on the heap; the tick thread resets frames under
  all queues (FrameArena; ArenaAlloc is what a frame is made of).
* Nodes share the **one executor thread**: a callback that waits stops all of them (ServiceCall,
  ActionGoal, ParamNodes), and one that throws ends the thread and then the bridge (AppLifecycle; QueryNodes
  and GraphCache have the callbacks that throw).
* **Answers** go to every client, in the order of the handlers, and wait while there is none (PacketDispatch).
* In the game, **addons and commands share one counter of ids** and one stream of events, which goes to the addons and then to the commands;
  ids live on when bridge and world go (ModRequests).
* `App::Shutdown` stops the ROS thread, then destroys the bridge, then clears registry and queues
  (AppLifecycle has the whole order, NetworkClients the bridge's half of it, PacketDispatch what it does to
  commands).

## 2. The modules

| Module | Models |
|---|---|
| `TopicRelay` | `TopicRelayNode`, all callbacks, and the enqueuing of its commands |
| `EchoService` | abstract: what a client may expect of an echo; implemented by TopicRelay |
| `NetworkClients` | `NetworkBridge` clients, pruning, destruction, and the sessions it stops |
| `AppLifecycle` | `App`, `network::Run`, the ROS thread, shutdown requests |
| `FrameArena` | `DoubleFrameAllocator` under receive, ROS and tick thread |
| `CommandStorage`, `CommandQueue` | `TypedCommandStorage`; the queue of queues with its tokens |
| `PacketDispatch` | registry, handlers, `DrainAndFlush`, clearing between runs; its queues are CommandStorages |
| `ServiceCall` | `ServiceCallNode` and the executor threads it needs |
| `ActionGoal`, `GoalService` | `ActionSendGoalNode`; abstract: what a client may expect of a goal |
| `TopicStats` | `TopicStatsNode` |
| `ParamNodes`, `ParamYaml` | the six parameter nodes; which parameters of a file a node gets |
| `GraphCache` | `GraphCacheNode` with its watcher thread |
| `QueryNodes` | the info nodes, interface list and show, and the helpers of `graph_utils.cpp` they use |
| `IntrospectionCodec` | text to message, message to YAML and JSON, the delay stamp |
| `ArenaAlloc`, `PoolAllocator`, `StackAllocator` | the lock-free allocators, atomic by atomic |
| `Counting` | sums as cardinalities, for the statistics of arena and stack |
| `FreeListAllocator` | the allocator under a mutex, one call a step |
| `RefCounted` | `AtomicRefCounted`, `ArcFromThis` (and their plain twins) |
| `SparseSet`, `TypedBufferArray`, `StaticString`, `InlineCallableBuffer` | the containers, each against a reference of its content |
| `HandlerMap` | `TypedBuffer`, `MultiTypeMap` and the registry that keeps its handlers in them |
| `ModRequests` | the mod: `BridgeManager`, `CommandRequestTracker`, `RequestRouter`, `TrackedBridge`, handles of `AddonContext`, worlds |
| `TopicRelayProofs`, `ServiceCallProofs`, `ActionGoalProofs`, `ModRequestsProofs` | proofs about the module of that name |
| `MemoryProofs` | proofs about ArenaAlloc, PoolAllocator, StackAllocator and FreeListAllocator |
| `CoreProofs` | proofs about RefCounted, SparseSet and InlineCallableBuffer |
| `BridgeProofs` | proofs about NetworkClients and AppLifecycle, and about the way of commands: PacketDispatch, CommandQueue and FrameArena |
| `ObserverProofs` | proofs about TopicStats, GraphCache, ParamNodes and QueryNodes |
| `MCTopicRelay` | TopicRelay on a small instance |
| `MCSystem` | the parts of the running bridge and the mod, one in focus at a time; extends the modules that have proofs |
| `MCNodes`, `MCTexts` | the nodes that answer questions, and the texts they are given; extends TopicStats, GraphCache and ParamNodes |
| `MCCore` | the core library; extends the allocators, references and queues, which have proofs |

Definitions that begin "Mutant:" in their comment are mutated forms of the definition that follows
them; nothing in the specifications uses them. A plausible bug replaces the definition by its mutant, and
the property named in `PROJECT.json` is then violated.

### TopicRelay

`subscriptions`, `once_topics`, `timeout_timers`, `publishers`, `publish_timers` are the members of the
class with the trailing underscore dropped. `subscriptions[t]` keeps the requests of a topic as a set: the code
keeps a vector with at most one request of an id. The ids in `once_topics` are *all* requests, not only one-shot
ones, as in the code (`relay.cpp:197`).

All callbacks of the node belong to its default mutually exclusive callback group, so a callback is
one action, except the drain-timer callback: its three loops run while the receive thread enqueues, so the
position in it is the variable `phase`, and each command is one step. A subscribe, message, timeout,
unsubscribe, publish or publish tick is one action that makes every change its handler makes,
errors included. What the ROS system decides (the type the graph knows, whether a subscription or publisher
can be created, whether serialisation or publishing throws, whether introspection loads) is a
bounded quantifier in the action. The failure of an introspection is cached, as in
`EnsureMessageIntrospection`.

Unsubscribing from everything is a range-for over a map that erases from the map. That is undefined: the
model lets any non-empty set of topics go and the process survive or not (`crashed`). The handler of a timeout formats
the topic out of the index entry that it has just erased (`relay.cpp:211-219`); after that, too, the process survives or not.

`sent`, `wanted`, `payloads`, `errors`, `streams` are history: what clients asked for and what was
enqueued for them. Contents of messages, error texts, normalisation of names and conversion of YAML are left
out.

`EchoService` is the client's view: requests that open once, get the messages of their topic and end by
their first message, their deadline or an unsubscribe. Under the mapping at the end of TopicRelay
(`live` from all subscriptions, `used` from the ids that have left the queue) the relay implements it if ids
are fresh: whatever path takes a request out, through the index, a timer or the vector of its topic,
it takes out that request and nothing else.

### NetworkClients

`rx` is where the receive coroutine is (`receive`, `look` under the shared lock, `add` under the
exclusive lock, `handle`), for which endpoint, and how old its time stamp is. `tick` is where the main thread is:
pruning, counting again, the two stop-all commands, sending; after a request to shut down, cleaning up ROS and
destroying the bridge. Each critical section of the registry's mutex and each queue operation is a step.
Both modes (`--allow-multiple-connections`) are initial values of `multi_client`. Time is relative: every
time stamp is the age of what was seen, so the state space is finite without a clock. A stop-all competes
with the session commands of clients that have just connected.

### FrameArena

A command is its kind, the memory that holds it (a frame or the heap) and whether that memory still holds it.
`QueueResource` is the table of which memory each kind is built in, read off the handlers and nodes.
`Advance` resets the frame that becomes current and so takes `intact` from what lives there.

### ArenaAlloc

FrameArena treats an arena as a place that a reset empties; ArenaAlloc is what happens in between. `pc[t]` is where
thread `t` is in `do_allocate` and the functions it calls, `request`, `block`, `observed` and `value` are its
locals, the other variables the members of the class. Each access to an atomic that others can see is a step: the
compare-and-swap of an offset, of `grow_state_`, of `head_`, the counting of a block, the statistics, the
peak. A load that precedes a compare-and-swap of the same variable is part of the step before it,
since a value that is out of date by then only makes the swap fail. Sizes count units of `kMinAlignment`;
`Bases` are the addresses of buffers modulo the largest alignment, so that padding depends on where a block
happens to lie. The loops of `NextCapacity` are the least element of what they run through. `PmrFailFast`
ends everything (`failure`). `ranges` is history: who was given what since the last reset. Moved-from arenas, the
count of deallocations and an allocation of nothing are left out; `Reset` runs, as its warning demands,
only while nobody allocates.

### AppLifecycle

`owner` is the thread that owns the App (the loop of `network::Run`, `WaitForShutdown`, or the mod
that ticks until it closes and may create the bridge again), `ros` the ROS thread, `requester` another thread
in the middle of `RequestShutdown`. `spinning` is the flag of the executor that `cancel()` clears and `spin…` sets,
`promised` the promise that `CleanUpROS` sets because the cancellation of a thread that has not
begun to spin is forgotten. A notification reaches only a waiter that is already blocked.

### CommandStorage, CommandQueue, PacketDispatch

A storage is a function from producers to sequences. What may be taken from it is a set of outcomes, because
the queue keeps the order of each token and none between tokens; every module that dequeues chooses among
them. `CommandQueue` has every operation and a log that says what each producer enqueued and where it went.
`PacketDispatch` composes two such queues with the registry: a packet of a type with a handler becomes a command,
`NodePoll` turns the commands of the types that nodes serve into answers, `BeginFlush` and `DrainAndFlush` are
the tick, one handler after the other, and `Shutdown` clears both queues and the registry before the host may
start again. A type in `Requests` that is not in `Served` (players) waits until the shutdown; answers wait
while nobody is connected.

### ServiceCall and ActionGoal

In ServiceCall `call` is the invocation under way: it waits for the service, then for the response, inside
the callback of the poll timer or of a repeat timer, and so keeps an executor thread. The response (`answered`, from
the service; `ready`, set by a thread that is free) is a callback of another group. `executor_threads` is the size of the
executor, chosen by Init: one in `App::SpinROS`, several in the repository's tests. `OtherNodes` keep threads too. `account` is
the history of a series: calls asked for and made.

In ActionGoal `poll` is where the poll callback is: dispatching, waiting for the server or for the response to
`send_goal`, looking at the result futures. `goals` is the view of the action servers, which may accept,
feed, finish or ignore a goal whether or not the node still waits for it. A session is entered after the
acceptance, while its timer exists before (`send_goal.cpp:582`); `superseded` and `abandoned` record what became
of goals whose id was taken by another and of goals given up while the server may still take them.
Callbacks of `action_group_` run between polls or during a wait. `GoalService` is the client's view:
a goal asked for ends with one result, feedback comes only before that, and it is dropped only for a later
goal of its id. Unlike ServiceCall, with the one thread of App no response is ever awaited successfully: every goal ends
in its response timeout, which the two properties allow.

### TopicStats

A session belongs to a mode and a topic; `Start` creates one, lets a later command take it over (`Restart`) or
refuses one of another type; a window of zero stops. `HandleMessage` adds a sample and trims, `ReportStats`
reports what can be reported. `received` and `ended` are history: the messages since the request that owns the session, and
the requests that must be silent. Rates are left out: a report is the set of samples it is computed from.

### ParamNodes and ParamYaml

`executor` is the callback under way, of whichever node: its call waits for the services of the other node,
which comes and goes (`services_up`), declares parameters, refuses, and may carry out a request after its client gave up
(`late`). `ParamYaml` is the function from a parsed file and the names of a node to the parameters it gets:
wildcards first, then its own section, later ones over earlier ones; `Parse` treats dotted keys and nested
mappings alike.

### GraphCache and QueryNodes

What is in the graph is the number of changes before. The watcher thread creates a one-shot timer after a change and
replaces the member `refresh_post_timer_`, while the executor runs the timer of an earlier change, whose
callback cancels whatever the member holds (`cache.cpp:223`). QueryNodes reads the graph as often as the code
does, with changes in between: a node that left between the list of nodes and its query is an exception
(`topic/info.cpp:60`), which ends the ROS thread. Names are sequences of pieces, so that prefixes, suffixes and
hidden parts are cut where the code cuts them.

### IntrospectionCodec

A message is a function of its fields, an array a sequence, a text a tree of YAML values.
`Assign…` reads texts into messages, `Append…` writes messages as JSON, and the text that YAML makes of that is read
again; the stamp of a header is found by the layout of the types before it. Integer widths and the precision of a double are scaled down, so that the bound
of a 64-bit type is no double here either; what a cast beyond the range gives is chosen in Init, once per
behaviour.

### The allocators and shared handles

`PoolAllocator`: each thread's position is in `call`, the links of free blocks in `link`; the load of the head, the
load of its successor and the swap are steps of their own. `StackAllocator` does the same for the offset of its
newest block; `marker` and `rewound` are for its rewinding, which calls for quiet, as do deallocations
unless `Unsynchronized`. In both, who grows reads how much there is and claims the growth (`grow_state_`) in two steps, so that the new chunk may be
sized from an old total or an old head. `FreeListAllocator` keeps regions, free blocks in address order, headers and padding in units of
four bytes. `RefCounted` queues in `todo` what a call does (increment, decrement, destroy, deallocate), so that another thread
may come between; handles carry the allocator that frees, and `Propagates`, `Selected` and `DefaultAllocator` are the traits of its type: those of `std::allocator`, or
of `std::pmr::polymorphic_allocator`. With `FromMember` a handle may be assigned from a place inside the object that it alone keeps.

### The containers

Each keeps the code's fields and beside them what it should hold: `content` (a map), `elements` (a sequence), `string`.
Insertions move elements one by one, in the code's direction; growths may fail, in `SparseSet` that of each of its three vectors by itself, which leaves
the others as they are by then. `InlineCallableBuffer` keeps bytes, headers and the addresses where callables with a destructor believe to live; `torn` is history: whose
bytes `Reserve` or `ReserveBytes` moved although they are not trivial.

`HandlerMap` has three layers: a buffer keeps one object in the memory of a vector (a block of `heap`), a map keeps a
buffer per type in a flat map, and the registry its handlers in a map. Entries of a flat map move when another
comes or goes; a move takes the block along, so `told` expects every object where it was made. `IsRegistry` chooses
between the calls of a registry (three types, none of which can be copied) and all that a map and its buffers offer to
a caller with a buffer of his own and a second map. `Clear` of a map is left out: `TypedBuffer` has no operation it would call.

### ModRequests

The one module about Java. `pending`, `oneShotOwners`, `persistentOwners`, `addons`, `bridge` and `server` are the fields of that name;
`bridge` is the number of its connection (0 for null). A request is a member of `requests` with the id it was sent under, so that the
model can tell two requests of one id apart if the ids were not unique. `sessions` is what runs on the other side: echoes and
statistics, with what unsubscribing and a window of zero end there (TopicRelay and TopicStats have the details). Events are
a *part* (a message, a report, feedback), an *answer* or an *error*; the other side sends them late, twice, never, in any order, and over a
network bridge also those of an earlier connection.

`Deliver` is one event through `ModBridgeCallback.onEvent`: the router takes the owner out if it was one-shot, then the handlers
of the commands complete their entry or leave it. `EndTick` is `processTimeouts`; an entry is `old` once its five seconds are over. All calls come from the
server's thread, so commands and changes of the connection fall between ticks; addons may ask, and close their handles, inside one, when they are
called with an event. `SetConfiguration` is the four setters: what is connected is
disconnected with the hook (`stopRunningSessions`) and connected anew, or not at all. `ServerStopping` unloads the addons,
and no other world of the process loads them again. `told` is history: who heard what.

## 3. The runs

The five runs that pass take about eight minutes together. A composite (`MCSystem`, `MCNodes`, `MCCore`) has a variable `focus`
that Init chooses from the constant `Foci`: the part in focus runs, the others stay as they began. That is a
disjoint union of state spaces, not an interleaving: parts that share state in the code are composed in one
module (queues with handlers, clients with sessions, frames with threads), and the composites only share
configuration. The modules that theorems are about are extended (`MCCore`: ArenaAlloc, PoolAllocator, StackAllocator, FreeListAllocator, RefCounted, CommandQueue, SparseSet and InlineCallableBuffer; `MCSystem`: ModRequests,
NetworkClients, AppLifecycle, FrameArena, PacketDispatch, ServiceCall, ActionGoal; `MCNodes`: TopicStats, GraphCache, ParamNodes, QueryNodes), so that run and theorem speak of the same definition;
the others are named instances, `INSTANCE … WITH`.

| Run | Foci and instances | Shows |
|---|---|---|
| `MCRelay` | `echo`: 2 topics, 2 types, 3 ids, subscribes that share topics, conflict in type, mix one-shot, timed and lasting; `streams`: publishes that repeat, are endless, as fast as possible, or wrong | `TypeOK`, `NoIdleSubscription`, `NoOrphanTimer`, `IndexAgrees`, `OnceHasOneOutcome`, `SilentAfterTimeout`, `StreamHasPublisher`, `StreamBudget`, and `EchoServiceSpec`: the relay implements the abstract service |
| `MCSystem` | clients, frames, app, packets, goals, services, mod | `ClientsConsistent`, `DestroyedClean`, `FramesConsistent` (one kind on the heap, one in a frame, in each direction), `RunsAreSeparate`, `PacketsAccounted`, `GoalsConsistent`, `AnswersReachCalls` (of an executor with three threads and of App's, with one), `CallsAccounted`, `ModConsistent`, and `GoalServiceSpec`: the action node implements the abstract service |
| `MCSystemEnds` | fair clients, relay, arena, app, packets, fair goals, services, mod, with fairness | `SilentClientsStop`; `EverythingSettles`: streams, echoes, allocations, shutdowns, answers, goals, calls and the questions of players come to their end, again and again |
| `MCNodes` | stats, params, fair params, yaml, cache, codec, queries | `StatsTell`, `ParamAnswersTell`, `OwnParametersWin`, `SnapshotsServe`, `CodecAgrees` (`ShownPublishesSame`, `PublishedFits`, `StampIsRead`), `QueriesTell`, and `NodesSettle` under fairness |
| `MCCore` | arena, pool, growing pool, stack, free list, references, linked references, set, array, string, handlers, map, callables, queue | `TypeOK`, `NoOverlap`, `SingleGrower`, `ArenaAccounts` of the arena; `BlocksAccounted` (with `HeldIsNotFree`), `StackAllocations`, `FreeListAllocations`, `SharedObjectsLive`, `SetSurvives` of the sparse set (every growth may fail), `ContainersTell` of the others, `CallablesSurvive` (Reserve of a filled buffer included), `ProducerOrder` |
| `MCRelayOrder` | relay, one topic | **violated** `LastCommandStands`: finding 1 |
| `MCArenaQueued` | frames, with addon events and responses | **violated** `QueuedIntact`: finding 2 |
| `MCArenaAbort` | arena that can grow | **violated** `NeverExhausted`: finding 3 |
| `MCAppWait` | app | **violated** `RequestWakesWaiter`: finding 4 |
| `MCPoolShared` | a pool with two threads that allocate and free | **violated** `HeldIsNotFree`: finding 5 |
| `MCHandlesForeign` | references, with the traits of `std::pmr::polymorphic_allocator` | **violated** `FreedByMaker`: finding 6 |
| `MCSetGrowth` | set | **violated** `SetIsMap`: finding 7 |

A property of a composite is the conjunction of the named invariants of one module (for instance `CallsAccounted` is `CallsTypeOK /\
RepeatBudget /\ NoPendingLeak` of ServiceCall); the conjuncts are commented where they are defined.

`ModConsistent` is `TypeOK /\ OwnersAreApart /\ RequestsReachOwners /\ SessionsAreStopped`: no id has two owners; nobody hears of another's request, a player
who asked is told one outcome, an addon hears all it holds a handle for; what a command started and named ends with its connection.

`CHECK_DEADLOCK FALSE` stands where the system may stop: the relay once its process died or the bounded
history is used up, the bridge, the App, the calls, the nodes, the mod once all is done, the core once the bounded work is
used up.

## 4. Bounds and fairness

**TopicRelay.** `MaxQueue` bounds each incoming queue, `MaxPayloads` the payloads counted per id: a
message is taken only while no receiver is at the bound. Two of each (one for the streams) are enough: the properties
speak of a request and *one* later event (its second payload, a timeout, a later command), and two queued commands
per type are what is needed for orders across queues to differ. Three ids give two requests on one topic and one
elsewhere. With `IdReuse = FALSE` every subscribe carries a fresh id, which is how the mod numbers them; the
proofs of `NoIdleSubscription` and `NoOrphanTimer` need no such assumption.
*Fairness*: the executor serves timers that are due, so the drain is weakly fair; a timeout or the tick
of a finite stream is enabled only between callbacks, again and again, so it is strongly fair. An endless
stream gets none. Nothing obliges clients to send, topics to have messages, or ROS calls to succeed. The drain loops have
no bound in the code: `EverythingSettles` assumes of the relay that its drains end and that publish commands stop coming,
because with a client that keeps a queue filled it is false.

**NetworkClients.** `InactivityTimeout = 1` stands for the 30 s of inactivity, ages saturate at 2. `HandleTime` (1, and 0 for
liveness) says that a datagram takes no longer from receipt to queue than a client's silence may last; a drain
callback takes less than one unit. The code guarantees neither, but both differ from the constants it uses
by orders of magnitude. `SessionKinds = {"echo"}`: the two kinds of sessions are handled alike and
separately; the stop-all of the other is still a step of the tick, and TopicStats has the rest of it. *Fairness*: both
threads run on, time passes (strongly: it waits for no callback to be running), the drains are served.

**FrameArena.** Two frames as in App, two commands per queue: one that was enqueued before the last
reset and one after it. Of the kinds of each direction one is built on the heap and one in a frame: commands and
addon events come in, payloads and responses go out.

**AppLifecycle, PacketDispatch.** `MaxRuns`, `MaxLives = 2`: a first run, and one that finds what the first left.
Two packets of two producers and two changes of the connections give a packet and an answer on either side of every
event. *Fairness*: the threads run on, the node that serves a type polls. A callback need not begin, nor throw,
and nobody need request a shutdown or connect.

**ServiceCall.** `CallTimeout = 2`: an answer may come early, late or never. `MaxCalls = 3`: a series, a
command that replaces it, and one more for another id. A thread that is free takes a response within one unit of
time. Executors of one thread and of three. *Fairness*: the waits end (those of other
nodes have timeouts, too: `send_goal.cpp:423`, `548`), a free thread delivers, time passes, both timers are served.

**ActionGoal.** Two commands of four, over two ids, two actions and two types: a second goal of the same id or the same
action, with the same or another type, or one whose text does not parse. Ids of the servers' goals are unique. *Fairness*: the poll goes on (its waits are bounded), and
a timeout that is due fires, strongly, as it needs a moment without another callback. A goal without timeout
ends with the server, which owes nothing, so `GoalsSettled` speaks of those with one.

**TopicStats.** Three requests and three messages at two times: two windows and one message that leaves them.
**ParamNodes.** Two of eight tasks: each kind before and after each other kind. **ParamYaml.** The files of `MCTexts`, whole:
sections by name, by alternative name and wildcards, nested, dotted, and twice. **GraphCache.** Two changes, one query,
two one-shot timers: the second is made while the first fires. **QueryNodes.** A graph that is empty or has five endpoints
of two nodes, one change of it, two queries. **IntrospectionCodec.** Texts and messages of `MCTexts`, which reach each branch of each type.
*Fairness*: the executor and the watcher go on, timers are served.

**ModRequests.** Two requests of a player and an addon for one topic, two connections, two events of each request, two worlds: every event of
the first request may come before or after the second, over the same or the other connection, in the first or the second world. Kinds stand for classes
with the same path: one query for all that have one answer, one statistics session for hz, bw and delay. The instance for liveness has one player and one connection. *Fairness*: the server ticks, and
time passes; both are the game's own loop. Nothing obliges the other side to answer.

**Allocators.** Arena: two threads, three allocations of two units from a first block of three, so that the second finds the
block full and the third may fill the new one before the thread that made it returns; three growth policies, two alignments
(for liveness linear growth and one). Pool: two blocks that grow to four, of which one thread takes and the other gives back, and one block that grows by doubling,
with two threads that only take. A pool in which both do both is finding 5. Stack: up to nine units. Free list: four allocations of three
sizes and alignments in a first region of 30 units and a second one that the growth policy chooses, before or after it. *Fairness*: each thread runs on.

**Handles and containers.** Three handles of one object, and two of two objects of which one has a handle of the other, as a list
has; three indices and three places (`MaxDense`, one for each index or for a value that a failed growth left behind); arrays of three; maps of two types with three blocks of memory between map, caller and another map, and a registry of
three handlers; strings of four characters; three callables; three commands of two types
and two producers. Each covers a first, a last and a middle element, and one beyond the capacity.


## 5. The proofs

`TopicRelayProofs` proves for all topics, types, QoS profiles, ids and commands, with colliding ids
and an unsurvived unsubscribe included, from `RelayAssumption` only:

* `TypeCorrect`: `Spec => []TypeOK`. `TypeOK` is inductive. It is more than typing for `remaining \in Nat`: the
  countdown of a publish timer never goes below zero. One lemma per handler (`SubscribeType`, `PublishType`,
  `PublishTimerType`, …), one step per action in `TypeStep`.
* `EchoSafety`: `Spec => [](NoIdleSubscription /\ NoOrphanTimer)`. The conjunction `EchoSafe` is inductive
  relative to `TypeOK`. `EchoSteps` shows that a step changes the echo state in one of three ways (a registration, the
  removal of ids from a topic, the removal of topics); `EchoSafeStep` treats each. That a removal
  erases index and timer *together* (`ForgetIds`) is what makes it independent of fresh ids.
* `StreamSafety`: `Spec => [](StreamHasPublisher /\ StreamBudget)`. The conjunction `StreamsSafe` is inductive relative to
  `TypeOK`. `PublisherKept` says that no step changes a publisher that exists, which keeps every other
  stream valid; `RunStreamSafe` and `PublishTimerSafe` do the arithmetic of starting and continuing a
  stream, `OtherStreams` covers the ids that a step does not name.

With `~IdReuse` as hypothesis (a subscribe carries an id that none before it had, as those of the mod do: `nextRequestId` of ModRequests),
it proves further:

* `IndexSafety`, `OnceSafety`: `Spec => []IndexAgrees`, `Spec => []OnceHasOneOutcome`; `SilenceSafety`:
  `Spec => SilentAfterTimeout`, an action property. The inductive invariant is `FreshInv`: ids of commands sent are distinct (`UniqueIds`), nothing is known of
  an id before its command is handled (`UntouchedBefore`), what is registered was sent so (`RegisteredAsSent`), a request that was told of its end has
  ended (`EndedIsGone`). `StepKinds` sorts the steps by what they do to the echoes (send, accept, reject, message, timeout,
  close, nothing), one lemma each; all endings go through `Ends(ids)`, so that the agreement of index and vectors is proved once (`EndsKeepsIndex`).
* `EchoRefinement`: `Spec => EchoServiceSpec`. With the invariants above each kind of step maps to one step of EchoService, or to none. The index, the timers and the
  shared subscriptions vanish in the mapping; `LiveIsIndexed` says why they may. Without `~IdReuse` the implementation is wrong (§6), and
  `IndexAgrees` already fails.

`BridgeProofs` proves of NetworkClients for all endpoints, kinds of sessions, modes and bounds:

* `RegistrySafety`: `ClientsSpec => []ClientsConsistent`, and `DestructionSafety`: `ClientsSpec => []DestroyedClean`, from one inductive
  invariant. `Registry` says that what the receive coroutine found out stays true while it holds no lock: in single mode nobody is a client between its
  test and its insertion, because nothing but the coroutine itself inserts. `Destruction` says how far the destruction has come and what has stopped by then:
  that the io thread has ended before the registry is cleared is what keeps a late datagram out.

It proves of AppLifecycle for all hosts and numbers of runs `RunSafety`: `AppSpec => []RunsAreSeparate`. The invariant `Stage` ties the position of the owning thread to what exists;
callbacks and requests of other threads leave it alone.

`ActionGoalProofs` proves for all ids, actions, types and commands, with ids used again:

* `GoalSafety`: `GoalsSpec => []GoalsConsistent`: for each id, the commands asked for are those queued, held by the poll, in a session, superseded, or answered
  by one result. `ControlInv` (where the poll is, what its goal and session are) is inductive by itself. The account is proved over it: `Settles(S, D)`
  is what a step does to it, results for `S` and superseded sessions for `D`, and a lemma per handler names the two sets. Lemmas on
  `Count` do what is needed for queues.
* `GoalRefinement`: `GoalsSpec => GoalServiceSpec`: a step asks, gives feedback to a goal that is open, or settles goals.

`ServiceCallProofs` proves for all commands, services and types, and any number of threads:

* `CallSafety`: `CallsSpec => []CallsAccounted`. `SeriesInv` relates timer, call under way and account of an id: a call that a timer made has the timer, the
  first call of a series has none yet. `WaitInv` says what is pending while a response is waited for.
* `AnswerSafety`: `CallsSpec => []AnswersReachCalls`, which says what the executor decides. With more threads
  than the call, and every other node that may wait, can keep (`SpareThread`, as the executor of the repository's tests has), what was answered before this unit of time has reached
  its future (`Delivered`). With one thread, which is what `App::SpinROS` has, no response is ever delivered while the call waits, so every call that was made
  has failed (`NoCallSucceeds`; section 6), for any services, commands and timeouts. In between it depends on what the other nodes wait for at that moment.

`BridgeProofs` also proves, of the way of commands and answers:

* `DispatchSafety`: `DispatchSpec => []PacketsAccounted`, for all types of packets and answers, any association between them, and any number of packets, changes of
  connection and lives, from `DispatchAssumption` (handlers of requests have tokens, the drain order names answers). The inductive invariant adds that a stopped bridge
  keeps nothing (`StoppedIsClean`), the handler of a type is the only producer of its commands (`OwnToken`), what a tick owes was there before it (`OwedIsOld`),
  and handlers that had their turn left nothing of it (`FlushedIsSent`). `Associative` and the lemmas on storages carry the order through partial drains.
* `FrameSafety`: `FramesSpec => []FramesConsistent`, for any number of frames, kinds and waiting commands: a command of a kind that `QueueResource` does not build in a frame
  is still what was enqueued. It is what remains of `QueuedIntact`, which finding 2 refutes for the two kinds that are.
* `QueueSafety`: `QueuesSpec => []ProducerOrder`, for all producers, types and numbers of commands. One lemma (`TakingKeeps`) covers the three ways to dequeue: what is got and
  what is left, one after the other, are what was there, for every producer.

`MemoryProofs` proves of the arena for all sets of threads, requests, growth policies, addresses and any number of allocations
(TLC's bound included), from `ArenaAssumption`:

* `TypeCorrect` and `MemorySafety`: `Spec => []TypeOK`, `Spec => []NoOverlap`. The inductive invariant `MemoryInv` adds that an
  offset lies within its block and above everything that was given away of it (`BelowOffset`), and that a
  thread with a block in hand has one that exists while one that is not allocating has none
  (`BlockInHand`), which is why a reset hurts nobody. `ReserveKeepsMemory` is the heart: the new space begins at the loaded offset,
  and the swap succeeds only while that is still the offset of the block.
* `GrowSafety`: `Spec => []SingleGrower`; the invariant `GrowerMarked` adds that `grow_state_` says so as long as
  somebody grows, until the process is aborted.
* `AccountSafety`: `Spec => []ArenaAccounts`. Statistics are sums, and a sum is the cardinality of the set of its units (`Units` of Counting), so that what
  a step adds to a row of numbers is a disjoint union and needs no recursion. `SpaceHolds`: what is allocated or wasted, with what threads have taken
  and not yet counted, is the sum of the offsets. `PeakHolds`: the peak is behind by no more than what a thread is about to report. `HeadsHold`: the blocks are
  chained from the head, with at most the one of the grower beside the chain. `RefusalsHold`: a thread that is on its second try found the head it
  tries changed by another thread, or it fits.

It proves of PoolAllocator for all sets of threads, numbers of blocks and growths, from `PoolAssumption`:

* `PoolSafety`: `PoolSpec /\ [][no StalePop]_pool_vars => []BlocksAccounted`, for threads that all allocate, free and grow. A `StalePop` is the step of finding 5: a pop that swings the head
  to a successor which is not that of the block any more. The theorem says that finding 5 is all that can go wrong: growth from an old total, pushes, counters and `Reset`, in any
  interleaving, add nothing. The inductive invariant `PoolInv` says that the links from the head run through a sequence without repetition (`IsList`), that every block is in
  it, held, or on its way back in the push of one thread (`BlocksApart`), and that the counter, corrected by the pops and pushes that have not counted yet, is the
  length of the list (`CountsHold`). The counter may be one below zero for a moment, as it is taken from after the pop and before the push that made the
  block free has counted it (`pool_allocator.hpp:545`, `527`).
* `PoolOfOneSafety`: `PoolSpec => []BlocksAccounted` without that condition if no thread deallocates or only one allocates: what a pop has read of the block at the head stays
  true there, because the block could only leave the list through another pop.

It proves of StackAllocator for all sets of threads, sizes and growths, from `StackAssumption`:

* `StackSafety`: `StackSpec => []StackAllocations` if not `Unsynchronized`, as the class promises safety between threads for allocating only. The invariant
  `StackInv` says that what is alive lies apart, below the offsets and above the headers (`LiveApart`), that what is returned is the newest and everybody else idle
  (`StoresNewest`), that all allocations below the marker are older than it (`MarkerHolds`), that allocations counted, or about to be, are those alive and being
  returned (`CountCovers`), and that space given out, or about to be counted, is the sum of the offsets (`SpaceCovers`).

It proves of FreeListAllocator for all requests, growth policies, places of the regions and any number of allocations, from `FreeListAssumption` (an alignment divides
`kMinAlignment` or is a multiple of it, as powers of two do; the policy does not exceed `growth_.max_capacity`):

* `FreeListSafety`: `ListSpec => []FreeListAllocations`. The invariant `FreeListInv` has two parts. `Books` is about what the callers have: allocations apart, aligned
  and with room for their header, and `used_memory_` the sum of their sizes. `Remaining` is about what is left of the regions: free blocks with something between any two of them, beside
  every allocation, and no more in sum than what is not used. Freed neighbours stay in their region as `CreateRegion` puts a header before the
  buffer, so that a block of one region never touches one of another (`free_list_allocator.hpp:348`); the invariant therefore keeps a header between any two regions. `Coalesced` and
  `InsertKeeps` are about joining a block with those beside it, `PaddingServes` about the arithmetic of headers and alignments, `SplitIs` about the
  rest of a block: it begins where a header may, and is lost if it is too small to hold one, which is why the sum is only a bound.

`CoreProofs` proves of RefCounted for all finite sets of handles and objects, any threads and any order of the steps of their calls, from `RefAssumption`
(handles and objects are different places, each handle is of a thread, makers are allocators). Members may form any structure, cycles of objects included:

* `OwnersSafety`: `RefSpec /\ [][SourcesKept]_rc_vars => []SharedObjectsLive`, which is `NoUseAfterFree /\ LivesWhileOwned`. The invariant `RefInv` holds in the middle of calls, where a handle still
  shows a pointer whose count it has given up: those places are `Spent`, and the count of an object is that of the handles of it that are not spent, plus one if `Release()` gave
  the pointer out (`Counted`). `CallsHold` gives the steps left of a call their shape (`WellShaped`: one step that decrements or destroys, then the memory of the objects
  in the chain it came through, the innermost first, then the write to the handle), and says that a thread works on handles of its own, or on members of an object
  that another handle of its own keeps (`Anchored`). `CallsApart` and `FatesHold` say that an object whose count is zero is in the hands of one call, which is
  to destroy or free it: this is why one thread, and only one, frees it, and why a member is released once. A chain may be as long as the objects allow.
  The condition is about the steps of the run: none assigns a handle from a place inside the object that the handle alone keeps (`SourcesKept`). Such an assignment reads freed
  memory (section 6), and the theorem says that nothing else does, in no order of the threads.
* `HandleSafety`: `RefSpec /\ [][SourcesKept /\ AllocatorsKept]_rc_vars => []FreedByMaker`, for any allocators and traits. The last handle frees through its own allocator, so that must be
  the maker's (`HandlesFit`, and `ArgFits` for a call under way). `AllocatorsKept` is about the steps, too: no copy or assignment gives a handle a pointer without the
  allocator of its maker. That does happen with `std::pmr` (finding 6); what is proved is that moves, resets, `Release`, members of dying objects and the order of the threads never
  part the two.

It proves of SparseSet for all sets of indices and values, from `SparseAssumption` (indices are naturals, the two markers are none of the things they mark the absence of):

* `SetSafety`: `SetSpec => []SetSurvives`, with every growth of every insertion free to fail. The invariant `SetInv` says that the index of each place leads back to it (`PlacesLead`) and
  that what has a value has a place (`ValuesPlaced`); `SetTyped` adds that `reverse_map_` is never the longer one. The invariant of the theorem
  is `SetTyped`, and `SetInv` while `dense_` and `reverse_map_` are of one length: a failed growth of `sparse_` or `dense_` leaves them so, one of `reverse_map_` does not (finding 7), until
  `Clear` empties both. Other entries of `sparse_` may lead nowhere or to the place of another index, and `Contains` is right about them because it asks `reverse_map_` (`sparse_set.hpp:805`);
  from the two parts follows that `reverse_map_` has no index twice, and so that the values in `dense_` are as many as the map has.

It proves of InlineCallableBuffer for all sizes and alignments of callables and any number of them, from `CallablesAssumption`:

* `CallablesSafety`: `CallablesSpec => []CallablesSurvive`, with `Reserve` and `ReserveBytes` of filled buffers among the steps. The invariant `CallablesInv` says of every offset what the
  header there must say (`HeaderHolds`: who it is, how far its data are, that a callable which is not trivial was moved to the present block and not left in an old one, unless it is one
  of `torn`), that callables lie one after the other, and that the destroyed are those of earlier fillings. `AlignUpFacts` is the arithmetic: the padding depends on the address, which is why
  a callable keeps its offset and not its padding when the block moves. For those of `torn` order, place and destruction are proved as for the others; that they are where they were
  constructed is false of the code (section 6).

`ModRequestsProofs` proves for all players, addons, kinds of requests, topics and bridge types and any number of requests,
events, connections and worlds:

* `ModSafety`: `Spec => []ModConsistent`, from one assumption, that no addon is a player. The inductive invariant `ModInv`
  adds what the property rests on: requests are numbered over all bridges, and the open bridge has the number of the last connection
  (`Numbered`), so that no request belongs to a bridge that is opened later (`NoneOfNull`); an entry of the commands is that of the
  request with its id (`Entered`); an addon owns what it asked exactly while it holds the handle, or until the first event it could hear
  (`Owned`); and only echoes and statistics go on (`Lasting`). `DeliverInv` and `EndTickInv` are about outcomes, `Parting` shows that the hook before a
  disconnect ends every session a command waits for, and `Linking` that another bridge, or none, disturbs nobody.

`ObserverProofs` proves

* `ParamSafety`: `ParamSpec => []ParamAnswersTell`, for all nodes, parameters, tasks and any number of commands, from `ParamAssumption`. The inductive invariant
  `ParamInv` says that a command waits in one queue, is in the hand of the executor or was answered, once, and in one of these places only (`WaitingApart`,
  `OnePlace`, `AnsweredOnce`), and that an answer of success to a set command tells of values the other node holds or held since (`SetTells`). It does not
  depend on whether the other node leaves, refuses, or carries out what the caller gave up.
* `StatsSafety`: `StatsSpec => []StatsTell`, for all modes, topics, types, commands, readings of the clocks (ones that go back included) and numbers of
  messages, from `StatsAssumption`. `WindowsHold` says that a window trimmed message by message holds the latest of all that was received, as many as it may, and as many
  times as sizes; `LatestAppend` is the fact about sequences it rests on. `QueuesInv` and `SessionsApart` say that a request waits in one queue, has one session or
  has ended, and only one of these: that is why a report, or the error of a command that is refused, never goes to a request that ended.
  A step that starts, stops or refuses is covered by one lemma each, for the three modes alike, and `RequestsMove` is what these have in common.
* `CacheSafety`: `CacheSpec => []SnapshotsServe`, for any number of changes, queries and timers. `ReadAfterQueries` follows a query through the three steps of a
  refresh: what was sent before the callback is covered by what each step reads. `NewTimerFires` is what keeps a pending refresh under way although the callback
  of an older timer cancels whatever the member holds: the timer that the watcher has made and not assigned yet cannot be what it holds. That the callback may
  call through a null pointer instead is a step of the model (`crashed`), after which nothing is promised.
* `ListsSafety`: `QuerySpec => [](ListsTellTheGraph /\ ListedNodesAreFound)`, for all nodes, endpoints, queries and any number of changes between any two reads of the graph,
  from `QueryAssumption` (names and namespaces are as ROS demands, an endpoint is of a node). The invariant `QueriesInv` follows an answer while it is put together: `SeenHolds` (what stayed since the command was
  dequeued is in the graph, what is in the graph has passed), `VisitHolds` (a node that has been visited is in the lists if it had the topic all the time, and only nodes that had it are) and
  `ReadHolds` (the same of the roles read from one node, which is the one of the name). `FullNameMeans` is the fact about names that this rests on: what `BuildFullyQualifiedNodeName`
  makes of a node, with or without the leading slash, means that node and no other to `CanonicalizeNodeNameAndNamespace`.
* `QueriesSafety`: `QuerySpec => []QueriesTell`, with the type of an action, if `FeedbackIsOfServer`: the node reads the type of an action off its feedback topic
  (`action/info.cpp:28`), so that topic must have the type that belongs to the server. ROS has it so, the code cannot check it; `MCNodes` evaluates it for its graph (`TypesAgree`).

Out of the provers' reach are liveness under fairness and `ENABLED` (`SilentClientsStop`, `EverythingSettles`, `NodesSettle`), what recursive
definitions compute for every input (`OwnParametersWin` of ParamYaml, `CodecAgrees` of IntrospectionCodec: induction over data,
by theorems with an operator as parameter; an induction over a set of numbers, which needs none, is used for sequences and sums), and any module that declares a
RECURSIVE operator. Model-checked only, too, is `ContainersTell`: the typed array, the fixed string and the map of buffers. Every
module with theorems states what it assumes of its constants in one ASSUME (the mod's excepted, whose theorem has its assumption as hypothesis); TLC
evaluates them in `MCRelay`, `MCSystem`, `MCNodes` and `MCCore`.

## 6. Disagreements found

1. **The order of subscribe and unsubscribe is lost** (`relay.cpp:88`, run `MCRelayOrder`). A subscribe that
   follows an unsubscribe within a drain period is undone by it without an error; one that was enqueued just
   before an unsubscribe, after the drain had passed its queue, outlives it.
2. **Queued commands in frames** (`handler/addon.hpp:50`, `MCArenaQueued`): addon events, and the responses of most
   nodes, wait in queues while their frame is reset, which other places of the code take care to avoid.
3. **A growing arena refuses an allocation** (`arena_allocator.hpp:445`, `MCArenaAbort`): a thread tries twice. If others
   fill the new block between its growth and its second try, or push a smaller block that they sized from
   an older head, the process is aborted although the policy allows any size. A thread that
   allocates alone is never refused this way (part of `ArenaAccounts`).
4. **A lost wake-up** (`app.hpp:331`, `MCAppWait`): `RequestShutdown` notifies without the mutex. `network::Run` polls
   and is not affected (`EverythingSettles` holds).
5. **A pool shared by two threads gives a block out twice** (`pool_allocator.hpp:414`, `MCPoolShared`): the pop swings the
   head to a successor it read before; if the block was taken, its successor handed out and the block returned in
   between, the compare-and-swap cannot tell.
6. **A shared object goes back to another allocator** (`ref_counted.hpp:759`, `MCHandlesForeign`): `MakeArcWith` recommends itself for a PMR arena, but a copy of the
   handle takes the allocator that `select_on_container_copy_construction` chooses, an assigned one keeps its own, and the last handle frees with what it has. The
   bridge itself shares nothing that was made in an arena.
7. **A failed insertion is not undone** (`sparse_set.hpp:583`, `MCSetGrowth`): when `reverse_map_` does not grow after `dense_` has, the set keeps a value that no index has, against
    the strong guarantee of its comment; later insertions are then not found.

A further one needs no run, because a property that holds says it: **a service call cannot succeed under App's executor** (`call.cpp:207`). The call waits on
the thread that would deliver its answer, and times out; the tests (`tests/nodes/ros/service/call.cpp:263`) pass because they spin several threads. `AnswersReachCalls` states
both, `MCSystem` checks both, and `AnswerSafety` proves both.

Others were met while modelling and have no run of their own, because the models contain them as steps or
initial choices and a run would only repeat these. The names of listed interfaces are cut at the wrong end (`graph_utils.cpp:127`; `BuildTypeListFromResources` of QueryNodes): none of
them can be shown. An assignment of a handle releases its object before it reads its source (`ref_counted.hpp:803`): `list = list->next` reads the member of an object it has just freed,
which `std::shared_ptr`, to which the class compares itself, allows; the bridge does not do it, RefCounted has the step (`FromMember`), and `OwnersSafety` proves that nothing else goes wrong. Reserving
a filled buffer of callables copies them byte by byte (`inline_callable_buffer.hpp:627`, `362`), past the function that relocates them when a push grows the buffer; the model has that too (`torn`), and
`CallablesSurvive` claims the place of a callable only where it did not happen. Unsubscribing from everything erases from the map it iterates over
(`relay.cpp:358`; `Unsubscribe` and `crashed` of TopicRelay), and the timeout of an echo formats a topic it has erased (`relay.cpp:211`; `TimeoutFires`). The status of the bridge
leaves "ready" before the io thread is stopped, so that a datagram in flight meets the assertion at
`bridge.cpp:221`. A second live request with an id in use overwrites the index (`relay.cpp:197`), after which the first can no
longer time out: `IndexAgrees` is therefore stated for fresh ids. A frame may be reset while a ROS callback holds a
command in it, which `frame_allocator.hpp:29` forbids: FrameArena has the step, at the same root as finding 2. A query
of a node that has just left throws out of the callback and ends the ROS thread (`topic/info.cpp:60`). No node takes
the player query (`handler/player.hpp:51`). Loading parameters counts an empty result as success, setting them as failure
(`load.cpp:520`, `set.cpp:176`). `MultiTypeMap::Emplace` "creates or replaces"
(`multi_type_map.hpp:151`), but never replaces, as its test says; it still uses the value up (`Emplace` of HandlerMap). `Ensure` does not set the
type, though its comment says that `ChangeType` is called on a new entry (`multi_type_map.hpp:520`, `206`): the entry fits every
type (`EnsureStorage`). The registry sets the type with the handler (`RegisteredHandlersAnswer`) and is not affected.

Of the mod: the short form `/ros subscribe` records its options without the topic (`TopicCommandActions.java:13`), which `extractTopicName` then takes
for a name, so that the echo is not stopped at a disconnect: `SessionsAreStopped` is stated for what names its topic. Events of addons' requests are also shown to operators, since a handler
without a pending entry does not know whose they are (`TopicCommandEvents.java:36`). hz, bw and delay of an addon are tracked one-shot
(`TrackedBridge.java:119`), and only their first report reaches it, as `RequestsReachOwners` says. Goals and calls that take longer than five seconds
are reported as timed out; their answers go to operators (`CommandRequestTracker.java:69`). Entries of publish and stop commands leave the
table only by an error (`Mute`). Addons are gone after the first world of a process (`RoscraftMod.java:57`, `66`). A handle
of a native bridge acts on whatever bridge is open, or fails its assertion (`app.hpp:355`). A bridge whose callback cannot be registered is not
closed (`BridgeManager.java:194`).

## 7. Not modelled, and why

* FlatBuffers, CDR bytes, digits of numbers, chat text; assertions and stack traces: conversions and diagnostics.
* `NetworkBridge::Reload` and `RemoveClient`, which only tests call; the list of registered nodes; `ShutdownROS` at process exit.
* Moving whole allocators and swapping queues or callable buffers; maps of other things than typed buffers, searching
  and comparing of strings, ranges of an array inserted into itself: operations the bridge does not use.
* The addon event node beyond the memory and path of its commands. The native side of the JNI bridge: its calls come from one thread of the
  game, its life is the host "jni" of AppLifecycle.
* Of the mod, the buses over which addons hear of what they did not ask for, commands and chat text (parsing and formatting), packet encoding,
  the loading of native libraries. Failures to send (`IOException`) drop the packet, like a network that loses it; packets of the mod are
  taken to arrive, and what becomes of the sessions of a client that went silent is in NetworkClients.
* That the callbacks of `action_group_` and the poll of the action node share maps without a lock: with the one thread of
  App they do not overlap.
* The assertion at `bridge.cpp:221` (section 6): in the model a datagram in flight goes on.
* Detail that no property tells apart: the reads of the publishers and of the subscribers of one node are one step (`topic/info.cpp:61-75`; the reads of different nodes
  are steps of their own), as what is told of the one does not depend on the other; the `include_*` flags of the list of interfaces (`list.cpp:39-62`) leave whole kinds out, and names
  are built the same way for each; `uint16` and `wchar` fields given as a character (`introspection_codec.cpp:395-404`); the counters that an allocation of the arena adds
  to one after the other (`arena_allocator.hpp:427-432`) are one step, since additions commute and nothing but `Stats()` reads them in between. The peak,
  which is computed from one of them, has a step of its own.
* A stack that deallocates beside other calls (`Unsynchronized`): the class promises safety between threads for allocating alone (`stack_allocator.hpp:30-31`).
* `ROS 2`, `asio` and the game: what they decide is chosen freely.
* The C++ memory model: steps are atomic at the granularity of locks, queue operations and atomics. The one
  unsynchronised variable met (`frame_index_`) is read as its current value.
* Core utilities, the template, example and demonstration code.

## 8. The plan

1. Proofs: the parts of `ContainersTell` (typed array, fixed string, map of buffers).
2. `EchoSystem`: NetworkClients composed with TopicRelay, for "silence ends every echo" across both; ModRequests composed with the addon event
   node.
3. The native side of the JNI bridge under calls from several threads, if the mod ever makes any.

A new part becomes a focus of one of the composites, and its properties conjuncts of a named invariant there.
