------------------------------- MODULE GraphCache ------------------------------
(***************************************************************************)
(* GraphCacheNode (nodes/ros/graph/cache.cpp): a snapshot of the ROS graph *)
(* in two buffers, taken anew by a poll timer and, shortly after a change  *)
(* of the graph, by a one-shot timer that a watcher thread creates.  The   *)
(* executor thread runs one callback at a time, the watcher makes its      *)
(* steps in between.  What is in the graph is told by the number of        *)
(* changes before; the actions are computed from the topics.               *)
(***************************************************************************)
EXTENDS Integers, Sequences, FiniteSets

CONSTANTS
  NoTimer,
  MaxChanges,    \* bound: changes of the graph
  MaxQueries,    \* bound: queries
  MaxTimers      \* bound: one-shot timers the watcher creates

\* Timers are numbered as they are created.
ASSUME CacheAssumption == NoTimer \notin Nat \ {0}

VARIABLES
  graph_changes,  \* number of changes so far
  graph_event_,   \* whether the event the watcher waits for is set
  buffers,        \* current_snapshot_ (0) and pending_snapshot_ (1): [topics, services, actions]
  current_snapshot_index_,
  pending_graph_refresh_,
  refresh_post_timer_,
  active,         \* the one-shot timers that will fire
  created,        \* history: number of timers created
  watcher,        \* where the watcher thread is
  callback,       \* of the executor thread: its next step, "none" or "crashed"
  stop_watcher_,  \* the node is being destroyed
  queries,        \* waiting QueryGraphCmd: [graph, before] when it was sent
  graph_asked,    \* history: number of queries
  replies         \* history: [query, snapshot] of the last step

timerVars    == <<graph_event_, pending_graph_refresh_, refresh_post_timer_, active, created, watcher>>
snapshotVars == <<buffers, current_snapshot_index_>>
queryVars    == <<queries, graph_asked, replies>>
cache_vars   == <<graph_changes, timerVars, snapshotVars, callback, stop_watcher_, queryVars>>

Snapshot == [topics : Nat, services : Nat, actions : Nat]

CacheTypeOK ==
  /\ graph_changes \in Nat
  /\ buffers \in [{0, 1} -> Snapshot]
  /\ current_snapshot_index_ \in {0, 1}
  /\ pending_graph_refresh_ \in BOOLEAN
  /\ created \in Nat /\ active \subseteq 1 .. created
  /\ refresh_post_timer_ \in {NoTimer} \cup 1 .. created
  /\ queries \in Seq([graph : Nat, before : BOOLEAN])

\* The constructor has taken a first snapshot.
CacheInit ==
  /\ graph_changes = 0 /\ graph_event_ = FALSE
  /\ buffers = [i \in {0, 1} |-> [topics |-> 0, services |-> 0, actions |-> 0]]
  /\ current_snapshot_index_ = 1
  /\ pending_graph_refresh_ = FALSE /\ refresh_post_timer_ = NoTimer
  /\ active = {} /\ created = 0
  /\ watcher = "wait" /\ callback = "none" /\ stop_watcher_ = FALSE
  /\ queries = <<>> /\ graph_asked = 0 /\ replies = {}

CurrentSnapshot == IF current_snapshot_index_ = 0 THEN buffers[1] ELSE buffers[0]
PendingSnapshot == current_snapshot_index_  \* 0: current_snapshot_, 1: pending_snapshot_

-----------------------------------------------------------------------------
GraphChanges ==
  /\ graph_changes < MaxChanges
  /\ graph_changes' = graph_changes + 1
  /\ graph_event_' = TRUE
  /\ replies' = {}
  /\ UNCHANGED <<pending_graph_refresh_, refresh_post_timer_, active, created, watcher,
                 snapshotVars, callback, stop_watcher_, queries, graph_asked>>

Query ==
  /\ graph_asked < MaxQueries
  /\ graph_asked' = graph_asked + 1
  /\ queries' = Append(queries, [graph |-> graph_changes, before |-> callback = "none"])
  /\ replies' = {}
  /\ UNCHANGED <<graph_changes, timerVars, snapshotVars, callback, stop_watcher_>>

-----------------------------------------------------------------------------
(* The watcher thread. *)
Watch(from, to) ==
  /\ watcher = from /\ watcher' = to
  /\ replies' = {}
  /\ UNCHANGED <<graph_changes, snapshotVars, callback, stop_watcher_, queries, graph_asked>>

\* The wait ends with the event or after 200 ms.
WaitForGraphChange ==
  /\ Watch("wait", IF stop_watcher_ THEN "ended" ELSE IF pending_graph_refresh_ \/ created = MaxTimers THEN "wait"
                   ELSE "mark")
  /\ UNCHANGED <<graph_event_, pending_graph_refresh_, refresh_post_timer_, active, created>>

MarkPending ==
  /\ Watch("mark", "event")
  /\ pending_graph_refresh_' = TRUE
  /\ UNCHANGED <<graph_event_, refresh_post_timer_, active, created>>

RenewEvent ==
  /\ Watch("event", "cancel")
  /\ graph_event_' = FALSE
  /\ UNCHANGED <<pending_graph_refresh_, refresh_post_timer_, active, created>>

CancelOldTimer ==
  /\ Watch("cancel", "create")
  /\ active' = active \ {refresh_post_timer_}
  /\ UNCHANGED <<graph_event_, pending_graph_refresh_, refresh_post_timer_, created>>

\* From here on the executor may run the new timer.
CreateTimer ==
  /\ Watch("create", "assign")
  /\ created' = created + 1
  /\ active' = active \cup {created + 1}
  /\ UNCHANGED <<graph_event_, pending_graph_refresh_, refresh_post_timer_>>

\* The timer that was there is destroyed.
AssignTimer ==
  /\ Watch("assign", "wait")
  /\ refresh_post_timer_' = created
  /\ active' = active \ {refresh_post_timer_}
  /\ UNCHANGED <<graph_event_, pending_graph_refresh_, created>>

WatcherTaskFunc ==
  \/ WaitForGraphChange \/ MarkPending \/ RenewEvent \/ CancelOldTimer \/ CreateTimer \/ AssignTimer

-----------------------------------------------------------------------------
(* The executor thread. *)
Run(from, to) ==
  /\ callback = from /\ callback' = to
  /\ replies' = {}
  /\ UNCHANGED <<graph_changes, graph_event_, created, watcher, stop_watcher_, graph_asked>>

OnPollTimer ==
  /\ ~stop_watcher_ /\ Run("none", "topics")
  /\ UNCHANGED <<pending_graph_refresh_, refresh_post_timer_, active, snapshotVars, queries>>

OneShotFires ==
  /\ ~stop_watcher_ /\ active # {}
  /\ Run("none", "cancel")
  /\ UNCHANGED <<pending_graph_refresh_, refresh_post_timer_, active, snapshotVars, queries>>

\* Mutant: the flag is reset before the timer is cancelled.
CancelLast ==
  \/ /\ Run("cancel", "post") /\ pending_graph_refresh_' = FALSE
     /\ UNCHANGED <<refresh_post_timer_, active, snapshotVars, queries>>
  \/ /\ Run("post", "topics") /\ active' = active \ {refresh_post_timer_}
     /\ UNCHANGED <<pending_graph_refresh_, refresh_post_timer_, snapshotVars, queries>>

\* The lambda cancels what refresh_post_timer_ points to: the timer that fired
\* if it has been assigned by now, else the one before, if there was one.
CancelItself ==
  \/ /\ Run("cancel", IF refresh_post_timer_ = NoTimer THEN "crashed" ELSE "post")
     /\ active' = active \ {refresh_post_timer_}
     /\ UNCHANGED <<pending_graph_refresh_, refresh_post_timer_, snapshotVars, queries>>
  \/ /\ Run("post", "topics")  \* OnGraphRefreshPost
     /\ pending_graph_refresh_' = FALSE
     /\ UNCHANGED <<refresh_post_timer_, active, snapshotVars, queries>>

Refreshed(fields) ==
  buffers' = [buffers EXCEPT ![PendingSnapshot] = [f \in DOMAIN @ |-> IF f \in fields THEN graph_changes ELSE @[f]]]

Publish == current_snapshot_index_' = 1 - current_snapshot_index_

\* The topics are read first, the services and the names of the nodes later.
RefreshSnapshot ==
  \/ /\ Run("topics", "services")
     /\ Refreshed({"topics", "actions"})
     /\ UNCHANGED <<current_snapshot_index_, pending_graph_refresh_, refresh_post_timer_, active, queries>>
  \/ /\ Run("services", "respond")
     /\ Refreshed({"services"})
     /\ Publish
     /\ UNCHANGED <<pending_graph_refresh_, refresh_post_timer_, active, queries>>

DrainAndRespond ==
  /\ callback = "respond"
  /\ IF queries = <<>> THEN callback' = "none" /\ replies' = {} /\ UNCHANGED queries
     ELSE /\ replies' = {[query |-> Head(queries), snapshot |-> CurrentSnapshot]}
          /\ queries' = Tail(queries)
          /\ UNCHANGED callback
  /\ UNCHANGED <<graph_changes, timerVars, snapshotVars, stop_watcher_, graph_asked>>

Execute == OnPollTimer \/ OneShotFires \/ CancelItself \/ RefreshSnapshot \/ DrainAndRespond

-----------------------------------------------------------------------------
\* The destructor, when the executor has stopped: it sets the event it knows.
Destroy ==
  /\ callback = "none" /\ ~stop_watcher_
  /\ stop_watcher_' = TRUE
  /\ active' = active \ {refresh_post_timer_}
  /\ graph_event_' = TRUE
  /\ replies' = {}
  /\ UNCHANGED <<graph_changes, pending_graph_refresh_, refresh_post_timer_, created, watcher,
                 snapshotVars, callback, queries, graph_asked>>

\* A process that has called through a null pointer is gone, and a node that is
\* destroyed does nothing else.
Gone == (callback = "crashed" \/ stop_watcher_) /\ UNCHANGED cache_vars

CacheNext ==
  \/ callback # "crashed" /\ (GraphChanges \/ Query \/ WatcherTaskFunc \/ Execute \/ Destroy)
  \/ Gone

CacheSpec == CacheInit /\ [][CacheNext]_cache_vars

CacheFairSpec ==
  CacheSpec /\ WF_cache_vars(callback # "crashed" /\ WatcherTaskFunc) /\ WF_cache_vars(Execute)

-----------------------------------------------------------------------------
\* A query sent while no callback ran is answered with a graph no older than
\* itself, in all its parts.
AnswersAreCurrent ==
  \A r \in replies : r.query.before => \A f \in DOMAIN r.snapshot : r.snapshot[f] >= r.query.graph

\* A refresh that is marked as pending is under way: the watcher is about to
\* create its timer, a timer will fire, or its callback will reset the mark.
\* Otherwise the watcher would wait for it for ever, and every later change of
\* the graph would be left to the poll timer.
PendingIsServed ==
  pending_graph_refresh_ /\ ~stop_watcher_ =>
    watcher \in {"event", "cancel", "create"} \/ active # {} \/ callback \in {"cancel", "post", "crashed"}

\* An answer is no older than its query, and a refresh that is marked as pending
\* is under way.
SnapshotsServe == CacheTypeOK /\ AnswersAreCurrent /\ PendingIsServed

\* A change of the graph reaches the snapshot, if nothing ends before, and the
\* destructor's join returns.
CacheSettled ==
  /\ CurrentSnapshot.topics = graph_changes \/ stop_watcher_ \/ callback = "crashed"
  /\ stop_watcher_ => watcher = "ended"

===============================================================================
