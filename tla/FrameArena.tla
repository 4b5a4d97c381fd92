------------------------------ MODULE FrameArena -------------------------------
(***************************************************************************)
(* The double frame allocator shared by three threads (App,                *)
(* DoubleFrameAllocator, ArenaAllocator).                                  *)
(*                                                                         *)
(* The receive thread builds incoming commands, the ROS thread copies them *)
(* into locals and builds outgoing ones, and the tick thread sends these   *)
(* and then advances the frames.  An advance frees the memory of the frame *)
(* it makes current: whatever was allocated there is lost, also when a     *)
(* queue or a running callback still holds it.  A command is abstracted to *)
(* its kind, the memory that holds it, and whether that memory still does. *)
(***************************************************************************)
EXTENDS Naturals, Sequences

CONSTANTS
  FrameCount,      \* frames of the allocator (2 in App)
  IncomingKinds,   \* kinds of incoming commands that occur
  OutgoingKinds,   \* kinds of outgoing commands that occur
  MaxWaiting       \* bound: commands waiting in one queue

ASSUME FramesAssumption == FrameCount \in Nat \ {0}

\* Memory that no frame reset touches: std::pmr::get_default_resource().
Heap == FrameCount
Frames == 0 .. FrameCount - 1

FrameKinds == IncomingKinds \cup OutgoingKinds
FrameCommand == [kind : FrameKinds, memory : Frames \cup {Heap}, intact : BOOLEAN]

VARIABLES
  frame_index,  \* NFrameAllocator::frame_index_
  frame_tick,   \* tick thread: draining the outgoing queue, or advancing
  receiving,    \* receive thread: the command being built, if any
  callback,     \* ROS thread: the commands its callback holds, if one runs
  incoming,     \* incoming queue
  outgoing      \* outgoing queue

frameVars == <<frame_index, frame_tick, receiving, callback, incoming, outgoing>>

AtMostOne(S) == {{}} \cup {{x} : x \in S}

FramesTypeOK ==
  /\ frame_index \in Frames
  /\ frame_tick \in {"drain", "advance"}
  /\ receiving \in AtMostOne(FrameCommand)
  /\ callback \in [running : BOOLEAN, local : AtMostOne(FrameCommand), reply : AtMostOne(FrameCommand)]
  /\ incoming \in Seq(FrameCommand)
  /\ outgoing \in Seq(FrameCommand)

NoCallback == [running |-> FALSE, local |-> {}, reply |-> {}]

FramesInit ==
  /\ frame_index = 0
  /\ frame_tick = "drain"
  /\ receiving = {}
  /\ callback = NoCallback
  /\ incoming = <<>>
  /\ outgoing = <<>>

NextFrame == (frame_index + 1) % FrameCount

PendingFrameIndex == NextFrame

\* The nodes are given the address of the frame that was pending when they
\* were made, before the first tick, and keep it.
NodeAllocator == 1 % FrameCount

\* Mutant: topic payloads are built in the nodes' frame, too.
QueueResourceAllInFrames(kind) ==
  IF kind = "addonEvent" THEN PendingFrameIndex
  ELSE IF kind \in {"response", "payload"} THEN NodeAllocator
  ELSE Heap

\* Where a queued command lives: addon events in the pending frame of the
\* moment, the responses of the info, list, service and graph nodes and the
\* errors of the statistics in the nodes' frame, every other kind on the heap.
QueueResource(kind) ==
  IF kind = "addonEvent" THEN PendingFrameIndex
  ELSE IF kind = "response" THEN NodeAllocator
  ELSE Heap

New(kind) == [kind |-> kind, memory |-> QueueResource(kind), intact |-> TRUE]

-------------------------------------------------------------------------------
\* Receive thread: a handler builds a command and enqueues it.
BeginReceive(kind) ==
  /\ receiving = {}
  /\ receiving' = {New(kind)}
  /\ UNCHANGED <<frame_index, frame_tick, callback, incoming, outgoing>>

EndReceive ==
  /\ Len(incoming) < MaxWaiting
  /\ \E c \in receiving : incoming' = Append(incoming, c)
  /\ receiving' = {}
  /\ UNCHANGED <<frame_index, frame_tick, callback, outgoing>>

\* ROS thread: a drain callback dequeues into a local of the nodes' frame.
BeginDrainCallback ==
  /\ ~callback.running
  /\ incoming # <<>>
  /\ callback' = [running |-> TRUE, reply |-> {},
                  local |-> {[Head(incoming) EXCEPT !.memory = NodeAllocator]}]
  /\ incoming' = Tail(incoming)
  /\ UNCHANGED <<frame_index, frame_tick, receiving, outgoing>>

\* A timer, a topic message or a future calls back without a command.
BeginEventCallback ==
  /\ ~callback.running
  /\ callback' = [NoCallback EXCEPT !.running = TRUE]
  /\ UNCHANGED <<frame_index, frame_tick, receiving, incoming, outgoing>>

BuildReply(kind) ==
  /\ callback.running
  /\ callback.reply = {}
  /\ callback' = [callback EXCEPT !.reply = {New(kind)}]
  /\ UNCHANGED <<frame_index, frame_tick, receiving, incoming, outgoing>>

FinishCallback ==
  /\ callback.running
  /\ \/ callback.reply = {} /\ UNCHANGED outgoing
     \/ \E c \in callback.reply : Len(outgoing) < MaxWaiting /\ outgoing' = Append(outgoing, c)
  /\ callback' = NoCallback
  /\ UNCHANGED <<frame_index, frame_tick, receiving, incoming>>

\* Tick thread: the bridge drains the outgoing queue, unless it has nobody to
\* send to, and then the frames advance.
BridgeTick ==
  /\ frame_tick = "drain"
  /\ outgoing' \in {outgoing, <<>>}
  /\ frame_tick' = "advance"
  /\ UNCHANGED <<frame_index, receiving, callback, incoming>>

\* What a reset of frame f leaves of a command.
AfterReset(f, c) == [c EXCEPT !.intact = @ /\ c.memory # f]
AllAfterReset(f, cs) == {AfterReset(f, c) : c \in cs}
QueueAfterReset(f, q) == [i \in DOMAIN q |-> AfterReset(f, q[i])]

Advance ==
  LET next == NextFrame
  IN /\ frame_tick = "advance"
     /\ frame_tick' = "drain"
     /\ frame_index' = next
     /\ receiving' = AllAfterReset(next, receiving)
     /\ callback' = [callback EXCEPT !.local = AllAfterReset(next, @),
                                     !.reply = AllAfterReset(next, @)]
     /\ incoming' = QueueAfterReset(next, incoming)
     /\ outgoing' = QueueAfterReset(next, outgoing)

FramesNext ==
  \/ \E kind \in IncomingKinds : BeginReceive(kind)
  \/ EndReceive
  \/ BeginDrainCallback
  \/ BeginEventCallback
  \/ \E kind \in OutgoingKinds : BuildReply(kind)
  \/ FinishCallback
  \/ BridgeTick
  \/ Advance

FramesSpec == FramesInit /\ [][FramesNext]_frameVars

-------------------------------------------------------------------------------
\* A queued command is still what was enqueued however many ticks it waits:
\* enqueued strings "outlive the per-datagram arena" (TopicSubscribeHandler,
\* HandleTopicMessage), and an addon event reaches the node that republishes
\* it (AddonEventHandler), whatever the threads and the resets of frames do.
QueuedIntact ==
  /\ \A i \in DOMAIN incoming : incoming[i].intact
  /\ \A i \in DOMAIN outgoing : outgoing[i].intact

\* The kinds that QueueResource builds in a frame.
FramedKinds == {"addonEvent", "response"}

\* A reset takes no command of another kind from a queue, whatever it takes of
\* these (QueueResource).
HeapSurvives ==
  /\ \A i \in DOMAIN incoming : incoming[i].kind \notin FramedKinds => incoming[i].intact
  /\ \A i \in DOMAIN outgoing : outgoing[i].kind \notin FramedKinds => outgoing[i].intact

\* Commands are where their kind says, and what waits on the heap is intact.
FramesConsistent == FramesTypeOK /\ HeapSurvives
===============================================================================
