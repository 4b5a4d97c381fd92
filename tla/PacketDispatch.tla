--------------------------- MODULE PacketDispatch ---------------------------
(***************************************************************************)
(* The way of a request through the bridge and of its answers back: a      *)
(* verified packet goes to the handler of its type, which enqueues a       *)
(* command; the node of that type takes it and enqueues answers; the tick  *)
(* drains the answers of one handler after the other, in the order of      *)
(* DrainAndFlushHandlerTypes, to all clients.  Shutdown clears registry    *)
(* and queues, and the host may start the bridge again.                    *)
(***************************************************************************)
EXTENDS CommandStorage, SequencesExt

CONSTANTS Requests,     \* types of packet that have a receiving handler
          Unknown,      \* types of packet that have none
          AnswersOf(_), \* the types of answer the node of a request sends
          Served,       \* the requests some node drains
          DrainOrder,   \* the types of answer, as their handlers are drained
          MaxPackets,   \* bound: packets received in one life of the bridge
          MaxChanges,   \* bound: how often the clients come or go
          MaxLives      \* bound: how often the bridge is started

Answers == ToSet(DrainOrder)

\* Every handler has a producer token of its own, and every node is a producer.
ASSUME DispatchAssumption ==
  /\ Requests \subseteq Producers /\ Served \subseteq Requests
  /\ DrainOrder \in Seq(Answers) \ {<<>>}
  /\ MaxPackets \in Nat /\ MaxChanges \in Nat /\ MaxLives \in Nat

VARIABLES incoming_queue_,    \* type of request -> storage
          outgoing_queue_,    \* type of answer -> storage, its producers the nodes
          handler_registry_,  \* the handlers that exist
          flush,              \* position in DrainOrder, 0 between ticks
          client_changes,     \* how often clients came or went, odd while a client is there
          lives,
          \* what happened in this life:
          packets,            \* packets received of each type
          handled,            \* commands the node of each type took
          produced, sent,     \* answers by type and node
          owed                \* answers that waited when this tick began

dispatch_vars == <<incoming_queue_, outgoing_queue_, handler_registry_, flush, client_changes, lives,
                   packets, handled, produced, sent, owed>>

Handlers == Requests \cup Answers

NoneOf(types) == [t \in types |-> EmptyStorage]
CountOf(types) == [t \in types |-> [p \in Producers |-> 0]]

Numbered == Nat \X Nat  \* life of the bridge, number in it
Storage == [Producers -> Seq(Numbered)]

DispatchTypeOK ==
  /\ incoming_queue_ \in [Requests -> Storage] /\ outgoing_queue_ \in [Answers -> Storage]
  /\ handler_registry_ \in {Handlers, {}}
  /\ flush \in 0 .. Len(DrainOrder) /\ client_changes \in Nat /\ lives \in Nat
  /\ packets \in [Requests -> Nat] /\ handled \in [Requests -> Seq(Numbered)]
  /\ produced \in [Answers -> [Producers -> Nat]]
  /\ sent \in [Answers -> Storage] /\ owed \in [Answers -> Storage]

(* The producer token of the handlers; the other producers are the nodes.  *)
Token(t) == CHOOSE p \in Producers : p = t

NoneSent == [a \in Answers |-> EmptyStorage]

DispatchInit ==
  /\ incoming_queue_ = NoneOf(Requests) /\ outgoing_queue_ = NoneOf(Answers)
  /\ handler_registry_ = Handlers
  /\ flush = 0 /\ client_changes = 0 /\ lives = 1
  /\ packets = [t \in Requests |-> 0] /\ handled = [t \in Requests |-> <<>>]
  /\ produced = CountOf(Answers) /\ sent = NoneSent /\ owed = NoneSent

BridgeRunning == handler_registry_ # {}

(* The command carries what identifies it: the type and number of its      *)
(* packet.                                                                 *)
ReceivePacket(t) ==
  /\ BridgeRunning /\ packets[t] < MaxPackets
  /\ packets' = [packets EXCEPT ![t] = @ + 1]
  /\ incoming_queue_' = [incoming_queue_ EXCEPT ![t] = Enqueue(@, Token(t), <<lives, packets[t] + 1>>)]
  /\ UNCHANGED <<outgoing_queue_, handler_registry_, flush, client_changes, lives, handled, produced, sent, owed>>

(* A packet of an unknown type is ignored.                                 *)
DispatchReceive(t) == IF t \in Requests THEN ReceivePacket(t) ELSE BridgeRunning /\ UNCHANGED dispatch_vars

(* The poll of the node of type t takes a command and answers it with one  *)
(* or two messages: a feedback and a result, a response or an error.       *)
NodePoll(t) ==
  /\ BridgeRunning
  /\ \E d \in Dequeue(incoming_queue_[t]), some \in SUBSET AnswersOf(t) :
       /\ some # {}
       /\ incoming_queue_' = [incoming_queue_ EXCEPT ![t] = d.rest]
       /\ handled' = [handled EXCEPT ![t] = Append(@, d.command)]
       /\ outgoing_queue_' = [a \in Answers |->
            IF a \in some THEN Enqueue(outgoing_queue_[a], t, <<lives, produced[a][t] + 1>>)
            ELSE outgoing_queue_[a]]
       /\ produced' = [a \in Answers |-> [p \in Producers |->
            IF a \in some /\ p = t THEN produced[a][p] + 1 ELSE produced[a][p]]]
  /\ UNCHANGED <<handler_registry_, flush, client_changes, lives, packets, sent, owed>>

Connected == client_changes % 2 = 1

\* Mutant: the queues are drained although there is nobody to send to.
BeginFlushAlways ==
  /\ BridgeRunning /\ flush = 0
  /\ IF Connected THEN flush' = 1 /\ UNCHANGED outgoing_queue_
     ELSE flush' = 0 /\ outgoing_queue_' = NoneOf(Answers)
  /\ owed' = outgoing_queue_'
  /\ UNCHANGED <<incoming_queue_, handler_registry_, client_changes, lives, packets, handled, produced, sent>>

(* Without a client the tick returns before it drains anything: the        *)
(* answers stay for whoever comes next.                                    *)
BeginFlush ==
  /\ BridgeRunning /\ flush = 0 /\ Connected
  /\ flush' = 1
  /\ owed' = outgoing_queue_
  /\ UNCHANGED <<incoming_queue_, outgoing_queue_, handler_registry_, client_changes, lives, packets, handled, produced, sent>>

(* DrainAndFlush of the handler whose turn it is dequeues until its        *)
(* storage is empty; nodes go on enqueuing meanwhile.                      *)
Drained(a) == outgoing_queue_[a] = EmptyStorage

DrainAndFlush ==
  /\ flush # 0
  /\ LET a == DrainOrder[flush] IN
     IF a \notin handler_registry_ \/ Drained(a)
     THEN /\ flush' = IF flush = Len(DrainOrder) THEN 0 ELSE flush + 1
          /\ UNCHANGED <<outgoing_queue_, sent>>
     ELSE \E d \in Dequeue(outgoing_queue_[a]) :
            /\ outgoing_queue_' = [outgoing_queue_ EXCEPT ![a] = d.rest]
            /\ sent' = [sent EXCEPT ![a][d.from] = Append(@, d.command)]
            /\ UNCHANGED flush
  /\ UNCHANGED <<incoming_queue_, handler_registry_, client_changes, lives, packets, handled, produced, owed>>

ClientsChange ==
  /\ client_changes < MaxChanges
  /\ client_changes' = client_changes + 1
  /\ UNCHANGED <<incoming_queue_, outgoing_queue_, handler_registry_, flush, lives, packets, handled, produced, sent, owed>>

(* On the thread of the ticks, after the nodes are gone.                   *)
Cleared == incoming_queue_' = NoneOf(Requests) /\ outgoing_queue_' = NoneOf(Answers)

Shutdown ==
  /\ BridgeRunning /\ flush = 0
  /\ handler_registry_' = {}
  /\ Cleared
  /\ client_changes' = 2 * ((client_changes + 1) \div 2)
  /\ UNCHANGED <<flush, lives, packets, handled, produced, sent, owed>>

Restart ==
  /\ ~BridgeRunning /\ lives < MaxLives
  /\ handler_registry_' = Handlers
  /\ lives' = lives + 1
  /\ packets' = [t \in Requests |-> 0] /\ handled' = [t \in Requests |-> <<>>]
  /\ produced' = CountOf(Answers) /\ sent' = NoneSent /\ owed' = NoneSent
  /\ UNCHANGED <<incoming_queue_, outgoing_queue_, flush, client_changes>>

DispatchNext ==
  \/ \E t \in Requests \cup Unknown : DispatchReceive(t)
  \/ \E t \in Served : NodePoll(t)
  \/ BeginFlush \/ DrainAndFlush \/ ClientsChange
  \/ Shutdown \/ Restart

(* Ticks and polls go on as long as the bridge runs.                       *)
DispatchFairness ==
  /\ WF_dispatch_vars(BeginFlush) /\ WF_dispatch_vars(DrainAndFlush)
  /\ \A t \in Served : WF_dispatch_vars(NodePoll(t))

DispatchSpec == DispatchInit /\ [][DispatchNext]_dispatch_vars

DispatchFairSpec == DispatchSpec /\ DispatchFairness
----------------------------------------------------------------------------
Numbers(n) == [i \in 1 .. n |-> <<lives, i>>]

(* Every packet becomes one command of the node of its type, in the order  *)
(* in which the packets came, and none of an earlier life of the bridge.   *)
PacketsInOrder ==
  BridgeRunning => \A t \in Requests :
    Numbers(packets[t]) = handled[t] \o incoming_queue_[t][Token(t)]

(* Every answer is sent once and in the order of its node and type, or     *)
(* waits, also while there is no client; none is left of an earlier life.  *)
AnswersAccounted ==
  BridgeRunning => \A a \in Answers, p \in Producers :
    Numbers(produced[a][p]) = sent[a][p] \o outgoing_queue_[a][p]

(* At the end of a tick nothing waits that waited when it began.           *)
TickFlushes ==
  flush = 0 => \A a \in Answers, p \in Producers :
    ToSet(owed[a][p]) \cap ToSet(outgoing_queue_[a][p]) = {}

(* While a client stays, and requests do not, every answer leaves.         *)
DispatchSettled == BridgeRunning /\ Connected => \A a \in Answers : Drained(a)

(* Nothing that was received or produced is lost, doubled or overtaken.    *)
PacketsAccounted == DispatchTypeOK /\ PacketsInOrder /\ AnswersAccounted /\ TickFlushes

=============================================================================
