---------------------------- MODULE CommandQueue ----------------------------
(***************************************************************************)
(* CommandQueue: one storage for every registered type of command.  Any    *)
(* user of the class may call any operation; the log remembers what each   *)
(* producer enqueued and what a consumer received or Clear threw away.     *)
(***************************************************************************)
EXTENDS CommandStorage, Functions

CONSTANTS CommandTypes, \* the types of commands
          MaxEnqueued   \* bound: commands enqueued in one behaviour

ASSUME QueuesAssumption == MaxEnqueued \in Nat

VARIABLES messages_,  \* a storage for every registered type
          enqueued,   \* commands so far: the next one is enqueued + 1
          log         \* per type and producer: what went in, what came out

queue_vars == <<messages_, enqueued, log>>

QueuesTypeOK ==
  /\ enqueued \in 0 .. MaxEnqueued
  /\ DOMAIN messages_ \subseteq CommandTypes
  /\ messages_ \in [DOMAIN messages_ -> [Producers -> Seq(Nat)]]
  /\ log \in [CommandTypes -> [Producers -> [in : Seq(Nat), out : Seq(Nat)]]]

NoLog == [p \in Producers |-> [in |-> <<>>, out |-> <<>>]]

QueuesInit == messages_ = <<>> /\ enqueued = 0 /\ log = [t \in CommandTypes |-> NoLog]

IsRegistered(t) == t \in DOMAIN messages_

WithStorage(t, storage) == [u \in DOMAIN messages_ \cup {t} |-> IF u = t THEN storage ELSE messages_[u]]

Out(t, got) == [log EXCEPT ![t] = [p \in Producers |-> [log[t][p] EXCEPT !.out = @ \o got[p]]]]

Register(t) ==
  /\ messages_' = IF IsRegistered(t) THEN messages_ ELSE WithStorage(t, EmptyStorage)
  /\ UNCHANGED <<enqueued, log>>

(* One command or several of one producer, in the order of the range.      *)
EnqueueRange(t, p, n) ==
  LET commands == [i \in 1 .. n |-> enqueued + i] IN
  /\ IsRegistered(t) /\ enqueued + n <= MaxEnqueued
  /\ messages_' = WithStorage(t, EnqueueBulk(messages_[t], p, commands))
  /\ enqueued' = enqueued + n
  /\ log' = [log EXCEPT ![t][p].in = @ \o commands]

DequeueOne(t) ==
  /\ IsRegistered(t)
  /\ \E d \in Dequeue(messages_[t]) :
       /\ messages_' = WithStorage(t, d.rest)
       /\ log' = Out(t, [p \in Producers |-> IF p = d.from THEN <<d.command>> ELSE <<>>])
  /\ UNCHANGED enqueued

\* Mutant: the bound is tested after the dequeuing, the last command is lost.
DequeueIntoLate(t, max_count) ==
  /\ IsRegistered(t)
  /\ \E taken \in Into(messages_[t], max_count) : \E rest \in IF taken.rest = EmptyStorage THEN {taken.rest} ELSE {d.rest : d \in Dequeue(taken.rest)} :
       /\ messages_' = WithStorage(t, rest) /\ log' = Out(t, taken.got)
  /\ UNCHANGED enqueued

DequeueInto(t, max_count) ==
  /\ IsRegistered(t)
  /\ \E taken \in Into(messages_[t], max_count) :
       messages_' = WithStorage(t, taken.rest) /\ log' = Out(t, taken.got)
  /\ UNCHANGED enqueued

ClearTypes(T) ==
  /\ messages_' = [t \in DOMAIN messages_ |-> IF t \in T THEN EmptyStorage ELSE messages_[t]]
  /\ log' = [t \in CommandTypes |-> IF t \in T \cap DOMAIN messages_ THEN NoLog ELSE log[t]]
  /\ UNCHANGED enqueued

(* Erases the storages themselves.  A token of such a storage must not be  *)
(* used again: its holder makes another one after the next Register.       *)
ResetTypes(T) ==
  /\ messages_' = Restrict(messages_, DOMAIN messages_ \ T)
  /\ log' = [t \in CommandTypes |-> IF t \in T THEN NoLog ELSE log[t]]
  /\ UNCHANGED enqueued

Chosen == {{t} : t \in CommandTypes} \cup {CommandTypes}

QueuesNext ==
  \/ \E t \in CommandTypes : Register(t) \/ DequeueOne(t)
  \/ \E t \in CommandTypes, p \in Producers, n \in 0 .. 2 : EnqueueRange(t, p, n)
  \/ \E t \in CommandTypes, n \in 0 .. 2 : DequeueInto(t, n)
  \/ \E T \in Chosen : ClearTypes(T) \/ ResetTypes(T)

QueuesSpec == QueuesInit /\ [][QueuesNext]_queue_vars
----------------------------------------------------------------------------
(* What a producer enqueued came out, in its order and once, or is still   *)
(* there: no operation loses, repeats or overtakes a command, whichever    *)
(* producer the concurrent queue serves first.                             *)
ProducerOrder ==
  \A t \in CommandTypes, p \in Producers :
    log[t][p].in = log[t][p].out \o (IF IsRegistered(t) THEN messages_[t][p] ELSE <<>>)
=============================================================================
