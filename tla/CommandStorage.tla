--------------------------- MODULE CommandStorage ---------------------------
(***************************************************************************)
(* TypedCommandStorage: the commands of one type, in a concurrent queue    *)
(* that keeps the order of each producer token and no order between the    *)
(* tokens.  A storage is a function from producers to sequences; what can  *)
(* be taken from it is a set of outcomes, one for every choice the queue   *)
(* may make.                                                               *)
(***************************************************************************)
EXTENDS Naturals, Sequences, FiniteSetsExt

CONSTANT Producers

EmptyStorage == [p \in Producers |-> <<>>]

EnqueueBulk(storage, p, commands) == [storage EXCEPT ![p] = @ \o commands]

Enqueue(storage, p, command) == EnqueueBulk(storage, p, <<command>>)

SizeApprox(storage) == MapThenSumSet(LAMBDA p : Len(storage[p]), Producers)

(* Taking several commands: of each producer a prefix of what it enqueued, *)
(* together `max_count` of them or all there are.                          *)
Taken(storage, n) ==
  [got |-> [p \in Producers |-> SubSeq(storage[p], 1, n[p])],
   rest |-> [p \in Producers |-> SubSeq(storage[p], n[p] + 1, Len(storage[p]))]]

Into(storage, max_count) ==
  LET wanted == IF SizeApprox(storage) < max_count THEN SizeApprox(storage) ELSE max_count
      Share == {n \in [Producers -> 0 .. max_count] :
                  /\ MapThenSumSet(LAMBDA p : n[p], Producers) = wanted
                  /\ \A p \in Producers : n[p] <= Len(storage[p])}
  IN  {Taken(storage, n) : n \in Share}

(* Dequeue of one command: none if the storage is empty.                   *)
Dequeue(storage) ==
  {[command |-> Head(storage[p]), from |-> p, rest |-> [storage EXCEPT ![p] = Tail(@)]] :
     p \in {q \in Producers : storage[q] # <<>>}}
=============================================================================
