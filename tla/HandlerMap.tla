------------------------------- MODULE HandlerMap ------------------------------
(***************************************************************************)
(* Objects of several types, each at a place of its own: TypedBuffer       *)
(* (container/typed_buffer.hpp) keeps one object of any type in a vector   *)
(* of bytes, MultiTypeMap (container/multi_type_map.hpp) one buffer per    *)
(* type in a flat map, whose entries move when another comes or goes, and  *)
(* CommandHandlerRegistry (command/handler_registry.hpp) the handlers in   *)
(* such a map.  A block is the memory of one vector; the buffers keep the  *)
(* lifetimes of the objects themselves.                                    *)
(***************************************************************************)
EXTENDS Integers, Sequences, FiniteSets, SequencesExt

CONSTANTS
  Types,          \* the types, in the order of their indices
  NoType,
  ElementSize,    \* type -> its size in bytes
  Copyable,       \* the types that can be copied
  Values,
  NoValue,
  IsRegistry,     \* whether the map is that of a registry of handlers
  MaxBlocks,      \* bound: blocks that stay allocated
  Raw, Lost       \* no object lives here; a lifetime was violated

VARIABLES
  heap,           \* block -> [capacity, object]
  storage_,       \* the entries [key, buffer] of the map, sorted by key
  own,            \* a buffer of the caller's
  told            \* history: what each entry, and the caller's buffer, should hold

vars == <<heap, storage_, own, told>>

Order == SetToSeq(Types)
Rank(t) == CHOOSE n \in DOMAIN Order : Order[n] = t

Blocks == 1 .. MaxBlocks + 1
NoBlock == 0
Unused == [capacity |-> 0, object |-> Raw]
TypedBuffer == [type |-> NoType, block |-> NoBlock, size |-> 0, has_value |-> FALSE]
Nothing == [type |-> NoType, value |-> NoValue, at |-> NoBlock]
NoEntries == [t \in {} |-> Nothing]

Init ==
  /\ heap = [k \in Blocks |-> Unused]
  /\ storage_ = <<>> /\ own = TypedBuffer
  /\ told = [map |-> NoEntries, own |-> Nothing]

-----------------------------------------------------------------------------
(* Lifetimes of objects and of vectors.                                    *)

Start(h, k, t, v) == [h EXCEPT ![k].object = IF @ = Raw THEN [type |-> t, value |-> v] ELSE Lost]
End(h, k, t) == [h EXCEPT ![k].object = IF @ \notin {Raw, Lost} /\ @.type = t THEN Raw ELSE Lost]
Free(h, k) ==
  IF k = NoBlock THEN h
  ELSE [h EXCEPT ![k] = IF @.capacity > 0 /\ @.object = Raw THEN Unused ELSE [@ EXCEPT !.object = Lost]]

\* storage_.resize when it is too small, within its capacity or in a new block.
Sized(h, b, n) ==
  IF b.size >= n THEN [heap |-> h, buffer |-> b]
  ELSE IF b.block # NoBlock /\ h[b.block].capacity >= n THEN [heap |-> h, buffer |-> [b EXCEPT !.size = n]]
  ELSE LET k == CHOOSE k \in Blocks : h[k] = Unused /\ \A j \in 1 .. k - 1 : h[j] # Unused
       IN [heap |-> Free([h EXCEPT ![k] = [capacity |-> n, object |-> Raw]], b.block),
           buffer |-> [b EXCEPT !.block = k, !.size = n]]

(* TypedBuffer.                                                            *)
Destroy(h, b) == IF b.has_value THEN End(h, b.block, b.type) ELSE h
Discard(h, b) == Free(Destroy(h, b), b.block)
ChangeType(b, t) == [b EXCEPT !.type = t, !.has_value = FALSE]
Reset(b) == [b EXCEPT !.type = NoType, !.size = 0, !.has_value = FALSE]

Set(h, b, t, v) ==
  LET s == Sized(Destroy(h, b), b, ElementSize[t])
  IN [heap |-> Start(s.heap, s.buffer.block, t, v),
      buffer |-> [s.buffer EXCEPT !.type = t, !.has_value = TRUE]]

CanCopy(b) == b.has_value => b.type \in Copyable
CopyAssign(h, b, other) ==
  IF other.has_value THEN Set(h, b, other.type, h[other.block].object.value)
  ELSE [heap |-> Destroy(h, b), buffer |-> ChangeType(b, other.type)]

\* The other buffer is left as a new one.
MoveAssign(h, b, other) == [heap |-> Discard(h, b), buffer |-> other]

(* The flat map.  An entry comes in behind those that make room from the   *)
(* end, and goes by moving those behind it forward.                        *)
Find(map, t) == SelectInSeq(map, LAMBDA e : e.key = t)
HasKey(map, t) == Find(map, t) # 0
Get(map, t) == map[Find(map, t)].buffer
Keys(map) == {map[i].key : i \in DOMAIN map}

MoveEntry(s, from, to) ==
  LET moved == MoveAssign(s.heap, s.map[to].buffer, s.map[from].buffer)
  IN [heap |-> moved.heap,
      map |-> [s.map EXCEPT ![to] = [key |-> s.map[from].key, buffer |-> moved.buffer],
                            ![from].buffer = TypedBuffer]]

InsertEntry(h, map, t, b) ==
  LET place == Cardinality({e \in Keys(map) : Rank(e) < Rank(t)}) + 1
      room == FoldLeft(LAMBDA s, i : MoveEntry(s, Len(map) + place - i, Len(map) + place - i + 1),
                       [heap |-> h, map |-> Append(map, [key |-> t, buffer |-> TypedBuffer])],
                       [n \in 1 .. Len(map) - place + 1 |-> place + n - 1])
  IN [room EXCEPT !.map[place] = [key |-> t, buffer |-> b]]

EraseEntry(h, map, t) ==
  LET closed == FoldLeft(LAMBDA s, i : MoveEntry(s, i + 1, i), [heap |-> h, map |-> map],
                         [n \in 1 .. Len(map) - Find(map, t) |-> Find(map, t) + n - 1])
  IN [heap |-> Discard(closed.heap, Last(closed.map).buffer), map |-> Front(closed.map)]

(* MultiTypeMap.                                                           *)
Ensure(map, h, t) ==
  IF HasKey(map, t) THEN [heap |-> h, map |-> map] ELSE InsertEntry(h, map, t, TypedBuffer)

ResetAll(h, map) == FoldLeft(LAMBDA g, e : Discard(g, e.buffer), h, map)

\* TypedBuffer has no Merge: an entry that exists stays as it is, and that of
\* the other map ends with it.
Merge(h, map, other) ==
  LET joined == FoldLeft(LAMBDA s, e : IF HasKey(s.map, e.key) THEN s
                                       ELSE InsertEntry(s.heap, s.map, e.key, e.buffer),
                         [heap |-> h, map |-> map], other)
  IN [joined EXCEPT !.heap = ResetAll(joined.heap, SelectSeq(other, LAMBDA e : HasKey(map, e.key)))]

CopyMap(h, map, other) ==
  FoldLeft(LAMBDA s, e : LET copy == CopyAssign(s.heap, TypedBuffer, e.buffer)
                         IN [heap |-> copy.heap, map |-> Append(s.map, [key |-> e.key, buffer |-> copy.buffer])],
           [heap |-> ResetAll(h, map), map |-> <<>>], other)
-----------------------------------------------------------------------------
With(map, t, b) == [map EXCEPT ![Find(map, t)].buffer = b]
Now(t, c) == [u \in DOMAIN told.map \cup {t} |-> IF u = t THEN c ELSE told.map[u]]
Holds(t, v, k) == [type |-> t, value |-> v, at |-> k]
Room(n) == Cardinality({k \in Blocks : heap[k] # Unused}) + n <= MaxBlocks

Becomes(s, f) == heap' = s.heap /\ storage_' = s.map /\ told' = [told EXCEPT !.map = f]
OwnBecomes(s, c) == heap' = s.heap /\ own' = s.buffer /\ told' = [told EXCEPT !.own = c]
BothBecome(h, t, b, c, o, d) ==
  /\ heap' = h /\ own' = o
  /\ storage_' = With(storage_, t, b)
  /\ told' = [map |-> Now(t, c), own |-> d]

\* AddHandler and EmplaceHandler; those that try do so if there is none yet.
\* A handler that is replaced keeps its place, and the references to it.
AddHandler(t, v) ==
  LET ensured == Ensure(storage_, heap, t)
      set == Set(ensured.heap, Get(ensured.map, t), t, v)
      at == IF HasKey(storage_, t) THEN told.map[t].at ELSE NoBlock
  IN /\ Room(1)
     /\ Becomes([heap |-> set.heap, map |-> With(ensured.map, t, set.buffer)],
                Now(t, Holds(t, v, IF at = NoBlock THEN set.buffer.block ELSE at)))
     /\ UNCHANGED own

TryAddHandler(t, v) == ~HasKey(storage_, t) /\ AddHandler(t, v)

\* TryRemoveHandler and, of the map, Remove and Reset, too.
RemoveHandler(t) ==
  /\ HasKey(storage_, t)
  /\ Becomes(EraseEntry(heap, storage_, t), [u \in DOMAIN told.map \ {t} |-> told.map[u]])
  /\ UNCHANGED own

Clear == Becomes([heap |-> ResetAll(heap, storage_), map |-> <<>>], NoEntries) /\ UNCHANGED own

EnsureStorage(t) ==
  /\ ~HasKey(storage_, t)
  /\ Becomes(Ensure(storage_, heap, t), Now(t, Nothing))
  /\ UNCHANGED own

\* Emplace of the caller's buffer: what the map does not take ends with the
\* entry that was made of it, while TryEmplace leaves it alone.
Emplace(t) ==
  /\ own.type \in {NoType, t}
  /\ own' = TypedBuffer
  /\ IF HasKey(storage_, t)
     THEN heap' = Discard(heap, own) /\ told' = [told EXCEPT !.own = Nothing] /\ UNCHANGED storage_
     ELSE LET s == InsertEntry(heap, storage_, t, own)
          IN heap' = s.heap /\ storage_' = s.map /\ told' = [map |-> Now(t, told.own), own |-> Nothing]

TryEmplace(t) == ~HasKey(storage_, t) /\ Emplace(t)

\* What a caller does to the buffer of an entry: Reset, ChangeType, to move it
\* to his own, to swap them, and to copy it.
EntryStep(t) ==
  LET b == Get(storage_, t)
      c == told.map[t]
  IN /\ HasKey(storage_, t)
     /\ \/ BothBecome(Destroy(heap, b), t, Reset(b), Nothing, own, told.own)
        \/ BothBecome(Destroy(heap, b), t, ChangeType(b, t), Holds(t, NoValue, NoBlock), own, told.own)
        \/ LET s == MoveAssign(heap, own, b)
           IN BothBecome(s.heap, t, TypedBuffer, Nothing, s.buffer, c)
        \/ own.type \in {NoType, t} /\ BothBecome(heap, t, own, told.own, b, c)
        \/ /\ Room(1) /\ CanCopy(b)
           /\ LET s == CopyAssign(heap, own, b)
              IN OwnBecomes(s, IF b.has_value THEN [c EXCEPT !.at = s.buffer.block] ELSE c)
           /\ UNCHANGED storage_

OwnStep ==
  /\ \/ \E t \in Types, v \in Values :
          Room(1) /\ LET s == Set(heap, own, t, v) IN OwnBecomes(s, Holds(t, v, s.buffer.block))
     \/ \E t \in Types :
          OwnBecomes([heap |-> Destroy(heap, own), buffer |-> ChangeType(own, t)], Holds(t, NoValue, NoBlock))
     \/ OwnBecomes([heap |-> Destroy(heap, own), buffer |-> Reset(own)], Nothing)
  /\ UNCHANGED storage_

\* Another map, with entries of some types, of which some have values.
Made(filled, v) ==
  FoldLeft(LAMBDA s, t :
             LET set == Set(s.heap, TypedBuffer, t, v)
             IN IF t \in filled THEN InsertEntry(set.heap, s.map, t, set.buffer)
                ELSE InsertEntry(s.heap, s.map, t, TypedBuffer),
           [heap |-> heap, map |-> <<>>], Order)

\* Merging it, moving it in (or swapping, after which it ends), and copying it.
Combine ==
  /\ UNCHANGED own
  /\ \E filled \in SUBSET Types, v \in Values :
       /\ Room(Cardinality(filled))
       /\ \E keys \in {k \in SUBSET Types : filled \subseteq k} :
            LET made == Made(filled, v)
                other == SelectSeq(made.map, LAMBDA e : e.key \in keys)
                f == [t \in keys |-> IF t \in filled THEN Holds(t, v, Get(other, t).block) ELSE Nothing]
            IN \/ Becomes(Merge(made.heap, storage_, other), told.map @@ f)
               \/ Becomes([heap |-> ResetAll(made.heap, storage_), map |-> other], f)
               \/ /\ filled \subseteq Copyable /\ Room(2 * Cardinality(filled))
                  /\ LET s == CopyMap(made.heap, storage_, other)
                     IN Becomes([s EXCEPT !.heap = ResetAll(@, other)],
                                [t \in keys |-> IF t \in filled THEN [f[t] EXCEPT !.at = Get(s.map, t).block] ELSE f[t]])

MapsNext ==
  \/ \E t \in Types, v \in Values : AddHandler(t, v) \/ TryAddHandler(t, v)
  \/ \E t \in Types : RemoveHandler(t)
  \/ Clear
  \/ /\ ~IsRegistry
     /\ \/ \E t \in Types : EnsureStorage(t) \/ Emplace(t) \/ TryEmplace(t) \/ EntryStep(t)
        \/ OwnStep
        \/ Combine

MapsSpec == Init /\ [][MapsNext]_vars

-----------------------------------------------------------------------------
Buffers == <<own>> \o [i \in DOMAIN storage_ |-> storage_[i].buffer]

Content(b) ==
  IF b.has_value THEN Holds(b.type, heap[b.block].object.value, b.block) ELSE Holds(b.type, NoValue, NoBlock)

\* Memory has one buffer, and an object lives there if and only if that buffer
\* has a value, of its type: none is overwritten, ended twice or left behind.
ObjectsHaveOneOwner ==
  \A k \in Blocks :
    LET owners == {i \in DOMAIN Buffers : Buffers[i].block = k}
    IN /\ Cardinality(owners) = (IF heap[k] = Unused THEN 0 ELSE 1)
       /\ \A i \in owners :
            LET b == Buffers[i]
            IN IF b.has_value
               THEN /\ heap[k].object \notin {Raw, Lost} /\ heap[k].object.type = b.type
                    /\ ElementSize[b.type] <= b.size /\ b.size <= heap[k].capacity
               ELSE heap[k].object = Raw

\* However entries and buffers are moved, merged, replaced and removed, lifetimes
\* are kept, and every entry holds what was put there, at the place where a
\* reference to it looks.
MapHoldsObjects ==
  /\ ObjectsHaveOneOwner
  /\ Content(own) = told.own
  /\ Len(storage_) = Cardinality(DOMAIN told.map) /\ Keys(storage_) = DOMAIN told.map
  /\ \A t \in Keys(storage_) : Content(Get(storage_, t)) = told.map[t]

\* A packet or a drain for a type whose handler is registered finds a handler
\* of this type: the assertions of Get and Value hold.
RegisteredHandlersAnswer ==
  IsRegistry => \A i \in DOMAIN storage_ : storage_[i].buffer.has_value /\ storage_[i].buffer.type = storage_[i].key

===============================================================================
