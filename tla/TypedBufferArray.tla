---------------------------- MODULE TypedBufferArray ---------------------------
(***************************************************************************)
(* container::TypedBufferArray (container/typed_buffer_array.hpp): objects *)
(* of one type, chosen at run time, in a vector of bytes.  The array keeps *)
(* the lifetimes of the objects itself: a slot holds a live object or is   *)
(* Raw.  Slots are numbered from 1, positions from 0 as in the code.       *)
(***************************************************************************)
EXTENDS Integers, Sequences, SequencesExt

CONSTANTS
  Types,
  NoType,
  ElementSize,   \* type -> its size in bytes
  Trivial,       \* the types that are trivially copyable
  Values,
  Raw,           \* no object lives in the slot
  Lost,          \* a lifetime was violated: never to be seen
  MaxSize        \* bound: elements

VARIABLES
  array,         \* [type, bytes = storage_.size(), slots, size]
  elements       \* history: what a sequence would hold

vars == <<array, elements>>

NoArray == [type |-> NoType, bytes |-> 0, slots |-> <<>>, size |-> 0]

Init == array = NoArray /\ elements = <<>>

Managed(b) == b.type \notin Trivial
Slots(t, bytes) == [i \in 1 .. (bytes \div ElementSize[t]) |-> Raw]

\* Lifetimes: construct_at, destroy and the move that ends its source.
Construct(b, i, v) ==
  [b EXCEPT !.slots[i] = IF Managed(b) /\ @ # Raw THEN Lost ELSE v]
DestroyRange(b, first, last) ==
  IF ~Managed(b) THEN b
  ELSE [b EXCEPT !.slots = [i \in DOMAIN b.slots |->
          IF i \in first + 1 .. last THEN (IF b.slots[i] = Raw THEN Lost ELSE Raw)
          ELSE b.slots[i]]]
Relocate(b, from, to) ==
  LET v == IF b.slots[from] = Raw THEN Lost ELSE b.slots[from]
      moved == Construct(b, to, v)
  IN IF Managed(b) THEN [moved EXCEPT !.slots[from] = Raw] ELSE moved

DestroyAll(b) == DestroyRange(b, 0, b.size)

\* The first sizes that hold the objects, growing by half.
GrownBytes(b, required) ==
  LET grown[n \in 0 .. 2 * required] ==
        IF n >= required THEN n ELSE grown[n + (IF n \div 2 > 1 THEN n \div 2 ELSE 1)]
  IN grown[IF b.bytes = 0 THEN ElementSize[b.type] ELSE b.bytes]

\* The objects move to a storage of the size.
Rehouse(b, bytes) ==
  [b EXCEPT !.bytes = bytes,
            !.slots = [i \in DOMAIN Slots(b.type, bytes) |->
                         IF i <= b.size THEN b.slots[i] ELSE Raw]]

GrowIfNeeded(b, count) ==
  LET required == (b.size + count) * ElementSize[b.type]
  IN IF required <= b.bytes THEN b ELSE Rehouse(b, GrownBytes(b, required))

EnsureType(b, t) == IF b.type = NoType THEN [b EXCEPT !.type = t, !.slots = Slots(t, b.bytes)] ELSE b
TypeFits(b, t) == b.type \in {NoType, t}

\* One by one from the end, so that a slot is free when an object comes to it.
ShiftRight(b, pos, count) ==
  LET n == b.size - pos
  IN FoldLeft(LAMBDA c, k : Relocate(c, pos + k, pos + k + count), b, [j \in 1 .. n |-> n + 1 - j])

\* Mutant: from the end here, too.
ShiftLeftFromEnd(b, pos, count) ==
  LET n == b.size - pos
  IN FoldLeft(LAMBDA c, k : Relocate(c, pos + k, pos + k - count), b, [j \in 1 .. n |-> n + 1 - j])

ShiftLeft(b, pos, count) ==
  LET n == b.size - pos
  IN FoldLeft(LAMBDA c, k : Relocate(c, pos + k, pos + k - count), b, [j \in 1 .. n |-> j])

ConstructAll(b, pos, s) ==
  [FoldLeft(LAMBDA c, k : Construct(c, pos + k, s[k]), b, [j \in 1 .. Len(s) |-> j])
     EXCEPT !.size = @ + Len(s)]

-----------------------------------------------------------------------------
\* PushBack and EmplaceBack.
EmplaceBack(b, t, v) == ConstructAll(GrowIfNeeded(EnsureType(b, t), 1), b.size, <<v>>)

Emplace(b, t, pos, v) ==
  IF pos = b.size THEN EmplaceBack(b, t, v)
  ELSE ConstructAll(ShiftRight(GrowIfNeeded(EnsureType(b, t), 1), pos, 1), pos, <<v>>)

\* Insert of a count, of a forward range, and of a sized range.
InsertRange(b, t, pos, s) ==
  ConstructAll(ShiftRight(GrowIfNeeded(EnsureType(b, t), Len(s)), pos, Len(s)), pos, s)

\* Insert of a range that can be read once only: element by element.
InsertSinglePass(b, t, pos, s) ==
  FoldLeft(LAMBDA c, k : ConstructAll(ShiftRight(GrowIfNeeded(c, 1), pos + k - 1, 1), pos + k - 1, <<s[k]>>),
           EnsureType(b, t), [j \in 1 .. Len(s) |-> j])

AppendRange(b, t, s) ==
  FoldLeft(LAMBDA c, k : ConstructAll(GrowIfNeeded(c, 1), c.size, <<s[k]>>),
           GrowIfNeeded(EnsureType(b, t), Len(s)), [j \in 1 .. Len(s) |-> j])

PopBack(b) == DestroyRange([b EXCEPT !.size = @ - 1], b.size - 1, b.size)

Erase(b, first, last) ==
  LET shifted == ShiftLeft(DestroyRange(b, first, last), last, last - first)
  IN [shifted EXCEPT !.size = @ - (last - first)]

Clear(b) == [DestroyAll(b) EXCEPT !.bytes = 0, !.slots = <<>>, !.size = 0]

Reserve(b, count) ==
  LET required == count * ElementSize[b.type]
  IN IF required <= b.bytes THEN b ELSE Rehouse(b, required)

ShrinkToFit(b) ==
  IF b.type = NoType \/ b.size = 0 THEN [b EXCEPT !.bytes = 0, !.slots = <<>>]
  ELSE Rehouse(b, b.size * ElementSize[b.type])

Resize(b, t, count, v) ==
  LET typed == EnsureType(b, t)
  IN IF count < b.size THEN [DestroyRange(typed, count, b.size) EXCEPT !.size = count]
     ELSE IF count = b.size THEN typed
     ELSE ConstructAll(GrowIfNeeded(typed, count - b.size), b.size, [j \in 1 .. count - b.size |-> v])

\* Copying and moving another array in: its type comes along, its storage
\* with it or in its size.
Assign(b, other) ==
  [type |-> other.type, bytes |-> other.size * (IF other.type = NoType THEN 0 ELSE ElementSize[other.type]),
   slots |-> SubSeq(other.slots, 1, other.size), size |-> other.size]

Merge(b, other) ==
  IF other.size = 0 THEN IF b.type = NoType THEN [b EXCEPT !.type = other.type,
       !.slots = IF other.type = NoType THEN <<>> ELSE Slots(other.type, b.bytes)] ELSE b
  ELSE IF b.type = NoType THEN Assign(b, other)
  ELSE ConstructAll(GrowIfNeeded(b, other.size), b.size, SubSeq(other.slots, 1, other.size))

\* Through a temporary object.
SwapElements(b, i, j) ==
  [b EXCEPT !.slots[i + 1] = b.slots[j + 1], !.slots[j + 1] = b.slots[i + 1]]

\* std::erase of a value: the last object takes the place of one that goes,
\* and is looked at next.
EraseValue(b, v) ==
  LET erased[n \in 0 .. b.size] ==
        IF n = 0 THEN [at |-> 0, b |-> b]
        ELSE LET p == erased[n - 1]
             IN IF p.b.slots[p.at + 1] = v
                THEN [at |-> p.at, b |-> PopBack(SwapElements(p.b, p.at, p.b.size - 1))]
                ELSE [at |-> p.at + 1, b |-> p.b]
  IN erased[b.size].b

ChangeType(b, t) ==
  [DestroyAll(b) EXCEPT !.type = t, !.slots = Slots(t, b.bytes), !.size = 0]

-----------------------------------------------------------------------------
\* Other arrays, as they come from a constructor.
Others ==
  {NoArray} \cup
  {[type |-> t, bytes |-> Len(s) * ElementSize[t], slots |-> s, size |-> Len(s)] :
     t \in Types, s \in BoundedSeq(Values, 2)}

Content(b) == [i \in 1 .. b.size |-> b.slots[i]]

Becomes(b, s) == Len(s) <= MaxSize /\ array' = b /\ elements' = s

\* Calls of the element type of the array; the code asserts that it is.
Grow ==
  \E t \in Types :
    /\ TypeFits(array, t)
    /\ \/ \E v \in Values : Becomes(EmplaceBack(array, t, v), Append(elements, v))
       \/ \E v \in Values, pos \in 0 .. array.size :
            Becomes(Emplace(array, t, pos, v), InsertAt(elements, pos + 1, v))
       \/ \E s \in BoundedSeq(Values, 2) \ {<<>>}, pos \in 0 .. array.size :
            LET after == SubSeq(elements, 1, pos) \o s \o SubSeq(elements, pos + 1, array.size)
            IN \/ Becomes(InsertRange(array, t, pos, s), after)
               \/ Becomes(InsertSinglePass(array, t, pos, s), after)
       \/ \E s \in BoundedSeq(Values, 2) : Becomes(AppendRange(array, t, s), elements \o s)
       \/ \E n \in 0 .. MaxSize, v \in Values :
            Becomes(Resize(array, t, n, v),
                    [i \in 1 .. n |-> IF i <= array.size THEN elements[i] ELSE v])

Shrink ==
  \/ array.size > 0 /\ Becomes(PopBack(array), Front(elements))
  \/ \E first \in 0 .. array.size : \E last \in first + 1 .. array.size :
       Becomes(Erase(array, first, last), SubSeq(elements, 1, first) \o SubSeq(elements, last + 1, array.size))
  \/ \E v \in Values : Becomes(EraseValue(array, v), Content(EraseValue(array, v)))
  \/ Becomes(Clear(array), <<>>)
  \/ Becomes(NoArray, <<>>)  \* Reset
  \/ \E t \in Types : Becomes(ChangeType(array, t), <<>>)

Arrange ==
  \/ array.type # NoType /\ \E n \in 1 .. MaxSize : Becomes(Reserve(array, n), elements)
  \/ Becomes(ShrinkToFit(array), elements)
  \/ \E i, j \in 0 .. array.size - 1 :
       Becomes(SwapElements(array, i, j), [elements EXCEPT ![i + 1] = elements[j + 1], ![j + 1] = elements[i + 1]])

Combine ==
  \E other \in Others :
    \/ Becomes(Assign(array, other), Content(other))
    \/ /\ other.type = NoType \/ TypeFits(array, other.type)
       /\ Becomes(Merge(array, other), elements \o Content(other))

Next == Grow \/ Shrink \/ Arrange \/ Combine

Spec == Init /\ [][Next]_vars

-----------------------------------------------------------------------------
\* The array is the sequence its calls describe, whatever moved on the way; in
\* a type with destructors the slots of the sequence hold live objects and no
\* other slot does (none is overwritten alive, destroyed twice or left behind).
ArrayIsSequence ==
  /\ Content(array) = elements
  /\ \A i \in DOMAIN array.slots :
       /\ array.slots[i] # Lost
       /\ Managed(array) /\ i > array.size => array.slots[i] = Raw

\* EraseValue, which puts the last object in the place of one that goes, leaves
\* none of the value and each of the others as often as it was there.
EraseKeepsOthers ==
  \A v \in Values :
    LET after == Content(EraseValue(array, v))
    IN /\ v \notin Range(after)
       /\ \A w \in Values \ {v} :
            Len(SelectSeq(after, LAMBDA x : x = w)) = Len(SelectSeq(elements, LAMBDA x : x = w))

===============================================================================
