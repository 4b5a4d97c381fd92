-------------------------- MODULE InlineCallableBuffer --------------------------
(***************************************************************************)
(* container::InlineCallableBuffer (container/inline_callable_buffer.hpp): *)
(* callables of any type one after the other in one vector of bytes, each  *)
(* behind a header with its functions, whether and how it is destroyed and *)
(* relocated, and how far away it is.                                      *)
(***************************************************************************)
EXTENDS Integers, Sequences, SequencesExt, FiniteSetsExt

CONSTANTS
  Kinds,             \* of callables: [size, alignment, trivial]
  kHeaderSize, kPointerAlign,
  MaxCallables, MaxMoves,
  Reserves           \* what ReserveBytes is given

ASSUME CallablesAssumption ==
  /\ Kinds \subseteq [size : Nat, alignment : Nat \ {0}, trivial : BOOLEAN]
  /\ kHeaderSize \in Nat \ {0} /\ kPointerAlign \in Nat \ {0}
  /\ Reserves \subseteq Nat

VARIABLES
  callable_block,    \* which block of memory buffer_ has
  size, capacity,
  offsets_,
  headers,           \* header offset -> [kind, data_offset, id]
  home,              \* id -> where the callable was constructed: [block, offset]
  destroyed,         \* ids, in the order of their destruction
  pushed,            \* history: ids in the order of Push since the last Clear
  torn               \* history: ids of callables that were copied byte by byte

callable_vars == <<callable_block, size, capacity, offsets_, headers, home, destroyed, pushed, torn>>

AlignUp(offset, alignment) == ((offset + alignment - 1) \div alignment) * alignment

Ids == DOMAIN home
Blank == [i \in {} |-> 0]
CallablesInit ==
  /\ callable_block = 0 /\ size = 0 /\ capacity = 0
  /\ offsets_ = <<>> /\ headers = Blank /\ home = Blank
  /\ destroyed = <<>> /\ pushed = <<>> /\ torn = {}

\* A callable that is not trivially copyable is moved to its place in the block
\* and destroyed where it was; the bytes of the others are copied.
Relocate(blk) ==
  [id \in Ids |->
     IF \E o \in ToSet(offsets_) : headers[o].id = id /\ ~headers[o].kind.trivial
     THEN [home[id] EXCEPT !.block = blk] ELSE home[id]]

\* Mutant: the header follows the callable before it at once.
Unaligned(used) == used

HeaderOffset(used) == AlignUp(used, kPointerAlign)

PushCallable(kind) ==
  LET header == HeaderOffset(size)
      data == AlignUp(header + kHeaderSize, kind.alignment)
      required == data + kind.size
      grows == required > capacity
      id == Len(pushed) + Len(destroyed) + 1
      blk == IF grows THEN callable_block + 1 ELSE callable_block
  IN /\ Len(pushed) < MaxCallables
     /\ grows => callable_block < MaxMoves
     /\ callable_block' = blk
     /\ capacity' = IF grows THEN Max({required, capacity * 2}) ELSE capacity
     /\ home' = [i \in Ids \cup {id} |->
                   IF i = id THEN [block |-> blk, offset |-> data]
                   ELSE IF grows THEN Relocate(blk)[i] ELSE home[i]]
     /\ size' = required
     /\ headers' = [o \in DOMAIN headers \cup {header} |->
                      IF o = header THEN [kind |-> kind, data_offset |-> data - header, id |-> id] ELSE headers[o]]
     /\ offsets_' = Append(offsets_, header)
     /\ pushed' = Append(pushed, id)
     /\ UNCHANGED <<destroyed, torn>>

\* Clear, and the destructor: the last callable goes first.
ClearCallables ==
  /\ offsets_ # <<>> /\ Len(destroyed) < MaxCallables
  /\ destroyed' = destroyed \o Reverse([i \in DOMAIN offsets_ |-> headers[offsets_[i]].id])
  /\ size' = 0 /\ offsets_' = <<>> /\ pushed' = <<>>
  /\ UNCHANGED <<callable_block, capacity, headers, home, torn>>

\* The vector moves its bytes itself: nothing is relocated.
ReserveBytes(bytes) ==
  /\ bytes > capacity /\ callable_block < MaxMoves
  /\ callable_block' = callable_block + 1 /\ capacity' = bytes
  /\ torn' = torn \cup {headers[o].id : o \in {r \in ToSet(offsets_) : ~headers[r].kind.trivial}}
  /\ UNCHANGED <<size, offsets_, headers, home, destroyed, pushed>>

CallablesNext ==
  \/ \E kind \in Kinds : PushCallable(kind)
  \/ ClearCallables
  \/ \E bytes \in Reserves : ReserveBytes(bytes)

CallablesSpec == CallablesInit /\ [][CallablesNext]_callable_vars

-----------------------------------------------------------------------------
DataOf(o) == o + headers[o].data_offset

\* Invoke calls the callables in the order of their Push, none of them destroyed,
\* and each at the place where it was constructed last; but one that is not
\* trivially copyable and was in the buffer when Reserve or ReserveBytes moved it
\* is a copy, byte by byte, of what it was.
CallablesAreIntact ==
  /\ [i \in DOMAIN offsets_ |-> headers[offsets_[i]].id] = pushed
  /\ \A i \in DOMAIN offsets_ :
       LET h == headers[offsets_[i]]
       IN /\ home[h.id].offset = DataOf(offsets_[i])
          /\ h.kind.trivial \/ h.id \in torn \/ home[h.id].block = callable_block
          /\ h.id \notin ToSet(destroyed)

\* Headers and callables do not overlap, are aligned to what they hold and lie
\* within the buffer.
EntriesAreApart ==
  \A i \in DOMAIN offsets_ :
    LET o == offsets_[i]
    IN /\ o % kPointerAlign = 0 /\ DataOf(o) % headers[o].kind.alignment = 0
       /\ o + kHeaderSize <= DataOf(o)
       /\ DataOf(o) + headers[o].kind.size <= (IF i < Len(offsets_) THEN offsets_[i + 1] ELSE size)
       /\ size <= capacity

\* Callables survive, apart, whatever is pushed, cleared and reserved, but those
\* that were in the buffer when Reserve or ReserveBytes moved it.
CallablesSurvive == CallablesAreIntact /\ EntriesAreApart
===============================================================================
