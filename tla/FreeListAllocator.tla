-------------------------- MODULE FreeListAllocator --------------------------
(***************************************************************************)
(* FreeListAllocator: allocations of any size out of an address-ordered    *)
(* list of free blocks, under a mutex: a call is one step. Addresses and   *)
(* sizes count units of four bytes.                                        *)
(***************************************************************************)
EXTENDS Counting, FiniteSetsExt

CONSTANTS AllocateRequests,  \* [size, alignment] of allocate
          FirstCapacity, NextRegionCapacity(_, _), \* initial_capacity_, growth_
          MaxCapacity,       \* growth_.max_capacity
          RegionBases,       \* where the system may put a region
          MaxLive            \* bound: allocations at once

VARIABLES regions_,          \* their buffers: [at, size]
          free_list_,        \* [at, size]
          used_memory_,
          allocated,         \* history: [at, size, padding, alignment] of each live allocation
          out_of_memory      \* PmrFailFast ended the process

list_vars == <<regions_, free_list_, used_memory_, allocated, out_of_memory>>

AllocationHeader == 4
FreeBlockHeader == 4
BlockAlignment == 2          \* alignof(FreeBlockHeader)
MinSplit == FreeBlockHeader + BlockAlignment
MinAlignment == 4            \* kMinAlignment
RegionHeader == 16           \* of kDefaultAlignment bytes, before its buffer

(* Alignments are powers of two, as do_allocate demands.                   *)
ASSUME FreeListAssumption ==
  /\ AllocateRequests \subseteq [size : Nat \ {0}, alignment : Nat \ {0}]
  /\ \A r \in AllocateRequests : r.alignment % MinAlignment = 0 \/ MinAlignment % r.alignment = 0
  /\ MaxCapacity \in Nat /\ FirstCapacity \in (FreeBlockHeader + 1) .. MaxCapacity
  /\ \A c \in 0 .. MaxCapacity, r \in AllocateRequests :
       NextRegionCapacity(c, c + r.size + r.alignment) \in 0 .. MaxCapacity
  /\ RegionBases \subseteq Nat

BlockPadding(at, alignment) == (-at) % alignment
HeaderPadding(at, alignment) ==
  LET padding == BlockPadding(at, alignment)
      missing == AllocationHeader - padding
  IN  IF missing > 0 THEN padding + missing + BlockPadding(missing, alignment) ELSE padding

BlockEnd(b) == b.at + b.size
Extent(at, size) == [at |-> at, size |-> size]
SizeOf(S) == Cardinality(Units([b \in S |-> b.size]))

(* The blocks that touch the new one become one with it.                   *)
InsertAndCoalesceLocked(free, b) ==
  LET next == {f \in free : f.at = BlockEnd(b)}
      prev == {f \in free : BlockEnd(f) = b.at}
      from == Min({b.at} \cup {f.at : f \in prev})
      to == Max({BlockEnd(b)} \cup {BlockEnd(f) : f \in next})
  IN  (free \ (next \cup prev)) \cup {Extent(from, to - from)}

ListInit ==
  /\ \E base \in RegionBases : regions_ = {Extent(base, FirstCapacity)}
  /\ free_list_ = regions_
  /\ used_memory_ = 0 /\ allocated = {} /\ out_of_memory = FALSE

----------------------------------------------------------------------------
(* AllocateLocked walks the list in the order of the addresses and keeps   *)
(* the block that needs the least, not the least block; it stops at one it *)
(* would use up.                                                           *)
Alignment(r) == Max({r.alignment, MinAlignment})
PaddingOf(b, r) == HeaderPadding(b.at, Alignment(r))
Needed(b, r) == PaddingOf(b, r) + r.size

Best(free, r) ==
  LET fitting == {b \in free : b.size >= Needed(b, r)}
      improving == {b \in fitting : \A a \in fitting : a.at < b.at => Needed(a, r) > Needed(b, r)}
      exact == {b \in improving : b.size = Needed(b, r)}
  IN  IF exact # {} THEN {b \in exact : \A e \in exact : b.at <= e.at}
      ELSE {b \in improving : \A i \in improving : i.at <= b.at}

\* Mutant: the padding before the rest counts as part of it.
SplitUnaligned(b, needed) ==
  IF b.size - needed >= MinSplit
  THEN {Extent(b.at + needed + BlockPadding(b.at + needed, BlockAlignment), b.size - needed)} ELSE {}

(* What is left of the block, if it is large enough to be one; a smaller   *)
(* rest is lost, for the allocation does not count it.                     *)
Split(b, needed) ==
  LET pad == BlockPadding(b.at + needed, BlockAlignment)
      rest == b.size - needed
  IN  IF rest >= MinSplit /\ rest - pad > FreeBlockHeader
      THEN {Extent(b.at + needed + pad, rest - pad)} ELSE {}

TakeFrom(free, b, r) ==
  /\ free_list_' = (free \ {b}) \cup Split(b, Needed(b, r))
  /\ allocated' = allocated \cup {[at |-> b.at, size |-> Needed(b, r), padding |-> PaddingOf(b, r), alignment |-> r.alignment]}
  /\ used_memory_' = used_memory_ + Needed(b, r)

AllocateLocked(r) ==
  /\ \E b \in Best(free_list_, r) : TakeFrom(free_list_, b, r)
  /\ UNCHANGED <<regions_, out_of_memory>>

PmrFailFast == out_of_memory' = TRUE /\ UNCHANGED <<regions_, free_list_, used_memory_, allocated>>

(* GrowLocked and the second attempt: the region is as large as the growth *)
(* policy says for size + alignment, which need not do.                    *)
ListCapacity == SizeOf(regions_)

(* A region is one allocation with the header before its buffer.           *)
CreateRegion(capacity) ==
  {region \in {Extent(base, capacity) : base \in RegionBases} :
     \A other \in regions_ : \/ BlockEnd(other) + RegionHeader <= region.at
                            \/ BlockEnd(region) + RegionHeader <= other.at}

GrowLocked(r) ==
  /\ Best(free_list_, r) = {}
  /\ LET capacity == NextRegionCapacity(ListCapacity, ListCapacity + r.size + r.alignment) - ListCapacity IN
     IF capacity <= 0 THEN PmrFailFast
     ELSE \E region \in CreateRegion(capacity) :
            LET free == InsertAndCoalesceLocked(free_list_, region) IN
            /\ regions_' = regions_ \cup {region}
            /\ IF Best(free, r) = {}
               THEN out_of_memory' = TRUE /\ free_list_' = free /\ UNCHANGED <<used_memory_, allocated>>
               ELSE \E b \in Best(free, r) : TakeFrom(free, b, r) /\ UNCHANGED out_of_memory

do_allocate(r) ==
  /\ ~out_of_memory /\ Cardinality(allocated) < MaxLive
  /\ \/ AllocateLocked(r)
     \/ GrowLocked(r)
     \/ Best(free_list_, r) = {} /\ PmrFailFast  \* CreateRegion fails

do_deallocate(a) ==
  /\ ~out_of_memory
  /\ free_list_' = InsertAndCoalesceLocked(free_list_, Extent(a.at, a.size))
  /\ allocated' = allocated \ {a}
  /\ used_memory_' = used_memory_ - a.size
  /\ UNCHANGED <<regions_, out_of_memory>>

(* Reset initialises the regions one by one, in an empty list.             *)
ResetList ==
  /\ ~out_of_memory
  /\ free_list_' = regions_
  /\ used_memory_' = 0 /\ allocated' = {}
  /\ UNCHANGED <<regions_, out_of_memory>>

ListNext ==
  \/ \E r \in AllocateRequests : do_allocate(r)
  \/ \E a \in allocated : do_deallocate(a)
  \/ ResetList

ListSpec == ListInit /\ [][ListNext]_list_vars
----------------------------------------------------------------------------
(* Memory has one owner: allocations and free blocks lie inside a region   *)
(* and apart from each other; what a caller was given is aligned as it     *)
(* asked and has room for the header before it.                            *)
MemoryHasOneOwner ==
  /\ \A a, b \in {Extent(x.at, x.size) : x \in allocated} \cup free_list_ :
       a = b \/ BlockEnd(a) <= b.at \/ BlockEnd(b) <= a.at
  /\ Cardinality({x.at : x \in allocated}) = Cardinality(allocated)
  /\ \A b \in allocated \cup free_list_ :
       \E r \in regions_ : r.at <= b.at /\ BlockEnd(b) <= BlockEnd(r)
  /\ \A a \in allocated : (a.at + a.padding) % a.alignment = 0 /\ a.padding >= AllocationHeader

(* Freed neighbours become one block, so that what was split can serve a   *)
(* large request again: no free block ends where another begins.           *)
FreeBlocksAreApart == \A a, b \in free_list_ : BlockEnd(a) # b.at

(* FreeMemory() promises no less than the free list has, and used_memory_  *)
(* comes back to what the live allocations take.                           *)
UsedIsAccounted ==
  /\ used_memory_ = SizeOf(allocated)
  /\ SizeOf(free_list_) <= ListCapacity - used_memory_

(* Memory has one owner, freed neighbours are joined, and the used memory  *)
(* is counted.                                                             *)
FreeListAllocations == MemoryHasOneOwner /\ FreeBlocksAreApart /\ UsedIsAccounted
=============================================================================
