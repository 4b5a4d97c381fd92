---------------------------- MODULE StackAllocator ----------------------------
(***************************************************************************)
(* StackAllocator: bump allocation in the newest block of a chain, with a  *)
(* header before each allocation that lets the newest one be taken back.   *)
(* Sizes and offsets count units of the header's size.                     *)
(***************************************************************************)
EXTENDS Counting, SequencesExt

CONSTANTS StackThreads,
          StackRequests,     \* [size, alignment] of allocate
          FirstStackCapacity, NextStackCapacity(_, _), \* initial_capacity_, growth_
          MaxTotal,          \* bound: capacity of the chain
          Unsynchronized     \* whether deallocate runs beside other calls

ASSUME StackAssumption ==
  /\ IsFiniteSet(StackThreads)
  /\ StackRequests \subseteq [size : Nat, alignment : Nat \ {0}]
  /\ MaxTotal \in Nat /\ FirstStackCapacity \in 0 .. MaxTotal
  /\ \A c \in 0 .. MaxTotal, r \in StackRequests : NextStackCapacity(c, r.size + r.alignment + 1) \in Nat

VARIABLES stack_blocks,      \* [capacity, offset], oldest first: the last is the head
          stack_growing,     \* grow_state_
          allocation_count_, total_allocated_, \* below 0: the counter has wrapped
          stack_call,        \* per thread: where its call is
          marker,            \* a marker the caller keeps: [block, offset, live]
          \* history:
          live,              \* allocations neither freed nor rewound over
          rewound            \* RewindToMarker was called since the last Reset

stack_vars == <<stack_blocks, stack_growing, allocation_count_, total_allocated_, stack_call, marker, live, rewound>>

Header == 1
NoMarker == [block |-> 0, offset |-> 0, live |-> {}]
NoCall == [at |-> "idle"]
HeadBlock == Len(stack_blocks)
StackGoes(t, c) == stack_call' = [stack_call EXCEPT ![t] = c]
StackAt(t, at) == stack_call[t].at = at

CalculatePadding(offset, alignment) == (-offset) % alignment
CalculatePaddingWithHeader(offset, alignment) ==
  LET padding == CalculatePadding(offset, alignment) IN
  IF padding < Header
  THEN padding + (Header - padding) + CalculatePadding(Header - padding, alignment)
  ELSE padding

Consumed(offset, r) == CalculatePaddingWithHeader(offset, r.alignment) + r.size
NeededCapacity(r) == r.size + r.alignment + Header

StackInit ==
  /\ stack_blocks = <<[capacity |-> FirstStackCapacity, offset |-> 0]>>
  /\ stack_growing = FALSE
  /\ allocation_count_ = 0 /\ total_allocated_ = 0
  /\ stack_call = [t \in StackThreads |-> NoCall]
  /\ marker = NoMarker /\ live = {} /\ rewound = FALSE

(* What a caller that synchronises deallocate lets run beside it: nothing. *)
Admitted == Unsynchronized \/ \A t \in StackThreads : ~StackAt(t, "store")
StackQuiet == \A t \in StackThreads : stack_call[t].at \in {"idle", "aborted"}

(* do_allocate, and each turn of the loop of TryReserve: load the offset.  *)
StackAllocate(t, r) ==
  /\ stack_call[t] = NoCall /\ Admitted
  /\ StackGoes(t, [at |-> "reserve", request |-> r, block |-> HeadBlock, offset |-> stack_blocks[HeadBlock].offset, grown |-> FALSE])
  /\ UNCHANGED <<stack_blocks, stack_growing, allocation_count_, total_allocated_, marker, live, rewound>>

Reserved(t) == LET c == stack_call[t] IN
  [block |-> c.block, from |-> c.offset, to |-> c.offset + Consumed(c.offset, c.request)]
StackFits(t) == Reserved(t).to <= stack_blocks[stack_call[t].block].capacity

\* Mutant: the offset is stored without comparing it.
ReserveUnchecked(t) ==
  /\ StackAt(t, "reserve") /\ StackFits(t)
  /\ stack_blocks' = [stack_blocks EXCEPT ![stack_call[t].block].offset = Reserved(t).to]
  /\ live' = live \cup {Reserved(t)}
  /\ StackGoes(t, [at |-> "count", consumed |-> Reserved(t).to - Reserved(t).from, grown |-> stack_call[t].grown])
  /\ UNCHANGED <<stack_growing, allocation_count_, total_allocated_, marker, rewound>>

TryReserve(t) ==
  /\ StackAt(t, "reserve") /\ StackFits(t)
  /\ LET r == Reserved(t) IN
     IF stack_blocks[r.block].offset = r.from
     THEN /\ stack_blocks' = [stack_blocks EXCEPT ![r.block].offset = r.to]
          /\ live' = live \cup {r}
          /\ StackGoes(t, [at |-> "count", consumed |-> r.to - r.from, grown |-> stack_call[t].grown])
     ELSE /\ StackGoes(t, [stack_call[t] EXCEPT !.offset = stack_blocks[r.block].offset])
          /\ UNCHANGED <<stack_blocks, live>>
  /\ UNCHANGED <<stack_growing, allocation_count_, total_allocated_, marker, rewound>>

CountStackAllocation(t) ==
  /\ StackAt(t, "count")
  /\ allocation_count_' = allocation_count_ + 1
  /\ total_allocated_' = total_allocated_ + stack_call[t].consumed
  /\ StackGoes(t, NoCall)
  /\ UNCHANGED <<stack_blocks, stack_growing, marker, live, rewound>>

(* A full block: PmrFailFast when the chain may not grow or has grown      *)
(* already; otherwise one thread appends a block and the others wait. The  *)
(* capacity comes from the head that was loaded before the growth was      *)
(* claimed.                                                                *)
Full(t) == StackAt(t, "reserve") /\ ~StackFits(t)

EnsureStackCapacity(t) ==
  /\ Full(t)
  /\ LET needed == NeededCapacity(stack_call[t].request)
         desired == NextStackCapacity(stack_blocks[HeadBlock].capacity, needed) IN
     StackGoes(t, IF stack_call[t].grown \/ desired < needed THEN [at |-> "aborted"]
             ELSE [at |-> "claim", request |-> stack_call[t].request, capacity |-> desired])
  /\ UNCHANGED <<stack_blocks, stack_growing, allocation_count_, total_allocated_, marker, live, rewound>>

ClaimStackGrowth(t) ==
  /\ StackAt(t, "claim")
  /\ StackGoes(t, [at |-> IF stack_growing THEN "wait" ELSE "append",
                   request |-> stack_call[t].request, capacity |-> stack_call[t].capacity])
  /\ stack_growing' = TRUE
  /\ UNCHANGED <<stack_blocks, allocation_count_, total_allocated_, marker, live, rewound>>

AfterGrowth(t, chain) ==
  StackGoes(t, [at |-> "reserve", request |-> stack_call[t].request, block |-> Len(chain),
           offset |-> Last(chain).offset, grown |-> TRUE])

ChainCapacity(chain) == Cardinality(Units([b \in DOMAIN chain |-> chain[b].capacity]))

AppendBlock(t) ==
  /\ StackAt(t, "append")
  /\ ChainCapacity(stack_blocks) + stack_call[t].capacity <= MaxTotal
  /\ stack_blocks' = Append(stack_blocks, [capacity |-> stack_call[t].capacity, offset |-> 0])
  /\ stack_growing' = FALSE
  /\ AfterGrowth(t, stack_blocks')
  /\ UNCHANGED <<allocation_count_, total_allocated_, marker, live, rewound>>

CreateBlockFails(t) ==
  /\ StackAt(t, "append")
  /\ stack_growing' = FALSE /\ StackGoes(t, [at |-> "aborted"])
  /\ UNCHANGED <<stack_blocks, allocation_count_, total_allocated_, marker, live, rewound>>

StackWaited(t) ==
  /\ StackAt(t, "wait") /\ ~stack_growing
  /\ IF Last(stack_blocks).capacity >= NeededCapacity(stack_call[t].request)
     THEN AfterGrowth(t, stack_blocks) ELSE StackGoes(t, [at |-> "aborted"])
  /\ UNCHANGED <<stack_blocks, stack_growing, allocation_count_, total_allocated_, marker, live, rewound>>

(* do_deallocate takes back the newest allocation of the head block: it    *)
(* compares the offset, then stores it. Anything else it leaves.           *)
IsNewest(a) == a.block = HeadBlock /\ a.to = stack_blocks[HeadBlock].offset

Deallocate(t, a) ==
  /\ stack_call[t] = NoCall /\ a \in live /\ (Unsynchronized \/ StackQuiet)
  /\ live' = live \ {a}
  /\ IF IsNewest(a) THEN StackGoes(t, [at |-> "store", allocation |-> a]) ELSE UNCHANGED stack_call
  /\ UNCHANGED <<stack_blocks, stack_growing, allocation_count_, total_allocated_, marker, rewound>>

StoreOffset(t) ==
  /\ StackAt(t, "store")
  /\ LET a == stack_call[t].allocation IN
     /\ stack_blocks' = [stack_blocks EXCEPT ![a.block].offset = a.from]
     /\ total_allocated_' = total_allocated_ - (a.to - a.from)
  /\ allocation_count_' = allocation_count_ - 1
  /\ StackGoes(t, NoCall)
  /\ UNCHANGED <<stack_growing, marker, live, rewound>>

(* The marker operations and Reset, which the caller serialises.           *)
GetMarker ==
  /\ StackQuiet
  /\ marker' = [block |-> HeadBlock, offset |-> stack_blocks[HeadBlock].offset, live |-> live]
  /\ UNCHANGED <<stack_blocks, stack_growing, allocation_count_, total_allocated_, stack_call, live, rewound>>

RewindToMarker ==
  /\ StackQuiet /\ marker # NoMarker
  /\ stack_blocks' = [SubSeq(stack_blocks, 1, marker.block) EXCEPT ![marker.block].offset = marker.offset]
  /\ allocation_count_' = 0 /\ total_allocated_' = marker.offset
  /\ live' = live \cap marker.live /\ rewound' = TRUE
  /\ UNCHANGED <<stack_growing, stack_call, marker>>

ResetStack ==
  /\ StackQuiet
  /\ stack_blocks' = <<[capacity |-> FirstStackCapacity, offset |-> 0]>>
  /\ allocation_count_' = 0 /\ total_allocated_' = 0
  /\ live' = {} /\ marker' = NoMarker /\ rewound' = FALSE
  /\ UNCHANGED <<stack_growing, stack_call>>

StackNext ==
  \/ \E t \in StackThreads :
       \/ \E r \in StackRequests : StackAllocate(t, r)
       \/ TryReserve(t) \/ CountStackAllocation(t) \/ EnsureStackCapacity(t)
       \/ ClaimStackGrowth(t) \/ AppendBlock(t) \/ CreateBlockFails(t) \/ StackWaited(t)
       \/ \E a \in live : Deallocate(t, a)
       \/ StoreOffset(t)
  \/ GetMarker \/ RewindToMarker \/ ResetStack

StackSpec == StackInit /\ [][StackNext]_stack_vars
----------------------------------------------------------------------------
(* What one caller was given is given to no other until it is freed or the *)
(* stack is rewound over it: allocations neither overlap each other nor    *)
(* the space a block still has to give.                                    *)
AllocationsAreSeparate ==
  /\ \A a, b \in live : a = b \/ a.block # b.block \/ a.to <= b.from \/ b.to <= a.from
  /\ \A a \in live : a.to <= stack_blocks[a.block].offset

(* Empty() is "true when no active allocations remain": as long as nobody  *)
(* rewound to a marker, an allocator that says so has none.                *)
EmptyTells == StackQuiet /\ ~rewound /\ allocation_count_ = 0 => live = {}

(* total_allocated_ counts the space the chain has given out and not taken *)
(* back, whatever the threads did in between; a rewind forgets the blocks  *)
(* below the marker's.                                                     *)
SpaceIsCounted ==
  StackQuiet /\ ~rewound => total_allocated_ =
    Cardinality(Units([b \in DOMAIN stack_blocks |-> stack_blocks[b].offset]))

(* What the stack gave out is apart, "empty" tells the truth, and the     *)
(* space it has given out is counted.                                      *)
StackAllocations == AllocationsAreSeparate /\ EmptyTells /\ SpaceIsCounted
=============================================================================
