---------------------------- MODULE MemoryProofs -----------------------------
(***************************************************************************)
(* Proofs about the allocators.  ArenaAlloc, for every set of threads,     *)
(* every request and growth policy, and any number of allocations: its     *)
(* memory, its chain of blocks and its books.  PoolAllocator, for any      *)
(* number of blocks, chunks and threads: its free list.  StackAllocator,   *)
(* for any threads, requests and growth: its allocations, its marker and   *)
(* its counts.  FreeListAllocator, for any requests, regions and growth:   *)
(* its free blocks and its books.                                          *)
(***************************************************************************)
EXTENDS ArenaAlloc, PoolAllocator, StackAllocator, FreeListAllocator, FiniteSetTheorems, SequenceTheorems, NaturalsInduction, TLAPS

\* A thread that has a block in hand has one of the chain, and one that is
\* not allocating has none: Reset takes none away from anybody.
BlockInHand ==
  \A t \in Threads :
    /\ pc[t] = "idle" => block[t] = NoBlock
    /\ pc[t] \in {"first", "again", "publish", "count"} => block[t] \in 1 .. Len(blocks)

\* The offset of a block is within the block, and everything that was given
\* away lies below it.
BelowOffset ==
  /\ \A b \in 1 .. Len(blocks) : blocks[b].offset <= blocks[b].capacity
  /\ \A r \in ranges : /\ r.block \in 1 .. Len(blocks)
                       /\ r.from <= r.to
                       /\ r.to <= blocks[r.block].offset

Disjoint ==
  \A r, s \in ranges : r # s /\ r.block = s.block => r.to <= s.from \/ s.to <= r.from

MemoryInv == TypeOK /\ BlockInHand /\ BelowOffset /\ Disjoint

\* The state says that somebody grows for as long as somebody does.
GrowerMarked ==
  /\ SingleGrower
  /\ Running => \A t \in Threads : pc[t] \in Growing => grow_state = "growing"

-------------------------------------------------------------------------------
\* The padding of a request is a number, so the space it is given begins at or
\* after the offset that was loaded and ends after its beginning.
LEMMA EndAfterOffset ==
  ASSUME ArenaAssumption, TypeOK, NEW t \in Threads, block[t] \in 1 .. Len(blocks)
  PROVE  /\ Padding(t) \in Nat
         /\ Aligned(t) \in Nat
         /\ End(t) \in Nat
         /\ observed[t] <= Aligned(t)
         /\ Aligned(t) <= End(t)
<1> DEFINE a == request[t].alignment
           x == blocks[block[t]].base + observed[t]
<1>1. a \in Nat \ {0} /\ request[t].bytes \in Nat /\ observed[t] \in Nat
  <2>1. request[t] \in [bytes : Nat \ {0}, alignment : Nat \ {0}]
    BY DEF ArenaAssumption, TypeOK
  <2> QED
    BY <2>1 DEF TypeOK
<1>2. x \in Nat
  <2>1. blocks[block[t]] \in Block
    BY ElementOfSeq DEF TypeOK
  <2>2. blocks[block[t]].base \in Nat
    BY <2>1 DEF ArenaAssumption, Block
  <2> QED
    BY <1>1, <2>2
<1> DEFINE pad == (a - (x % a)) % a
<1> HIDE DEF a, x
<1>3. x % a \in 0 .. a - 1
  BY <1>1, <1>2
<1>4. pad \in Nat
  <2>1. a - (x % a) \in Nat
    BY <1>1, <1>3
  <2> QED
    BY <1>1, <2>1
<1>5. Padding(t) = pad
  BY DEF Padding, a, x
<1> HIDE DEF pad
<1>6. Aligned(t) = observed[t] + pad /\ End(t) = observed[t] + pad + request[t].bytes
  BY <1>5 DEF Aligned, End
<1> DEFINE o == observed[t]
           n == request[t].bytes
<1>7. o \in Nat /\ n \in Nat
  BY <1>1
<1>8. Aligned(t) = o + pad /\ End(t) = o + pad + n
  BY <1>6
<1> HIDE DEF o, n
<1>9. o + pad \in Nat /\ o + pad + n \in Nat /\ o <= o + pad /\ o + pad <= o + pad + n
  BY <1>4, <1>7
<1> QED
  BY <1>4, <1>5, <1>8, <1>9 DEF o

\* Whatever the growth policy, the capacity of a new block is a number.
LEMMA CapacityIsNat ==
  ASSUME ArenaAssumption, growth \in Growths, NEW current \in Nat, NEW min \in Nat,
         NEW c \in NextCapacity(current, min)
  PROVE  c \in Nat
<1>1. growth.step \in Nat /\ growth.max_capacity \in Nat
  BY DEF ArenaAssumption
<1>2. \A k \in Nat, s \in Nat : current + k * s \in Nat /\ current * k \in Nat
  OBVIOUS
<1>3. Reachable(current, min) \subseteq Nat
  BY <1>1, <1>2 DEF Reachable
<1> QED
  BY <1>1, <1>3 DEF NextCapacity, Smaller

-------------------------------------------------------------------------------
(***************************************************************************)
(* Memory: types, and no space is given away twice.                        *)
(***************************************************************************)

LEMMA InitMemory ==
  ASSUME ArenaAssumption, Init
  PROVE  MemoryInv
<1>1. PICK base \in Bases : blocks = <<NewBlock(InitialCapacity, base)>>
  BY DEF Init
<1>2. NewBlock(InitialCapacity, base) \in Block
  BY DEF NewBlock, NoBlock, Block, ArenaAssumption
<1>3. blocks \in Seq(Block) /\ Len(blocks) = 1 /\ blocks[1] = NewBlock(InitialCapacity, base)
  BY <1>1, <1>2
<1>4. NoRequest \in Requests
  BY DEF NoRequest, ArenaAssumption
<1>5. TypeOK
  BY <1>3, <1>4 DEF Init, TypeOK, NoStats, NoBlock, PCs, ArenaAssumption
<1>6. BlockInHand
  BY DEF Init, BlockInHand
<1>7. BelowOffset
  BY <1>3 DEF Init, BelowOffset, NewBlock, ArenaAssumption
<1> QED
  BY <1>5, <1>6, <1>7 DEF MemoryInv, Disjoint, Init

\* The new space begins at the offset, above everything given away before,
\* because the offset is still the one the thread has loaded.
LEMMA ReserveKeepsMemory ==
  ASSUME ArenaAssumption, MemoryInv, NEW t \in Threads, Reserve(t)
  PROVE  MemoryInv'
<1> DEFINE b == block[t]
           new == [thread |-> t, block |-> b, from |-> Aligned(t), to |-> End(t)]
<1> USE DEF MemoryInv
<1>1. b \in 1 .. Len(blocks)
  BY DEF Reserve, Trying, BlockInHand
<1>2. /\ Padding(t) \in Nat /\ Aligned(t) \in Nat /\ End(t) \in Nat
      /\ observed[t] <= Aligned(t) /\ Aligned(t) <= End(t)
  BY <1>1, EndAfterOffset
<1>3. blocks[b].offset = observed[t] /\ End(t) <= blocks[b].capacity
  BY DEF Reserve, Fits
<1>4. /\ blocks' = [blocks EXCEPT ![b].offset = End(t)]
      /\ ranges' = ranges \cup {new}
      /\ UNCHANGED <<growth, head, grow_state, total_capacity, block_count, stats, failure,
                     request, block, observed>>
      /\ pc' = [pc EXCEPT ![t] = "reserved"]
      /\ value' = [value EXCEPT ![t] = Padding(t)]
  BY DEF Reserve, TakeSpace, Goto, chainVars
<1>5. /\ Len(blocks') = Len(blocks) /\ blocks' \in Seq(Block)
      /\ blocks'[b].offset = End(t)
      /\ \A c \in 1 .. Len(blocks) : /\ blocks'[c].capacity = blocks[c].capacity
                                     /\ c # b => blocks'[c] = blocks[c]
  <2>1. blocks \in Seq(Block) /\ \A c \in 1 .. Len(blocks) : blocks[c] \in Block
    BY ElementOfSeq DEF TypeOK
  <2>2. [blocks[b] EXCEPT !.offset = End(t)] \in Block
    BY <1>1, <1>2, <2>1 DEF Block
  <2>3. blocks' = [blocks EXCEPT ![b] = [blocks[b] EXCEPT !.offset = End(t)]]
    BY <1>4
  <2> DEFINE e == [blocks[b] EXCEPT !.offset = End(t)]
  <2>4. e.offset = End(t) /\ e.capacity = blocks[b].capacity
    BY <1>1, <2>1 DEF Block
  <2> HIDE DEF b, e
  <2>5. /\ blocks' \in Seq(Block) /\ Len(blocks') = Len(blocks)
        /\ \A c \in 1 .. Len(blocks) : blocks'[c] = IF c = b THEN e ELSE blocks[c]
    <3>1. e \in Block /\ b \in 1 .. Len(blocks) /\ blocks' = [blocks EXCEPT ![b] = e]
      BY <1>1, <2>2, <2>3 DEF e
    <3> QED
      BY <2>1, <3>1, ExceptSeq
  <2>6. blocks'[b].offset = End(t)
    BY <1>1, <2>4, <2>5
  <2>7. \A c \in 1 .. Len(blocks) : blocks'[c].capacity = blocks[c].capacity /\ (c # b => blocks'[c] = blocks[c])
    BY <2>4, <2>5
  <2> QED
    BY <2>5, <2>6, <2>7
<1>6. new \in Space
  BY <1>1, <1>2 DEF Space
<1>7. TypeOK'
  BY <1>2, <1>4, <1>5, <1>6 DEF TypeOK, PCs
<1>8. BlockInHand'
  BY <1>4, <1>5 DEF BlockInHand, TypeOK
<1>9. BelowOffset'
  <2>1. \A c \in 1 .. Len(blocks') : blocks'[c].offset <= blocks'[c].capacity
    BY <1>3, <1>5 DEF BelowOffset
  <2>2. ASSUME NEW r \in ranges
        PROVE  /\ r.block \in 1 .. Len(blocks')
               /\ r.from <= r.to
               /\ r.to <= blocks'[r.block].offset
    <3>1. /\ r.block \in 1 .. Len(blocks) /\ r.from <= r.to
          /\ r.to <= blocks[r.block].offset /\ r.to \in Nat
      BY DEF BelowOffset, TypeOK, Space
    <3>2. CASE r.block = b
      <4>1. observed[t] \in Nat
        BY DEF TypeOK
      <4>2. r.to <= observed[t] /\ blocks'[r.block].offset = End(t)
        BY <3>1, <3>2, <1>3, <1>5
      <4> QED
        BY <3>1, <4>1, <4>2, <1>2, <1>5
    <3>3. CASE r.block # b
      BY <3>1, <3>3, <1>5
    <3> QED
      BY <3>2, <3>3
  <2>3. new.block \in 1 .. Len(blocks') /\ new.from <= new.to /\ new.to <= blocks'[new.block].offset
    BY <1>1, <1>2, <1>5
  <2> QED
    BY <2>1, <2>2, <2>3, <1>4 DEF BelowOffset
<1>10. Disjoint'
  <2>1. \A r \in ranges : r.block = b => r.to <= new.from
    <3> SUFFICES ASSUME NEW r \in ranges, r.block = b
                 PROVE  r.to <= Aligned(t)
      OBVIOUS
    <3>1. r.to <= observed[t]
      BY <1>3 DEF BelowOffset
    <3>2. r.to \in Nat /\ observed[t] \in Nat
      BY DEF TypeOK, Space
    <3> QED
      BY <1>2, <3>1, <3>2
  <2> QED
    BY <2>1, <1>4 DEF Disjoint
<1> QED
  BY <1>7, <1>8, <1>9, <1>10

LEMMA CreateKeepsMemory ==
  ASSUME ArenaAssumption, MemoryInv, NEW t \in Threads, CreateBlock(t)
  PROVE  MemoryInv'
<1> USE DEF MemoryInv
<1>1. PICK base \in Bases : blocks' = Append(blocks, NewBlock(value[t], base))
  BY DEF CreateBlock
<1>2. NewBlock(value[t], base) \in Block
  BY DEF NewBlock, NoBlock, Block, TypeOK
<1>3. /\ blocks' \in Seq(Block) /\ Len(blocks') = Len(blocks) + 1 /\ Len(blocks) \in Nat
      /\ \A c \in 1 .. Len(blocks) : blocks'[c] = blocks[c]
      /\ blocks'[Len(blocks) + 1] = NewBlock(value[t], base)
  <2> DEFINE e == NewBlock(value[t], base)
  <2>1. blocks \in Seq(Block) /\ Len(blocks) \in Nat
    BY DEF TypeOK
  <2> HIDE DEF e
  <2>2. e \in Block /\ blocks' = Append(blocks, e)
    BY <1>1, <1>2 DEF e
  <2>3. /\ blocks' \in Seq(Block) /\ Len(blocks') = Len(blocks) + 1
        /\ \A c \in 1 .. Len(blocks) : blocks'[c] = blocks[c]
        /\ blocks'[Len(blocks) + 1] = e
    BY <2>1, <2>2, AppendProperties
  <2> QED
    BY <2>1, <2>3 DEF e
<1>4. TypeOK'
  <2>1. /\ block' = [block EXCEPT ![t] = Len(blocks) + 1]
        /\ pc' = [pc EXCEPT ![t] = "publish"]
        /\ UNCHANGED <<growth, head, grow_state, total_capacity, block_count, stats, failure,
                       request, observed, value, ranges>>
    BY DEF CreateBlock, Goto, chainVars
  <2>2. block' \in [Threads -> 0 .. Len(blocks')]
    BY <1>3, <2>1 DEF TypeOK
  <2>3. head' \in 1 .. Len(blocks')
    BY <1>3, <2>1 DEF TypeOK
  <2> QED
    BY <1>3, <2>1, <2>2, <2>3 DEF TypeOK, PCs
<1>5. BlockInHand'
  <2>1. block' = [block EXCEPT ![t] = Len(blocks) + 1] /\ pc' = [pc EXCEPT ![t] = "publish"]
    BY DEF CreateBlock, Goto
  <2>2. block'[t] \in 1 .. Len(blocks') /\ pc'[t] = "publish"
    BY <1>3, <2>1 DEF TypeOK
  <2>3. \A u \in Threads \ {t} : block'[u] = block[u] /\ pc'[u] = pc[u]
    BY <2>1 DEF TypeOK
  <2> QED
    BY <1>3, <2>2, <2>3 DEF BlockInHand
<1>6. BelowOffset'
  <2>1. \A c \in 1 .. Len(blocks') : c \in 1 .. Len(blocks) \/ c = Len(blocks) + 1
    BY <1>3
  <2>2. value[t] \in Nat /\ ranges' = ranges
    BY DEF CreateBlock, TypeOK
  <2>3. \A c \in 1 .. Len(blocks') : blocks'[c].offset <= blocks'[c].capacity
    <3>1. \A c \in 1 .. Len(blocks) : blocks'[c].offset <= blocks'[c].capacity
      BY <1>3 DEF BelowOffset
    <3>2. /\ blocks'[Len(blocks) + 1].offset = 0
          /\ blocks'[Len(blocks) + 1].capacity = value[t]
      BY <1>3 DEF NewBlock
    <3>3. blocks'[Len(blocks) + 1].offset <= blocks'[Len(blocks) + 1].capacity
      BY <2>2, <3>2
    <3> QED
      BY <2>1, <3>1, <3>3
  <2>4. ASSUME NEW r \in ranges'
        PROVE  /\ r.block \in 1 .. Len(blocks')
               /\ r.from <= r.to
               /\ r.to <= blocks'[r.block].offset
    <3>1. r.block \in 1 .. Len(blocks) /\ r.from <= r.to /\ r.to <= blocks[r.block].offset
      BY <2>2, <2>4 DEF BelowOffset
    <3> QED
      BY <1>3, <3>1
  <2> QED
    BY <2>3, <2>4 DEF BelowOffset
<1>7. Disjoint'
  BY DEF CreateBlock, Disjoint
<1> QED
  BY <1>4, <1>5, <1>6, <1>7

LEMMA PublishKeepsMemory ==
  ASSUME ArenaAssumption, MemoryInv, NEW t \in Threads, PublishBlock(t)
  PROVE  MemoryInv'
<1> USE DEF MemoryInv
<1>1. block[t] \in 1 .. Len(blocks)
  BY DEF PublishBlock, At, BlockInHand
<1>2. blocks \in Seq(Block) /\ \A c \in 1 .. Len(blocks) : blocks[c] \in Block
  BY ElementOfSeq DEF TypeOK
<1>3. [blocks[block[t]] EXCEPT !.next = head] \in Block
  <2>1. Len(blocks) \in Nat /\ head \in Nat /\ blocks[block[t]] \in Block
    <3>1. blocks \in Seq(Block) /\ head \in 1 .. Len(blocks)
      BY DEF TypeOK
    <3> QED
      BY <1>1, <1>2, <3>1
  <2> QED
    BY <2>1 DEF Block
<1>4. blocks' = [blocks EXCEPT ![block[t]] = [blocks[block[t]] EXCEPT !.next = head]]
  BY DEF PublishBlock
<1>5. /\ blocks' \in Seq(Block) /\ Len(blocks') = Len(blocks)
      /\ \A c \in 1 .. Len(blocks) : /\ blocks'[c].offset = blocks[c].offset
                                     /\ blocks'[c].capacity = blocks[c].capacity
  <2> DEFINE e == [blocks[block[t]] EXCEPT !.next = head]
  <2>1. e.offset = blocks[block[t]].offset /\ e.capacity = blocks[block[t]].capacity
    BY <1>1, <1>2 DEF Block
  <2> HIDE DEF e
  <2>2. /\ blocks' \in Seq(Block) /\ Len(blocks') = Len(blocks)
        /\ \A c \in 1 .. Len(blocks) : blocks'[c] = IF c = block[t] THEN e ELSE blocks[c]
    BY <1>1, <1>2, <1>3, <1>4, ExceptSeq DEF e
  <2> QED
    BY <2>1, <2>2
<1>6. TypeOK'
  BY <1>1, <1>5 DEF PublishBlock, TypeOK, Goto, PCs, callVars
<1>7. BlockInHand'
  BY <1>1, <1>5 DEF PublishBlock, BlockInHand, TypeOK, Goto, callVars
<1>8. BelowOffset' /\ Disjoint'
  BY <1>5 DEF PublishBlock, BelowOffset, Disjoint
<1> QED
  BY <1>6, <1>7, <1>8

\* A reset takes no block away from an allocation, because none is under way.
LEMMA ResetKeepsMemory ==
  ASSUME ArenaAssumption, MemoryInv, Reset
  PROVE  MemoryInv'
<1> USE DEF MemoryInv
<1>1. PICK base \in Bases : blocks' = <<NewBlock(InitialCapacity, base)>>
  BY DEF Reset
<1>2. NewBlock(InitialCapacity, base) \in Block
  BY DEF NewBlock, NoBlock, Block, ArenaAssumption
<1>3. blocks' \in Seq(Block) /\ Len(blocks') = 1 /\ blocks'[1] = NewBlock(InitialCapacity, base)
  BY <1>1, <1>2
<1>4. \A t \in Threads : pc[t] = "idle" /\ block[t] = NoBlock
  BY DEF Reset, Active, BlockInHand
<1>5. UNCHANGED <<growth, grow_state, failure, pc, request, block, observed, value>> /\ ranges' = {}
  BY DEF Reset, callVars
<1>6. TypeOK'
  <2>1. block' \in [Threads -> 0 .. Len(blocks')]
    <3>1. block' = block /\ block \in [Threads -> 0 .. Len(blocks)]
      BY <1>5 DEF TypeOK
    <3>2. \A t \in Threads : block'[t] \in 0 .. Len(blocks')
      BY <1>3, <1>4, <3>1 DEF NoBlock
    <3> QED
      BY <3>1, <3>2
  <2>2. head' = 1 /\ head' \in 1 .. Len(blocks')
    BY <1>3 DEF Reset
  <2> QED
    BY <1>3, <1>5, <2>1, <2>2 DEF Reset, TypeOK, ArenaAssumption
<1>7. BlockInHand'
  BY <1>4, <1>5 DEF BlockInHand
<1>8. BelowOffset' /\ Disjoint'
  BY <1>3, <1>5 DEF BelowOffset, Disjoint, NewBlock, ArenaAssumption
<1> QED
  BY <1>6, <1>7, <1>8

\* The steps that only count, wait, or move a thread on leave the blocks and
\* the space that was given away alone.
LEMMA OtherStepsKeepMemory ==
  ASSUME ArenaAssumption, MemoryInv, NEW t \in Threads,
         \/ Reload(t) \/ FirstFails(t) \/ SecondFails(t) \/ EnsureCapacity(t) \/ BeginGrow(t)
         \/ CreateFails(t) \/ CountBlock(t) \/ EndGrow(t) \/ WaitForGrow(t) \/ CheckHead(t)
         \/ ReloadHead(t) \/ CountAllocation(t) \/ AccumulatePeak(t)
         \/ \E r \in Requests : Allocate(t, r)
  PROVE  MemoryInv'
<1> USE DEF MemoryInv
<1>0. /\ pc \in [Threads -> PCs] /\ request \in [Threads -> Requests]
      /\ block \in [Threads -> 0 .. Len(blocks)]
      /\ observed \in [Threads -> Nat] /\ value \in [Threads -> Nat]
      /\ stats \in [allocated : Nat, count : Nat, waste : Nat, peak : Nat]
      /\ total_capacity \in Nat /\ block_count \in Nat
  BY DEF TypeOK
<1>1. /\ blocks \in Seq(Block) /\ Len(blocks) \in Nat /\ head \in 1 .. Len(blocks)
      /\ \A b \in 1 .. Len(blocks) : /\ blocks[b].offset \in Nat
                                     /\ blocks[b].capacity \in Nat
  <2>1. blocks \in Seq(Block) /\ head \in 1 .. Len(blocks)
    BY DEF TypeOK
  <2>2. \A b \in 1 .. Len(blocks) : blocks[b] \in Block
    BY <2>1, ElementOfSeq
  <2>3. Len(blocks) \in Nat
    BY <2>1
  <2>4. \A e \in Block : e.offset \in Nat /\ e.capacity \in Nat
    BY DEF Block
  <2> QED
    BY <2>1, <2>2, <2>3, <2>4
<1>2. request[t].bytes \in Nat /\ request[t].alignment \in Nat /\ NoRequest \in Requests
  <2>1. request[t] \in [bytes : Nat \ {0}, alignment : Nat \ {0}]
    BY DEF TypeOK, ArenaAssumption
  <2> QED
    BY <2>1, <1>1 DEF NoRequest, ArenaAssumption,
       TypeOK, BlockInHand, At, Goto, callVars, chainVars, PCs
<1>3. TypeOK' /\ BlockInHand' /\ UNCHANGED <<blocks, ranges>>
  <2>1. CASE Reload(t)
    BY <2>1, <1>1 DEF Reload, Trying,
       TypeOK, BlockInHand, At, Goto, callVars, chainVars, PCs
  <2>2. CASE FirstFails(t)
    BY <2>2, <1>1 DEF FirstFails,
       TypeOK, BlockInHand, At, Goto, callVars, chainVars, PCs
  <2>3. CASE SecondFails(t) \/ CheckHead(t)
    BY <2>3, <1>1 DEF SecondFails, CheckHead, FailFast, Failures,
       TypeOK, BlockInHand, At, Goto, callVars, chainVars, PCs
  <2>4. CASE EnsureCapacity(t)
    <3>1. MinCapacity(t) \in Nat
      BY <1>2 DEF MinCapacity
    <3>2. NextCapacity(blocks[head].capacity, MinCapacity(t)) \subseteq Nat
      BY <3>1, <1>1, CapacityIsNat DEF TypeOK
    <3>3. CASE FailFast("policy")
      BY <1>1, <3>3 DEF FailFast, Failures, TypeOK, BlockInHand, callVars, chainVars
    <3>4. CASE /\ \E c \in Nat : value' = [value EXCEPT ![t] = c]
               /\ Goto(t, "grow")
               /\ UNCHANGED <<growth, blocks, chainVars, stats, failure, request, block, observed, ranges>>
      <4>1. value' \in [Threads -> Nat]
        BY <3>4 DEF TypeOK
      <4>2. pc' \in [Threads -> PCs] /\ \A u \in Threads : pc'[u] = IF u = t THEN "grow" ELSE pc[u]
        BY <3>4 DEF TypeOK, Goto, PCs
      <4>3. TypeOK'
        BY <3>4, <4>1, <4>2 DEF TypeOK, chainVars
      <4>4. BlockInHand'
        BY <3>4, <4>2 DEF BlockInHand
      <4> QED
        BY <3>4, <4>3, <4>4
    <3> QED
      BY <2>4, <3>2, <3>3, <3>4 DEF EnsureCapacity
  <2>5. CASE BeginGrow(t) \/ EndGrow(t)
    BY <2>5, <1>1 DEF BeginGrow, EndGrow,
       TypeOK, BlockInHand, At, Goto, callVars, chainVars, PCs
  <2>6. CASE CreateFails(t)
    BY <2>6, <1>1 DEF CreateFails, Failures,
       TypeOK, BlockInHand, At, Goto, callVars, chainVars, PCs
  <2>7. CASE CountBlock(t)
    <3>1. block[t] \in 1 .. Len(blocks)
      BY <2>7 DEF CountBlock, At, BlockInHand
    <3> DEFINE capacity == blocks[block[t]].capacity
    <3>2. capacity \in Nat
      BY <1>1, <3>1
    <3>3. /\ total_capacity' = total_capacity + capacity /\ block_count' = block_count + 1
          /\ pc' = [pc EXCEPT ![t] = "release"]
          /\ UNCHANGED <<growth, blocks, head, grow_state, stats, failure,
                         request, block, observed, value, ranges>>
      BY <2>7 DEF CountBlock, Goto, callVars
    <3> HIDE DEF capacity
    <3>4. total_capacity' \in Nat /\ block_count' \in Nat
      BY <1>0, <3>2, <3>3
    <3> QED
      BY <3>3, <3>4, <1>1 DEF TypeOK, BlockInHand, PCs
  <2>8. CASE WaitForGrow(t)
    BY <2>8, <1>1 DEF WaitForGrow,
       TypeOK, BlockInHand, At, Goto, callVars, chainVars, PCs
  <2>9. CASE ReloadHead(t)
    <3>1. /\ block' = [block EXCEPT ![t] = head]
          /\ observed' = [observed EXCEPT ![t] = blocks[head].offset]
          /\ pc' = [pc EXCEPT ![t] = "again"]
          /\ UNCHANGED <<growth, blocks, head, grow_state, total_capacity, block_count, stats,
                         failure, request, value, ranges>>
      BY <2>9 DEF ReloadHead, LoadHead, Goto, chainVars
    <3>2. head \in 0 .. Len(blocks) /\ blocks[head].offset \in Nat
      BY <1>1
    <3>3. block' \in [Threads -> 0 .. Len(blocks)] /\ observed' \in [Threads -> Nat]
      BY <3>1, <3>2, <1>0
    <3> QED
      BY <3>1, <3>3, <1>1 DEF TypeOK, BlockInHand, PCs
  <2>10. CASE CountAllocation(t)
    <3> DEFINE total == stats.allocated + request[t].bytes
    <3>1. /\ stats' = [allocated |-> total, count |-> stats.count + 1,
                       waste |-> stats.waste + value[t], peak |-> stats.peak]
          /\ value' = [value EXCEPT ![t] = total]
          /\ observed' = [observed EXCEPT ![t] = stats.peak]
          /\ pc' = [pc EXCEPT ![t] = "peak"]
          /\ UNCHANGED <<growth, blocks, head, grow_state, total_capacity, block_count,
                         failure, request, block, ranges>>
      BY <2>10 DEF CountAllocation, Goto, chainVars
    <3>2. /\ stats.allocated \in Nat /\ stats.count \in Nat /\ stats.waste \in Nat
          /\ stats.peak \in Nat /\ value[t] \in Nat
      BY <1>0
    <3>3. total \in Nat
      BY <1>2, <3>2
    <3> HIDE DEF total
    <3>4. stats' \in [allocated : Nat, count : Nat, waste : Nat, peak : Nat]
      BY <3>1, <3>2, <3>3
    <3>5. value' \in [Threads -> Nat] /\ observed' \in [Threads -> Nat]
      BY <3>1, <3>2, <3>3, <1>0
    <3> QED
      BY <3>1, <3>4, <3>5, <1>1 DEF TypeOK, BlockInHand, PCs
  <2>11. CASE AccumulatePeak(t)
    <3>1. CASE value[t] > observed[t] /\ stats.peak # observed[t]
      BY <2>11, <3>1, <1>0 DEF AccumulatePeak, TypeOK, BlockInHand, chainVars
    <3>2. CASE ~(value[t] > observed[t] /\ stats.peak # observed[t])
      <4>1. /\ stats' \in {stats, WithPeak(value[t])} /\ Return(t)
            /\ UNCHANGED <<growth, blocks, head, grow_state, total_capacity, block_count,
                           failure, ranges>>
        BY <2>11, <3>2 DEF AccumulatePeak, chainVars
      <4>2. stats' \in [allocated : Nat, count : Nat, waste : Nat, peak : Nat]
        BY <4>1, <1>0 DEF WithPeak
      <4> QED
        <5>1. request' \in [Threads -> Requests] /\ block' \in [Threads -> 0 .. Len(blocks)]
          <6>1. /\ request' = [request EXCEPT ![t] = NoRequest]
                /\ block' = [block EXCEPT ![t] = 0]
            BY <4>1 DEF Return, NoBlock
          <6>2. 0 \in 0 .. Len(blocks)
            BY <1>1
          <6> QED
            BY <6>1, <6>2, <1>0, <1>2
        <5>2. observed' \in [Threads -> Nat] /\ value' \in [Threads -> Nat]
          BY <1>0, <4>1 DEF Return
        <5>3. pc' = [pc EXCEPT ![t] = "idle"] /\ block' = [block EXCEPT ![t] = NoBlock]
          BY <4>1 DEF Return, Goto
        <5>4. TypeOK'
          BY <4>1, <4>2, <5>1, <5>2, <5>3, <1>1 DEF TypeOK, PCs
        <5> QED
          BY <4>1, <5>3, <5>4 DEF BlockInHand, TypeOK
    <3> QED
      BY <3>1, <3>2
  <2>12. CASE \E r \in Requests : Allocate(t, r)
    <3>1. PICK r \in Requests : Allocate(t, r)
      BY <2>12
    <3>2. /\ block' = [block EXCEPT ![t] = head]
          /\ observed' = [observed EXCEPT ![t] = blocks[head].offset]
          /\ pc' = [pc EXCEPT ![t] = "first"]
          /\ request' = [request EXCEPT ![t] = r]
          /\ UNCHANGED <<growth, blocks, head, grow_state, total_capacity, block_count, stats,
                         failure, value, ranges>>
      BY <3>1 DEF Allocate, LoadHead, Goto, chainVars
    <3>3. head \in 0 .. Len(blocks) /\ blocks[head].offset \in Nat
      BY <1>1
    <3>4. block' \in [Threads -> 0 .. Len(blocks)] /\ observed' \in [Threads -> Nat]
      BY <3>2, <3>3, <1>0
    <3> QED
      BY <3>1, <3>2, <3>4, <1>1 DEF TypeOK, BlockInHand, PCs
  <2> QED
    BY <2>1, <2>2, <2>3, <2>4, <2>5, <2>6, <2>7, <2>8, <2>9, <2>10, <2>11, <2>12
<1> QED
  BY <1>3 DEF BelowOffset, Disjoint

LEMMA NextKeepsMemory ==
  ASSUME ArenaAssumption, MemoryInv, [Next]_vars
  PROVE  MemoryInv'
<1>1. CASE \E t \in Threads : Reserve(t) \/ CreateBlock(t) \/ PublishBlock(t)
  BY <1>1, ReserveKeepsMemory, CreateKeepsMemory, PublishKeepsMemory
<1>2. CASE Reset
  BY <1>2, ResetKeepsMemory
<1>3. CASE UNCHANGED vars
  BY <1>3 DEF vars, callVars, chainVars, MemoryInv, TypeOK, BlockInHand, BelowOffset, Disjoint
<1>4. CASE Aborted \/ ResetFails
  BY <1>3, <1>4 DEF Aborted, ResetFails, FailFast, Failures, callVars, chainVars, MemoryInv,
     TypeOK, BlockInHand, BelowOffset, Disjoint
<1>5. ASSUME NEW t \in Threads, Step(t), ~(Reserve(t) \/ CreateBlock(t) \/ PublishBlock(t))
      PROVE  MemoryInv'
  BY <1>5, OtherStepsKeepMemory DEF Step
<1>6. ASSUME NEW t \in Threads, \E r \in Requests : Allocate(t, r)
      PROVE  MemoryInv'
  BY <1>6, OtherStepsKeepMemory
<1> QED
  BY <1>1, <1>2, <1>3, <1>4, <1>5, <1>6 DEF Next

\* Every variable of the arena and of the threads keeps its type: in
\* particular no step works on a block that a reset has freed.
THEOREM TypeCorrect == Spec => []TypeOK
<1>1. Init => MemoryInv
  BY InitMemory, ArenaAssumption
<1>2. MemoryInv /\ [Next]_vars => MemoryInv'
  BY NextKeepsMemory, ArenaAssumption
<1>3. MemoryInv => TypeOK
  BY DEF MemoryInv
<1> QED
  BY <1>1, <1>2, <1>3, PTL DEF Spec

\* No two allocations are ever given the same memory, for any number of
\* threads that race for the offset of a block and the head of the chain.
THEOREM MemorySafety == Spec => []NoOverlap
<1>1. Init => MemoryInv
  BY InitMemory, ArenaAssumption
<1>2. MemoryInv /\ [Next]_vars => MemoryInv'
  BY NextKeepsMemory, ArenaAssumption
<1>3. ASSUME MemoryInv PROVE NoOverlap
  <2>1. \A b \in 1 .. Len(blocks) : /\ blocks[b].offset <= blocks[b].capacity
                                    /\ blocks[b].offset \in Nat /\ blocks[b].capacity \in Nat
    <3>1. \A b \in 1 .. Len(blocks) : blocks[b] \in Block
      BY <1>3, ElementOfSeq DEF MemoryInv, TypeOK
    <3> QED
      BY <1>3, <3>1 DEF MemoryInv, BelowOffset, Block
  <2>2. \A r \in ranges : r.to \in Nat
    BY <1>3 DEF MemoryInv, TypeOK, Space
  <2> QED
    BY <1>3, <2>1, <2>2 DEF MemoryInv, BelowOffset, Disjoint, NoOverlap
<1> QED
  BY <1>1, <1>2, <1>3, PTL DEF Spec

-------------------------------------------------------------------------------
(***************************************************************************)
(* One thread grows the chain at a time.                                   *)
(***************************************************************************)

LEMMA NextKeepsGrower ==
  ASSUME TypeOK, GrowerMarked, [Next]_vars
  PROVE  GrowerMarked'
<1> USE DEF GrowerMarked, SingleGrower, Growing, Running, TypeOK, At, Goto, callVars, chainVars
<1>1. CASE Reset \/ ResetFails \/ Aborted \/ UNCHANGED vars
  BY <1>1 DEF Reset, ResetFails, FailFast, NoFailure, Aborted, vars
<1>2. ASSUME NEW t \in Threads, Step(t) \/ \E r \in Requests : Allocate(t, r)
      PROVE  GrowerMarked'
  <2>1. CASE BeginGrow(t)
    BY <2>1 DEF BeginGrow
  <2>2. CASE EndGrow(t)
    BY <2>2 DEF EndGrow
  <2>3. CASE CreateFails(t) \/ SecondFails(t)
    BY <2>3 DEF CreateFails, SecondFails, FailFast, Failures, NoFailure
  <2>4. CASE CreateBlock(t) \/ PublishBlock(t) \/ CountBlock(t)
    BY <2>4 DEF CreateBlock, PublishBlock, CountBlock
  <2>5. CASE Reserve(t) \/ Reload(t) \/ FirstFails(t)
    BY <2>5 DEF Reserve, TakeSpace, Trying, Reload, FirstFails
  <2>6. CASE EnsureCapacity(t) \/ CheckHead(t)
    BY <2>6 DEF EnsureCapacity, CheckHead, FailFast, NoFailure
  <2>7. CASE WaitForGrow(t) \/ ReloadHead(t)
    BY <2>7 DEF WaitForGrow, ReloadHead, LoadHead
  <2>8. CASE CountAllocation(t) \/ AccumulatePeak(t)
    <3>1. /\ pc' = pc \/ pc' = [pc EXCEPT ![t] = "peak"] \/ pc' = [pc EXCEPT ![t] = "idle"]
          /\ UNCHANGED <<grow_state, failure>>
      BY <2>8 DEF CountAllocation, AccumulatePeak, Return
    <3> QED
      BY <3>1
  <2>9. CASE \E r \in Requests : Allocate(t, r)
    BY <2>9 DEF Allocate, LoadHead
  <2> QED
    BY <1>2, <2>1, <2>2, <2>3, <2>4, <2>5, <2>6, <2>7, <2>8, <2>9 DEF Step
<1> QED
  BY <1>1, <1>2 DEF Next

\* However many threads find the block full, one at a time creates, publishes
\* and counts a new one.
THEOREM GrowSafety == Spec => []SingleGrower
<1>1. Init => GrowerMarked
  BY DEF Init, GrowerMarked, SingleGrower, Growing
<1>2. TypeOK /\ GrowerMarked /\ [Next]_vars => GrowerMarked'
  BY NextKeepsGrower
<1>3. GrowerMarked => SingleGrower
  BY DEF GrowerMarked
<1> QED
  BY <1>1, <1>2, <1>3, TypeCorrect, PTL DEF Spec

-------------------------------------------------------------------------------
(***************************************************************************)
(* Induction, and what an interval counts.                                 *)
(***************************************************************************)
\* Induction, for a property given as a set of numbers.
LEMMA SetInduction ==
  ASSUME NEW S \in SUBSET Nat, 0 \in S, \A n \in S : n + 1 \in S
  PROVE  S = Nat
<1> DEFINE T == Nat \ S
           R == OpToRel(<, Nat)
<1>1. T \subseteq Nat /\ (T = {} => S = Nat)
  OBVIOUS
<1> HIDE DEF T
<1>2. SUFFICES ASSUME T # {} PROVE FALSE
  BY <1>1
<1>3. IsWellFoundedOn(R, Nat)
  BY NatLessThanWellFounded
<1>4. \A y, z \in Nat : y < z => <<y, z>> \in R
  BY DEF OpToRel
<1> HIDE DEF R
<1>5. PICK x \in T : \A y \in T : ~ (<<y, x>> \in R)
  BY <1>1, <1>2, <1>3, WFMin
<1>6. x \in Nat /\ x # 0 /\ x \notin S
  BY <1>1 DEF T
<1>7. x - 1 \in Nat /\ x - 1 < x /\ x - 1 + 1 = x
  BY <1>6
<1>8. x - 1 \notin T
  BY <1>1, <1>4, <1>5, <1>6, <1>7
<1>9. x - 1 \in S
  BY <1>7, <1>8 DEF T
<1> QED
  BY <1>6, <1>7, <1>9

LEMMA IntervalIs ==
  ASSUME NEW a \in Int, NEW b \in Int
  PROVE  /\ IsFiniteSet(a .. b) /\ Cardinality(a .. b) \in Nat
         /\ Cardinality(a .. b) = IF a <= b THEN b - a + 1 ELSE 0
         /\ a <= b => Cardinality(a .. b) = Cardinality(a + 1 .. b) + 1
<1>1. \A x \in Int : /\ IsFiniteSet(x .. b)
                     /\ Cardinality(x .. b) = IF x <= b THEN b - x + 1 ELSE 0
  <2> SUFFICES ASSUME NEW x \in Int
               PROVE  IsFiniteSet(x .. b) /\ Cardinality(x .. b) = IF x <= b THEN b - x + 1 ELSE 0
    OBVIOUS
  <2>1. IsFiniteSet(x .. b) /\ Cardinality(x .. b) = IF x > b THEN 0 ELSE b - x + 1
    BY FS_Interval
  <2> QED
    BY <2>1
<1> QED
  BY <1>1

(***************************************************************************)
(* Counting unit by unit.                                                  *)
(***************************************************************************)
LEMMA RowIs ==
  ASSUME NEW x, NEW n \in Nat
  PROVE  IsFiniteSet({x} \X (1 .. n)) /\ Cardinality({x} \X (1 .. n)) = n
<1> DEFINE A == {x}
           B == 1 .. n
<1>1. IsFiniteSet(A) /\ Cardinality(A) = 1 /\ IsFiniteSet(B) /\ Cardinality(B) = n
  <2>1. IsFiniteSet(A) /\ Cardinality(A) = 1
    BY FS_Singleton
  <2>2. IsFiniteSet(1 .. n) /\ Cardinality(1 .. n) = n
    BY IntervalIs
  <2> QED
    BY <2>1, <2>2
<1> HIDE DEF A, B
<1>2. IsFiniteSet(A \X B) /\ Cardinality(A \X B) = Cardinality(A) * Cardinality(B)
  BY <1>1, FS_Product
<1>3. IsFiniteSet(A \X B) /\ Cardinality(A \X B) = n
  BY <1>1, <1>2
<1> QED
  BY <1>3 DEF A, B

LEMMA UpToFinite ==
  ASSUME NEW n \in Nat
  PROVE  IsFiniteSet(1 .. n)
BY IntervalIs

LEMMA UnitsFinite ==
  ASSUME NEW S, IsFiniteSet(S), NEW f \in [S -> Nat]
  PROVE  IsFiniteSet(Units(f)) /\ Cardinality(Units(f)) \in Nat
<1> DEFINE F == [x \in S |-> {x} \X (1 .. f[x])]
           T == {{x} \X (1 .. f[x]) : x \in S}
<1>1. F \in Surjection(S, T)
  BY DEF Surjection
<1>2. IsFiniteSet(T)
  BY <1>1, FS_Surjection DEF ExistsSurjection
<1>3. \A x \in S : IsFiniteSet({x} \X (1 .. f[x]))
  BY RowIs
<1>4. IsFiniteSet(UNION T)
  BY <1>2, <1>3, FS_UNION
<1>5. Units(f) = UNION T
  BY DEF Units
<1> QED
  BY <1>4, <1>5, FS_CardinalityType

\* One more thing is counted.
LEMMA UnitsAdd ==
  ASSUME NEW S, IsFiniteSet(S), NEW f \in [S -> Nat], NEW x, x \notin S,
         NEW g \in [S \cup {x} -> Nat], \A y \in S : g[y] = f[y]
  PROVE  Cardinality(Units(g)) = Cardinality(Units(f)) + g[x]
<1> DEFINE X == {x} \X (1 .. g[x])
<1>1. IsFiniteSet(Units(f)) /\ Cardinality(Units(f)) \in Nat
  BY UnitsFinite
<1>2. IsFiniteSet(X) /\ Cardinality(X) = g[x]
  <2>1. g[x] \in Nat
    OBVIOUS
  <2> QED
    BY <2>1, RowIs
<1>3. Units(g) = Units(f) \cup X
  BY DEF Units
<1>4. Units(f) \cap X = {}
  BY DEF Units
<1> HIDE DEF X
<1> QED
  <2>1. /\ Cardinality(Units(f) \cup X) = Cardinality(Units(f)) + Cardinality(X) - Cardinality(Units(f) \cap X)
        /\ Cardinality(Units(f) \cap X) = 0 /\ g[x] \in Nat
    BY <1>1, <1>2, <1>4, FS_Union, FS_EmptySet
  <2> QED
    BY <1>1, <1>2, <1>3, <2>1

LEMMA UnitsNext ==
  ASSUME NEW n \in Nat, NEW f \in [1 .. n -> Nat], NEW g \in [1 .. n + 1 -> Nat],
         \A y \in 1 .. n : g[y] = f[y]
  PROVE  Cardinality(Units(g)) = Cardinality(Units(f)) + g[n + 1]
<1> DEFINE S == 1 .. n
           x == n + 1
           k == g[n + 1]
           X == {x} \X (1 .. k)
           F == Units(f)
<1>1. IsFiniteSet(F) /\ Cardinality(F) \in Nat
  <2>1. IsFiniteSet(1 .. n)
    BY UpToFinite
  <2>2. IsFiniteSet(S) /\ f \in [S -> Nat]
    BY <2>1
  <2> HIDE DEF S
  <2> QED
    BY <2>2, UnitsFinite
<1>2. k \in Nat /\ IsFiniteSet(X) /\ Cardinality(X) = k
  <2>1. k \in Nat
    OBVIOUS
  <2> HIDE DEF k, x
  <2> QED
    BY <2>1, RowIs
<1>3. Units(g) = F \cup X
  BY DEF Units
<1>4. F \cap X = {}
  BY DEF Units
<1> HIDE DEF X, F, k
<1> QED
  <2>1. /\ Cardinality(F \cup X) = Cardinality(F) + Cardinality(X) - Cardinality(F \cap X)
        /\ Cardinality(F \cap X) = 0
    BY <1>1, <1>2, <1>4, FS_Union, FS_EmptySet
  <2>2. Cardinality(Units(g)) = Cardinality(F) + k
    BY <1>1, <1>2, <1>3, <2>1
  <2> QED
    BY <2>2 DEF F, k

\* The count of one thing changes.
LEMMA UnitsChange ==
  ASSUME NEW S, IsFiniteSet(S), NEW f \in [S -> Nat], NEW g \in [S -> Nat], NEW x \in S,
         \A y \in S \ {x} : g[y] = f[y]
  PROVE  Cardinality(Units(g)) + f[x] = Cardinality(Units(f)) + g[x]
<1> DEFINE R == S \ {x}
           h == [y \in R |-> f[y]]
<1>1. IsFiniteSet(R) /\ h \in [R -> Nat] /\ x \notin R /\ R \cup {x} = S
  BY FS_Subset
<1>2. (\A y \in R : f[y] = h[y]) /\ \A y \in R : g[y] = h[y]
  OBVIOUS
<1> HIDE DEF R, h
<1>3. Cardinality(Units(f)) = Cardinality(Units(h)) + f[x] /\ Cardinality(Units(g)) = Cardinality(Units(h)) + g[x]
  <2>1. f \in [R \cup {x} -> Nat] /\ g \in [R \cup {x} -> Nat]
    BY <1>1
  <2>2. Cardinality(Units(f)) = Cardinality(Units(h)) + f[x]
    BY <1>1, <1>2, <2>1, UnitsAdd
  <2>3. Cardinality(Units(g)) = Cardinality(Units(h)) + g[x]
    BY <1>1, <1>2, <2>1, UnitsAdd
  <2> QED
    BY <2>2, <2>3
<1>4. Cardinality(Units(h)) \in Nat
  BY <1>1, UnitsFinite
<1> QED
  BY <1>3, <1>4

LEMMA NoUnits ==
  ASSUME NEW S, NEW f \in [S -> Nat], \A x \in S : f[x] = 0
  PROVE  Units(f) = {} /\ Cardinality(Units(f)) = 0
<1>1. \A x \in S : 1 .. f[x] = {}
  OBVIOUS
<1>2. Units(f) = {}
  BY <1>1 DEF Units
<1> QED
  BY <1>2, FS_EmptySet

(***************************************************************************)
(* What the arena accounts for.                                            *)
(***************************************************************************)
Offsets == [b \in DOMAIN blocks |-> blocks[b].offset]
Capacities(n) == [b \in 1 .. n |-> blocks[b].capacity]
\* Space that is taken from its block and not counted yet.
Pending == [t \in Threads |-> IF pc[t] = "reserved" THEN request[t].bytes + value[t] ELSE 0]

\* Each block leads to the one before it; the last one is not published while
\* its thread is about to, and not counted while its thread is about to.
HeadsHold ==
  /\ \A b \in 1 .. head : blocks[b].next = b - 1
  /\ \A t \in Threads : pc[t] \in {"first", "again"} => block[t] <= head
  /\ \A r \in ranges : r.block <= head
  /\ Running =>
       /\ \A t \in Threads : pc[t] = "publish" => block[t] = Len(blocks) /\ head = Len(blocks) - 1
       /\ (\A t \in Threads : pc[t] # "publish") => head = Len(blocks)
       /\ \A t \in Threads : pc[t] = "count" => block[t] = head
       /\ (\A t \in Threads : pc[t] # "count") =>
            block_count = head /\ total_capacity = Cardinality(Units(Capacities(head)))
       /\ (\E t \in Threads : pc[t] = "count") =>
            block_count = head - 1 /\ total_capacity = Cardinality(Units(Capacities(head - 1)))

SpaceHolds == stats.allocated + stats.waste + Cardinality(Units(Pending)) = Cardinality(Units(Offsets))

\* If the peak is behind, the thread that counted last is about to raise it.
PeakHolds ==
  /\ \A t \in Threads : pc[t] = "peak" => observed[t] <= stats.peak
  /\ stats.peak >= stats.allocated \/ \E t \in Threads : pc[t] = "peak" /\ value[t] = stats.allocated

\* Whoever has grown the chain, or is about to, is still busy or has got space
\* in the new block.
Owns(u) ==
  \/ pc[u] \in {"create", "publish", "count", "release", "reload"}
  \/ pc[u] = "again" /\ block[u] = head
  \/ \E r \in ranges : r.thread = u /\ r.block = head
OthersOwn(t) == \E u \in Threads \ {t} : Owns(u)

\* The head is large enough for the thread, which has got nothing of it.
Suits(t, b) == blocks[b].capacity >= MinCapacity(t) /\ \A r \in ranges : r.thread = t => r.block # b

\* What a thread knows of the head when it allocates for the second time.
Excused(t) ==
  /\ pc[t] \in {"grow", "create"} => value[t] >= MinCapacity(t)
  /\ pc[t] = "publish" => Suits(t, block[t])
  /\ pc[t] \in {"wait", "check"} => OthersOwn(t)
  /\ pc[t] \in {"count", "release", "reload", "again"} =>
       OthersOwn(t) \/ (Suits(t, head) /\ (pc[t] = "again" => block[t] = head))

\* What is gone from a block was given to somebody, and nobody has loaded more
\* than is gone.
TakenBySome == \A b \in 1 .. Len(blocks) : blocks[b].offset > 0 => \E r \in ranges : r.block = b
LoadedBefore == \A t \in Threads : pc[t] \in {"first", "again"} => observed[t] <= blocks[block[t]].offset
SomebodyGrows == grow_state = "growing" => \E t \in Threads : pc[t] \in Growing

RefusalsHold ==
  /\ RefusedByOthers /\ TakenBySome /\ LoadedBefore
  /\ Running => SomebodyGrows /\ \A t \in Threads : Excused(t)

LEMMA ArenaFacts ==
  ASSUME ArenaAssumption, TypeOK
  PROVE  /\ blocks \in Seq(Block) /\ Len(blocks) \in Nat /\ head \in 1 .. Len(blocks) /\ DOMAIN blocks = 1 .. Len(blocks)
         /\ \A b \in 1 .. Len(blocks) : blocks[b].capacity \in Nat /\ blocks[b].offset \in Nat /\ blocks[b].next \in Nat
         /\ IsFiniteSet(1 .. Len(blocks)) /\ Offsets \in [1 .. Len(blocks) -> Nat] /\ IsFiniteSet(Threads)
         /\ \A t \in Threads : request[t].bytes \in Nat \ {0} /\ request[t].alignment \in Nat \ {0} /\ MinCapacity(t) \in Nat
         /\ stats.allocated \in Nat /\ stats.waste \in Nat /\ stats.peak \in Nat /\ stats.count \in Nat
         /\ Pending \in [Threads -> Nat]
<1>1. blocks \in Seq(Block) /\ Len(blocks) \in Nat /\ head \in 1 .. Len(blocks) /\ DOMAIN blocks = 1 .. Len(blocks)
  BY DEF TypeOK
<1>2. \A b \in 1 .. Len(blocks) : blocks[b].capacity \in Nat /\ blocks[b].offset \in Nat /\ blocks[b].next \in Nat
  <2>1. \A b \in 1 .. Len(blocks) : blocks[b] \in Block
    BY <1>1, ElementOfSeq
  <2> QED
    BY <2>1 DEF Block
<1>3. IsFiniteSet(1 .. Len(blocks)) /\ Offsets \in [1 .. Len(blocks) -> Nat] /\ IsFiniteSet(Threads)
  <2>1. IsFiniteSet(1 .. Len(blocks))
    BY <1>1, IntervalIs
  <2>2. Offsets \in [1 .. Len(blocks) -> Nat]
    BY <1>1, <1>2 DEF Offsets
  <2> QED
    BY <2>1, <2>2 DEF ArenaAssumption
<1>4. \A t \in Threads : request[t].bytes \in Nat \ {0} /\ request[t].alignment \in Nat \ {0} /\ MinCapacity(t) \in Nat
  <2>1. \A t \in Threads : request[t] \in [bytes : Nat \ {0}, alignment : Nat \ {0}]
    BY DEF TypeOK, ArenaAssumption
  <2> QED
    BY <2>1 DEF MinCapacity
<1>5. stats.allocated \in Nat /\ stats.waste \in Nat /\ stats.peak \in Nat /\ stats.count \in Nat
  BY DEF TypeOK
<1>6. Pending \in [Threads -> Nat]
  <2>1. \A t \in Threads : value[t] \in Nat /\ request[t].bytes \in Nat
    BY <1>4 DEF TypeOK
  <2> QED
    BY <2>1 DEF Pending
<1> QED
  BY <1>1, <1>2, <1>3, <1>4, <1>5, <1>6

\* What the steps that change blocks do to them.
LEMMA ReserveMoves ==
  ASSUME ArenaAssumption, MemoryInv, NEW t \in Threads, Reserve(t)
  PROVE  /\ block[t] \in 1 .. Len(blocks) /\ Len(blocks') = Len(blocks) /\ DOMAIN blocks' = 1 .. Len(blocks)
         /\ \A b \in 1 .. Len(blocks) :
              /\ blocks'[b].next = blocks[b].next /\ blocks'[b].capacity = blocks[b].capacity
              /\ blocks'[b].offset = IF b = block[t] THEN End(t) ELSE blocks[b].offset
<1>1. block[t] \in 1 .. Len(blocks)
  BY DEF Reserve, Trying, BlockInHand, MemoryInv
<1>2. blocks \in Seq(Block) /\ blocks[block[t]] \in Block
  BY <1>1, ElementOfSeq DEF MemoryInv, TypeOK
<1> DEFINE e == [blocks[block[t]] EXCEPT !.offset = End(t)]
<1>3. e.next = blocks[block[t]].next /\ e.capacity = blocks[block[t]].capacity /\ e.offset = End(t)
  BY <1>2 DEF Block
<1>4. blocks' = [blocks EXCEPT ![block[t]] = e]
  BY DEF Reserve, TakeSpace
<1> HIDE DEF e
<1>5. /\ DOMAIN blocks' = 1 .. Len(blocks) /\ Len(blocks') = Len(blocks)
      /\ \A b \in 1 .. Len(blocks) : blocks'[b] = IF b = block[t] THEN e ELSE blocks[b]
  BY <1>1, <1>2, <1>4
<1> QED
  BY <1>1, <1>3, <1>5

LEMMA PublishMoves ==
  ASSUME ArenaAssumption, MemoryInv, NEW t \in Threads, PublishBlock(t)
  PROVE  /\ block[t] \in 1 .. Len(blocks) /\ Len(blocks') = Len(blocks) /\ DOMAIN blocks' = 1 .. Len(blocks)
         /\ \A b \in 1 .. Len(blocks) :
              /\ blocks'[b].next = IF b = block[t] THEN head ELSE blocks[b].next
              /\ blocks'[b].capacity = blocks[b].capacity /\ blocks'[b].offset = blocks[b].offset
<1>1. block[t] \in 1 .. Len(blocks)
  BY DEF PublishBlock, At, BlockInHand, MemoryInv
<1>2. blocks \in Seq(Block) /\ blocks[block[t]] \in Block
  BY <1>1, ElementOfSeq DEF MemoryInv, TypeOK
<1> DEFINE e == [blocks[block[t]] EXCEPT !.next = head]
<1>3. e.offset = blocks[block[t]].offset /\ e.capacity = blocks[block[t]].capacity /\ e.next = head
  BY <1>2 DEF Block
<1>4. blocks' = [blocks EXCEPT ![block[t]] = e]
  BY DEF PublishBlock
<1> HIDE DEF e
<1>5. /\ DOMAIN blocks' = 1 .. Len(blocks) /\ Len(blocks') = Len(blocks)
      /\ \A b \in 1 .. Len(blocks) : blocks'[b] = IF b = block[t] THEN e ELSE blocks[b]
  BY <1>1, <1>2, <1>4
<1> QED
  BY <1>1, <1>3, <1>5

LEMMA CreateMoves ==
  ASSUME ArenaAssumption, MemoryInv, NEW t \in Threads, CreateBlock(t)
  PROVE  /\ Len(blocks') = Len(blocks) + 1 /\ DOMAIN blocks' = 1 .. Len(blocks) + 1
         /\ \A b \in 1 .. Len(blocks) : blocks'[b] = blocks[b]
         /\ blocks'[Len(blocks) + 1].offset = 0 /\ blocks'[Len(blocks) + 1].capacity = value[t]
<1>1. PICK base \in Bases : blocks' = Append(blocks, NewBlock(value[t], base))
  BY DEF CreateBlock
<1> DEFINE e == NewBlock(value[t], base)
<1>2. e.offset = 0 /\ e.capacity = value[t]
  BY DEF NewBlock
<1>3. blocks \in Seq(Block) /\ e \in Block
  BY DEF MemoryInv, TypeOK, NewBlock, Block, NoBlock
<1> HIDE DEF e
<1>4. blocks' = Append(blocks, e)
  BY <1>1 DEF e
<1>5. /\ Len(blocks') = Len(blocks) + 1 /\ DOMAIN blocks' = 1 .. Len(blocks) + 1
      /\ \A b \in 1 .. Len(blocks) : blocks'[b] = blocks[b]
      /\ blocks'[Len(blocks) + 1] = e
  BY <1>3, <1>4, AppendProperties
<1> QED
  BY <1>2, <1>5

LEMMA ResetMoves ==
  ASSUME ArenaAssumption, Reset
  PROVE  /\ Len(blocks') = 1 /\ DOMAIN blocks' = {1} /\ 1 .. Len(blocks') = {1}
         /\ blocks'[1].offset = 0 /\ blocks'[1].capacity = InitialCapacity /\ blocks'[1].next = 0
         /\ head' = 1 /\ total_capacity' = InitialCapacity /\ block_count' = 1 /\ ranges' = {}
         /\ stats' = [allocated |-> 0, count |-> 0, waste |-> 0, peak |-> stats.peak]
         /\ UNCHANGED <<growth, grow_state, failure, pc, request, block, observed, value>>
         /\ \A t \in Threads : pc[t] = "idle"
<1>1. PICK base \in Bases : blocks' = <<NewBlock(InitialCapacity, base)>>
  BY DEF Reset
<1>2. blocks'[1] = NewBlock(InitialCapacity, base) /\ Len(blocks') = 1 /\ DOMAIN blocks' = {1}
  BY <1>1
<1>3. blocks'[1].offset = 0 /\ blocks'[1].capacity = InitialCapacity /\ blocks'[1].next = 0
  BY <1>2 DEF NewBlock, NoBlock
<1> QED
  BY <1>2, <1>3 DEF Reset, Active, callVars

\* Steps that leave the blocks, the chain and the history of space alone.
Quiet(t) ==
  \/ Reload(t) \/ FirstFails(t) \/ SecondFails(t) \/ EnsureCapacity(t) \/ BeginGrow(t)
  \/ CreateFails(t) \/ EndGrow(t) \/ WaitForGrow(t) \/ CheckHead(t) \/ ReloadHead(t)
  \/ CountAllocation(t) \/ AccumulatePeak(t) \/ \E r \in Requests : Allocate(t, r)

\* A thread steps on its own: the others stay where they are.
LEMMA OthersStay ==
  ASSUME TypeOK, NEW t \in Threads, Step(t) \/ \E r \in Requests : Allocate(t, r), NEW u \in Threads \ {t}
  PROVE  /\ pc'[u] = pc[u] /\ block'[u] = block[u] /\ observed'[u] = observed[u]
         /\ value'[u] = value[u] /\ request'[u] = request[u]
<1> USE DEF TypeOK, Goto, callVars
<1>1. CASE Reserve(t) \/ Reload(t) \/ FirstFails(t)
  BY <1>1 DEF Reserve, Reload, FirstFails, TakeSpace
<1>2. CASE SecondFails(t) \/ CheckHead(t) \/ CreateFails(t)
  BY <1>2 DEF SecondFails, CheckHead, CreateFails, FailFast
<1>3. CASE EnsureCapacity(t)
  BY <1>3 DEF EnsureCapacity, FailFast
<1>4. CASE BeginGrow(t) \/ CreateBlock(t) \/ PublishBlock(t) \/ CountBlock(t) \/ EndGrow(t) \/ WaitForGrow(t)
  BY <1>4 DEF BeginGrow, CreateBlock, PublishBlock, CountBlock, EndGrow, WaitForGrow
<1>5. CASE ReloadHead(t) \/ CountAllocation(t) \/ \E r \in Requests : Allocate(t, r)
  BY <1>5 DEF ReloadHead, CountAllocation, Allocate, LoadHead
<1>6. CASE AccumulatePeak(t)
  BY <1>6 DEF AccumulatePeak, Return
<1> QED
  BY <1>1, <1>2, <1>3, <1>4, <1>5, <1>6 DEF Step

LEMMA QuietMoves ==
  ASSUME TypeOK, NEW t \in Threads, Quiet(t)
  PROVE  /\ UNCHANGED <<blocks, head, total_capacity, block_count, ranges>>
         /\ pc[t] \notin {"publish", "count"} /\ pc'[t] \notin {"publish", "count"}
         /\ pc'[t] \in {"first", "again"} => block'[t] = head \/ (pc'[t] = pc[t] /\ block'[t] = block[t])
         /\ Running
<1> USE DEF TypeOK, At, Goto, callVars, chainVars
<1>1. CASE Reload(t) \/ FirstFails(t)
  BY <1>1 DEF Reload, FirstFails, Trying
<1>2. CASE SecondFails(t) \/ CheckHead(t) \/ CreateFails(t)
  BY <1>2 DEF SecondFails, CheckHead, CreateFails, FailFast
<1>3. CASE EnsureCapacity(t)
  BY <1>3 DEF EnsureCapacity, FailFast
<1>4. CASE BeginGrow(t) \/ EndGrow(t) \/ WaitForGrow(t)
  BY <1>4 DEF BeginGrow, EndGrow, WaitForGrow
<1>5. CASE ReloadHead(t) \/ CountAllocation(t) \/ \E r \in Requests : Allocate(t, r)
  BY <1>5 DEF ReloadHead, CountAllocation, Allocate, LoadHead
<1>6. CASE AccumulatePeak(t)
  BY <1>6 DEF AccumulatePeak, Return
<1> QED
  BY <1>1, <1>2, <1>3, <1>4, <1>5, <1>6 DEF Quiet

\* Only these steps change the books of the space.
LEMMA SpaceStays ==
  ASSUME TypeOK, NEW t \in Threads, Quiet(t) \/ PublishBlock(t) \/ CountBlock(t), ~CountAllocation(t)
  PROVE  /\ pc[t] # "reserved" /\ pc'[t] # "reserved"
         /\ stats'.allocated = stats.allocated /\ stats'.waste = stats.waste
<1> USE DEF TypeOK, At, Goto, callVars, chainVars
<1>1. CASE Reload(t) \/ FirstFails(t)
  BY <1>1 DEF Reload, FirstFails, Trying
<1>2. CASE SecondFails(t) \/ CheckHead(t) \/ CreateFails(t)
  BY <1>2 DEF SecondFails, CheckHead, CreateFails, FailFast
<1>3. CASE EnsureCapacity(t)
  BY <1>3 DEF EnsureCapacity, FailFast
<1>4. CASE BeginGrow(t) \/ EndGrow(t) \/ WaitForGrow(t) \/ PublishBlock(t) \/ CountBlock(t)
  BY <1>4 DEF BeginGrow, EndGrow, WaitForGrow, PublishBlock, CountBlock
<1>5. CASE ReloadHead(t) \/ \E r \in Requests : Allocate(t, r)
  BY <1>5 DEF ReloadHead, Allocate, LoadHead
<1>6. CASE AccumulatePeak(t)
  BY <1>6 DEF AccumulatePeak, Return, WithPeak
<1> QED
  BY <1>1, <1>2, <1>3, <1>4, <1>5, <1>6 DEF Quiet

-------------------------------------------------------------------------------
(***************************************************************************)
(* The chain and what is counted of it.                                    *)
(***************************************************************************)
LEMMA ArenaTypes ==
  ASSUME TypeOK
  PROVE  /\ head \in 1 .. Len(blocks) /\ Len(blocks) \in Nat
         /\ pc \in [Threads -> PCs] /\ block \in [Threads -> 0 .. Len(blocks)]
         /\ \A r \in ranges : r.block \in Nat /\ r.thread \in Threads
<1>1. blocks \in Seq(Block) /\ head \in 1 .. Len(blocks)
  BY DEF TypeOK
<1>2. Len(blocks) \in Nat
  BY <1>1
<1>3. pc \in [Threads -> PCs] /\ block \in [Threads -> 0 .. Len(blocks)] /\ ranges \subseteq Space
  BY DEF TypeOK
<1>4. \A r \in Space : r.block \in Nat /\ r.thread \in Threads
  BY DEF Space
<1> QED
  BY <1>1, <1>2, <1>3, <1>4

LEMMA QuietKeepsHeads ==
  ASSUME TypeOK, HeadsHold, NEW t \in Threads, Quiet(t)
  PROVE  HeadsHold'
<1>1. /\ UNCHANGED <<blocks, head, total_capacity, block_count, ranges>>
      /\ pc[t] \notin {"publish", "count"} /\ pc'[t] \notin {"publish", "count"}
      /\ pc'[t] \in {"first", "again"} => block'[t] = head \/ (pc'[t] = pc[t] /\ block'[t] = block[t])
      /\ Running
  BY QuietMoves
<1>2. \A u \in Threads \ {t} : pc'[u] = pc[u] /\ block'[u] = block[u]
  BY OthersStay DEF Quiet, Step
<1>3. head \in Nat /\ Len(blocks) \in Nat
  BY DEF TypeOK
<1>4. (\A b \in 1 .. head : blocks[b].next = b - 1)' /\ (\A r \in ranges : r.block <= head)'
  BY <1>1 DEF HeadsHold
<1>5. (\A u \in Threads : pc[u] \in {"first", "again"} => block[u] <= head)'
  BY <1>1, <1>2, <1>3 DEF HeadsHold
<1>6. \A n : Capacities(n)' = Capacities(n)
  BY <1>1 DEF Capacities
<1>7. \A u \in Threads : /\ (pc'[u] = "publish" <=> pc[u] = "publish") /\ (pc'[u] = "count" <=> pc[u] = "count")
                         /\ pc[u] \in {"publish", "count"} => block'[u] = block[u]
  BY <1>1, <1>2
<1> QED
  BY <1>1, <1>4, <1>5, <1>6, <1>7 DEF HeadsHold

LEMMA ReserveKeepsHeads ==
  ASSUME ArenaAssumption, MemoryInv, HeadsHold, NEW t \in Threads, Reserve(t)
  PROVE  HeadsHold'
<1>1. /\ block[t] \in 1 .. Len(blocks) /\ Len(blocks') = Len(blocks)
      /\ \A b \in 1 .. Len(blocks) : blocks'[b].next = blocks[b].next /\ blocks'[b].capacity = blocks[b].capacity
  BY ReserveMoves
<1>2. /\ UNCHANGED <<head, total_capacity, block_count, failure, block>>
      /\ pc[t] \in {"first", "again"} /\ pc' = [pc EXCEPT ![t] = "reserved"]
      /\ ranges' = ranges \cup {[thread |-> t, block |-> block[t], from |-> Aligned(t), to |-> End(t)]}
      /\ Running
  BY DEF Reserve, Trying, TakeSpace, Goto, chainVars
<1>3. head \in 1 .. Len(blocks) /\ Len(blocks) \in Nat /\ pc \in [Threads -> PCs]
  BY ArenaTypes DEF MemoryInv
<1>4. (\A b \in 1 .. head : blocks[b].next = b - 1)'
  BY <1>1, <1>2, <1>3 DEF HeadsHold
<1>5. (\A r \in ranges : r.block <= head)'
  BY <1>2 DEF HeadsHold
<1>6. Capacities(head)' = Capacities(head) /\ Capacities(head - 1)' = Capacities(head - 1)
  BY <1>1, <1>2, <1>3 DEF Capacities
<1>7. \A u \in Threads : /\ (pc'[u] = "publish" <=> pc[u] = "publish") /\ (pc'[u] = "count" <=> pc[u] = "count")
                         /\ pc'[u] \in {"first", "again"} => pc[u] \in {"first", "again"}
  BY <1>2, <1>3
<1> QED
  BY <1>1, <1>2, <1>4, <1>5, <1>6, <1>7 DEF HeadsHold, Running

LEMMA CreateKeepsHeads ==
  ASSUME ArenaAssumption, MemoryInv, GrowerMarked, HeadsHold, NEW t \in Threads, CreateBlock(t)
  PROVE  HeadsHold'
<1>1. /\ Len(blocks') = Len(blocks) + 1
      /\ \A b \in 1 .. Len(blocks) : blocks'[b] = blocks[b]
  BY CreateMoves
<1>2. /\ UNCHANGED <<head, total_capacity, block_count, failure, ranges>>
      /\ pc[t] = "create" /\ pc' = [pc EXCEPT ![t] = "publish"] /\ block' = [block EXCEPT ![t] = Len(blocks) + 1]
      /\ Running
  BY DEF CreateBlock, At, Goto, chainVars
<1>3. /\ head \in 1 .. Len(blocks) /\ Len(blocks) \in Nat /\ pc \in [Threads -> PCs]
      /\ block \in [Threads -> 0 .. Len(blocks)]
  BY ArenaTypes DEF MemoryInv
<1>4. \A u \in Threads : pc[u] \notin {"publish", "count"}
  BY <1>2 DEF GrowerMarked, SingleGrower, Growing
<1>5. head = Len(blocks) /\ block_count = head /\ total_capacity = Cardinality(Units(Capacities(head)))
  BY <1>2, <1>4 DEF HeadsHold
<1>6. (\A b \in 1 .. head : blocks[b].next = b - 1)' /\ (\A r \in ranges : r.block <= head)'
  <2>1. \A b \in 1 .. head : blocks'[b] = blocks[b]
    BY <1>1, <1>3
  <2> QED
    BY <1>2, <2>1 DEF HeadsHold
<1>7. Capacities(head)' = Capacities(head)
  BY <1>1, <1>2, <1>3 DEF Capacities
<1>8. \A u \in Threads \ {t} : pc'[u] = pc[u] /\ block'[u] = block[u]
  BY <1>2, <1>3
<1>9. pc'[t] = "publish" /\ block'[t] = Len(blocks')
  BY <1>1, <1>2, <1>3
<1>10. head' = Len(blocks') - 1 /\ \A u \in Threads : pc'[u] # "count" /\ (pc'[u] = "publish" <=> u = t)
  BY <1>1, <1>2, <1>3, <1>4, <1>5, <1>8, <1>9
<1>11. (\A u \in Threads : pc[u] \in {"first", "again"} => block[u] <= head)'
  BY <1>2, <1>8, <1>9 DEF HeadsHold
<1>12. block_count' = head' /\ total_capacity' = Cardinality(Units(Capacities(head)'))
  BY <1>2, <1>5, <1>7
<1> QED
  BY <1>6, <1>9, <1>10, <1>11, <1>12 DEF HeadsHold

LEMMA PublishKeepsHeads ==
  ASSUME ArenaAssumption, MemoryInv, GrowerMarked, HeadsHold, NEW t \in Threads, PublishBlock(t)
  PROVE  HeadsHold'
<1>1. /\ block[t] \in 1 .. Len(blocks) /\ Len(blocks') = Len(blocks)
      /\ \A b \in 1 .. Len(blocks) : /\ blocks'[b].next = IF b = block[t] THEN head ELSE blocks[b].next
                                     /\ blocks'[b].capacity = blocks[b].capacity
  BY PublishMoves
<1>2. /\ UNCHANGED <<total_capacity, block_count, failure, block, ranges>>
      /\ pc[t] = "publish" /\ pc' = [pc EXCEPT ![t] = "count"] /\ head' = block[t]
      /\ Running
  BY DEF PublishBlock, At, Goto, callVars
<1>3. /\ head \in 1 .. Len(blocks) /\ Len(blocks) \in Nat /\ pc \in [Threads -> PCs]
      /\ block \in [Threads -> 0 .. Len(blocks)] /\ \A r \in ranges : r.block \in Nat
  BY ArenaTypes DEF MemoryInv
<1>4. \A u \in Threads \ {t} : pc[u] \notin {"publish", "count"}
  BY <1>2 DEF GrowerMarked, SingleGrower, Growing
<1>5. block[t] = Len(blocks) /\ head = Len(blocks) - 1
  BY <1>2 DEF HeadsHold
<1>6. block_count = head /\ total_capacity = Cardinality(Units(Capacities(head)))
  BY <1>2, <1>4 DEF HeadsHold
<1>7. (\A b \in 1 .. head : blocks[b].next = b - 1)'
  BY <1>1, <1>2, <1>3, <1>5 DEF HeadsHold
<1>8. (\A r \in ranges : r.block <= head)'
  BY <1>2, <1>3, <1>5 DEF HeadsHold
<1>9. (\A u \in Threads : pc[u] \in {"first", "again"} => block[u] <= head)'
  BY <1>2, <1>3, <1>5 DEF HeadsHold
<1>10. Capacities(head - 1)' = Capacities(head) /\ head' - 1 = head /\ head' = Len(blocks')
  BY <1>1, <1>2, <1>3, <1>5 DEF Capacities
<1>11. \A u \in Threads \ {t} : pc'[u] = pc[u]
  BY <1>2, <1>3
<1>12. pc'[t] = "count" /\ block'[t] = head'
  BY <1>2, <1>3
<1> QED
  BY <1>2, <1>4, <1>6, <1>7, <1>8, <1>9, <1>10, <1>11, <1>12 DEF HeadsHold, Running

LEMMA CountKeepsHeads ==
  ASSUME ArenaAssumption, MemoryInv, GrowerMarked, HeadsHold, NEW t \in Threads, CountBlock(t)
  PROVE  HeadsHold'
<1>1. /\ UNCHANGED <<head, blocks, failure, block, ranges>>
      /\ pc[t] = "count" /\ pc' = [pc EXCEPT ![t] = "release"]
      /\ total_capacity' = total_capacity + blocks[block[t]].capacity /\ block_count' = block_count + 1
      /\ Running
  BY DEF CountBlock, At, Goto, callVars
<1>2. /\ head \in 1 .. Len(blocks) /\ Len(blocks) \in Nat /\ pc \in [Threads -> PCs]
  BY ArenaTypes DEF MemoryInv
<1>3. \A u \in Threads \ {t} : pc[u] \notin {"publish", "count"}
  BY <1>1 DEF GrowerMarked, SingleGrower, Growing
<1>4. /\ block[t] = head /\ head = Len(blocks)
      /\ block_count = head - 1 /\ total_capacity = Cardinality(Units(Capacities(head - 1)))
  BY <1>1, <1>3 DEF HeadsHold
<1>5. \A b \in 1 .. Len(blocks) : blocks[b].capacity \in Nat
  BY ArenaFacts DEF MemoryInv
<1>6. Cardinality(Units(Capacities(head))) = Cardinality(Units(Capacities(head - 1))) + blocks[head].capacity
  <2> DEFINE n == head - 1
             f == Capacities(n)
             g == Capacities(n + 1)
  <2>1. n \in Nat /\ n + 1 = head
    BY <1>2
  <2>2. \A b \in 1 .. n + 1 : b \in 1 .. Len(blocks)
    BY <1>2
  <2> HIDE DEF n
  <2>3. /\ f \in [1 .. n -> Nat] /\ g \in [1 .. n + 1 -> Nat]
        /\ \A y \in 1 .. n : g[y] = f[y]
        /\ g[n + 1] = blocks[n + 1].capacity
    BY <2>1, <2>2, <1>5 DEF Capacities
  <2> HIDE DEF f, g
  <2>4. Cardinality(Units(g)) = Cardinality(Units(f)) + g[n + 1]
    BY <2>1, <2>3, UnitsNext
  <2> QED
    BY <2>1, <2>3, <2>4 DEF f, g, n
<1>7. total_capacity' = Cardinality(Units(Capacities(head))) /\ block_count' = head
  BY <1>1, <1>2, <1>4, <1>6
<1>8. Capacities(head)' = Capacities(head)
  BY <1>1 DEF Capacities
<1>9. \A u \in Threads \ {t} : pc'[u] = pc[u]
  BY <1>1, <1>2
<1>10. pc'[t] = "release"
  BY <1>1, <1>2
<1>11. \A u \in Threads : pc'[u] \notin {"publish", "count"} /\ (pc'[u] \in {"first", "again"} => pc[u] \in {"first", "again"})
  BY <1>3, <1>9, <1>10
<1> QED
  BY <1>1, <1>4, <1>7, <1>8, <1>11 DEF HeadsHold

LEMMA ResetKeepsHeads ==
  ASSUME ArenaAssumption, Reset
  PROVE  HeadsHold'
<1>1. /\ Len(blocks') = 1 /\ blocks'[1].capacity = InitialCapacity /\ blocks'[1].next = 0
      /\ head' = 1 /\ total_capacity' = InitialCapacity /\ block_count' = 1 /\ ranges' = {}
      /\ \A u \in Threads : pc'[u] = "idle"
  BY ResetMoves
<1>2. Cardinality(Units(Capacities(1)')) = InitialCapacity
  <2>1. 1 .. 1 = {1} /\ InitialCapacity \in Nat
    BY DEF ArenaAssumption
  <2>2. Units(Capacities(1)') = {1} \X (1 .. InitialCapacity)
    BY <1>1, <2>1 DEF Units, Capacities
  <2> QED
    BY <2>1, <2>2, RowIs
<1> QED
  BY <1>1, <1>2 DEF HeadsHold

LEMMA InitHeads ==
  ASSUME ArenaAssumption, Init
  PROVE  HeadsHold
<1>1. PICK base \in Bases : blocks = <<NewBlock(InitialCapacity, base)>>
  BY DEF Init
<1>2. blocks[1] = NewBlock(InitialCapacity, base) /\ Len(blocks) = 1
  BY <1>1
<1>3. blocks[1].capacity = InitialCapacity /\ blocks[1].next = 0
  BY <1>2 DEF NewBlock, NoBlock
<1>4. Cardinality(Units(Capacities(1))) = InitialCapacity
  <2>1. 1 .. 1 = {1} /\ InitialCapacity \in Nat
    BY DEF ArenaAssumption
  <2>2. Units(Capacities(1)) = {1} \X (1 .. InitialCapacity)
    BY <1>3, <2>1 DEF Units, Capacities
  <2> QED
    BY <2>1, <2>2, RowIs
<1> QED
  BY <1>2, <1>3, <1>4 DEF HeadsHold, Init

\* The blocks are one chain, and the books describe it.
LEMMA HeadsTell ==
  ASSUME ArenaAssumption, TypeOK, GrowerMarked, HeadsHold
  PROVE  ChainCounted
<1> SUFFICES ASSUME Running, grow_state = "idle"
             PROVE  /\ Chain = DOMAIN blocks
                    /\ block_count = Cardinality(Chain)
                    /\ total_capacity = Cardinality(Units([b \in DOMAIN blocks |-> blocks[b].capacity]))
  BY DEF ChainCounted
<1>1. \A u \in Threads : pc[u] \notin {"publish", "count"}
  BY DEF GrowerMarked, Growing
<1>2. head = Len(blocks) /\ block_count = head /\ total_capacity = Cardinality(Units(Capacities(head)))
  BY <1>1 DEF HeadsHold
<1>3. DOMAIN blocks = 1 .. head /\ head \in Nat \ {0}
  BY <1>2 DEF TypeOK
<1>4. ASSUME NEW S, Leads(S), NEW c \in 1 .. head
      PROVE  c \in S
  <2> DEFINE K == {k \in Nat : k < head => head - k \in S}
  <2>1. 0 \in K
    BY <1>3, <1>4 DEF Leads
  <2>2. ASSUME NEW k \in Nat, k \in K
        PROVE  k + 1 \in K
    <3> SUFFICES ASSUME k + 1 < head
                 PROVE  head - (k + 1) \in S
      BY <2>2
    <3>1. head - k \in S /\ head - k \in 1 .. head /\ head - k > 1
      BY <1>3, <2>2
    <3>2. blocks[head - k].next = head - k - 1
      BY <3>1 DEF HeadsHold
    <3>3. blocks[head - k].next = 0 \/ blocks[head - k].next \in S
      BY <1>4, <3>1 DEF Leads, NoBlock
    <3> QED
      BY <1>3, <3>1, <3>2, <3>3
  <2>5. K \in SUBSET Nat
    OBVIOUS
  <2> HIDE DEF K
  <2>3. K = Nat
    <3>1. K \in SUBSET Nat
      BY <2>5
    <3>2. \A k \in K : k + 1 \in K
      BY <2>2, <3>1
    <3> QED
      BY <2>1, <3>1, <3>2, SetInduction
  <2>4. head - c \in Nat /\ head - c < head /\ head - (head - c) = c
    BY <1>3, <1>4
  <2> QED
    BY <2>3, <2>4 DEF K
<1>5. Chain = 1 .. head
  BY <1>3, <1>4 DEF Chain
<1>6. Cardinality(1 .. head) = head
  BY <1>3, IntervalIs
<1> QED
  BY <1>2, <1>3, <1>5, <1>6 DEF Capacities

-------------------------------------------------------------------------------
(***************************************************************************)
(* The space that is gone, and the peak.                                   *)
(***************************************************************************)
\* Nothing is taken from a block, and nothing is counted.
LEMMA StillSpace ==
  ASSUME TypeOK, SpaceHolds, NEW t \in Threads, Step(t) \/ \E r \in Requests : Allocate(t, r),
         pc[t] # "reserved" /\ pc'[t] # "reserved",
         stats'.allocated = stats.allocated /\ stats'.waste = stats.waste,
         DOMAIN blocks' = DOMAIN blocks, \A b \in DOMAIN blocks : blocks'[b].offset = blocks[b].offset
  PROVE  SpaceHolds'
<1>1. Offsets' = Offsets
  BY DEF Offsets
<1>2. \A u \in Threads \ {t} : pc'[u] = pc[u] /\ value'[u] = value[u] /\ request'[u] = request[u]
  BY OthersStay
<1>3. Pending' = Pending
  BY <1>2 DEF Pending
<1> QED
  BY <1>1, <1>3 DEF SpaceHolds

LEMMA ReserveKeepsSpace ==
  ASSUME ArenaAssumption, MemoryInv, SpaceHolds, NEW t \in Threads, Reserve(t)
  PROVE  SpaceHolds'
<1> DEFINE b == block[t]
           S == 1 .. Len(blocks)
<1>1. /\ b \in S /\ Len(blocks') = Len(blocks) /\ DOMAIN blocks' = S
      /\ \A c \in S : blocks'[c].offset = IF c = b THEN End(t) ELSE blocks[c].offset
  BY ReserveMoves
<1>2. /\ UNCHANGED <<stats, request>> /\ pc[t] # "reserved" /\ pc'[t] = "reserved"
      /\ value'[t] = Padding(t) /\ observed[t] = blocks[b].offset
  BY DEF Reserve, Trying, TakeSpace, Goto, chainVars, MemoryInv, TypeOK
<1>3. /\ IsFiniteSet(S) /\ Offsets \in [S -> Nat] /\ IsFiniteSet(Threads) /\ Pending \in [Threads -> Nat]
      /\ DOMAIN blocks = S /\ request[t].bytes \in Nat
      /\ stats.allocated \in Nat /\ stats.waste \in Nat
  BY ArenaFacts DEF MemoryInv
<1>4. Padding(t) \in Nat /\ End(t) \in Nat /\ observed[t] \in Nat /\ End(t) = observed[t] + Padding(t) + request[t].bytes
  BY <1>1, EndAfterOffset DEF MemoryInv, TypeOK, End, Aligned
<1>5. \A u \in Threads \ {t} : pc'[u] = pc[u] /\ value'[u] = value[u] /\ request'[u] = request[u]
  BY OthersStay DEF MemoryInv, Step
<1> HIDE DEF b, S
<1>6. Cardinality(Units(Offsets')) + observed[t] = Cardinality(Units(Offsets)) + End(t)
  <2>1. Offsets' \in [S -> Nat] /\ Offsets'[b] = End(t) /\ Offsets[b] = observed[t]
    BY <1>1, <1>2, <1>3, <1>4 DEF Offsets
  <2>2. \A c \in S \ {b} : Offsets'[c] = Offsets[c]
    BY <1>1, <1>3 DEF Offsets
  <2> DEFINE f == Offsets
             g == Offsets'
  <2>3. /\ f \in [S -> Nat] /\ g \in [S -> Nat] /\ g[b] = End(t) /\ f[b] = observed[t]
        /\ IsFiniteSet(S) /\ b \in S /\ \A c \in S \ {b} : g[c] = f[c]
    BY <1>1, <1>3, <2>1, <2>2
  <2> HIDE DEF f, g
  <2>4. Cardinality(Units(g)) + f[b] = Cardinality(Units(f)) + g[b]
    BY <2>3, UnitsChange
  <2> QED
    BY <2>3, <2>4 DEF f, g
<1>7. Cardinality(Units(Pending')) = Cardinality(Units(Pending)) + request[t].bytes + Padding(t)
  <2> DEFINE f == Pending
             g == Pending'
             n == request[t].bytes + Padding(t)
  <2>1. n \in Nat
    BY <1>3, <1>4
  <2>2. f[t] = 0 /\ g[t] = n
    BY <1>2 DEF Pending
  <2>3. \A c \in Threads \ {t} : g[c] = f[c]
    BY <1>5 DEF Pending
  <2>4. g \in [Threads -> Nat]
    <3>1. DOMAIN g = Threads /\ g = [c \in Threads |-> g[c]]
      BY DEF Pending
    <3>2. f \in [Threads -> Nat]
      BY <1>3
    <3> HIDE DEF f, g, n
    <3> QED
      BY <2>1, <2>2, <2>3, <3>1, <3>2
  <2>5. f \in [Threads -> Nat]
    BY <1>3
  <2> HIDE DEF f, g, n
  <2>6. Cardinality(Units(g)) + f[t] = Cardinality(Units(f)) + g[t]
    BY <1>3, <2>3, <2>4, <2>5, UnitsChange
  <2>7. Cardinality(Units(g)) \in Nat /\ Cardinality(Units(f)) \in Nat
    BY <1>3, <2>4, <2>5, UnitsFinite
  <2>8. Cardinality(Units(g)) = Cardinality(Units(f)) + n
    BY <2>1, <2>2, <2>6, <2>7
  <2>9. Cardinality(Units(Pending')) = Cardinality(Units(Pending)) + (request[t].bytes + Padding(t))
    BY <2>8 DEF f, g, n
  <2> QED
    BY <1>3, <1>4, <2>7, <2>9 DEF f
<1>8. Cardinality(Units(Pending)) \in Nat /\ Cardinality(Units(Offsets)) \in Nat /\ Cardinality(Units(Offsets')) \in Int
  <2>1. Offsets' \in [S -> Nat]
    BY <1>1, <1>3, <1>4 DEF Offsets
  <2> QED
    BY <1>3, <2>1, UnitsFinite
<1>9. stats.allocated + stats.waste + Cardinality(Units(Pending)) = Cardinality(Units(Offsets))
  BY DEF SpaceHolds
<1>10. stats.allocated + stats.waste + Cardinality(Units(Pending')) = Cardinality(Units(Offsets'))
  <2> DEFINE o == observed[t]
             p == Padding(t)
             n == request[t].bytes
             P == Cardinality(Units(Pending))
             O == Cardinality(Units(Offsets))
             PP == Cardinality(Units(Pending'))
             OO == Cardinality(Units(Offsets'))
             A == stats.allocated
             W == stats.waste
  <2>1. /\ o \in Nat /\ p \in Nat /\ n \in Nat /\ P \in Nat /\ O \in Nat /\ OO \in Int /\ A \in Nat /\ W \in Nat
        /\ OO + o = O + (o + p + n) /\ PP = P + n + p /\ A + W + P = O
    BY <1>3, <1>4, <1>6, <1>7, <1>8, <1>9
  <2> HIDE DEF o, p, n, P, O, PP, OO, A, W
  <2>2. A + W + PP = OO
    BY <2>1
  <2> QED
    BY <2>2 DEF A, W, PP, OO
<1> QED
  BY <1>2, <1>10 DEF SpaceHolds

LEMMA CreateKeepsSpace ==
  ASSUME ArenaAssumption, MemoryInv, SpaceHolds, NEW t \in Threads, CreateBlock(t)
  PROVE  SpaceHolds'
<1> DEFINE n == Len(blocks)
<1>1. /\ DOMAIN blocks' = 1 .. n + 1 /\ blocks'[n + 1].offset = 0
      /\ \A b \in 1 .. n : blocks'[b] = blocks[b]
  BY CreateMoves
<1>2. UNCHANGED stats /\ pc[t] # "reserved" /\ pc'[t] # "reserved"
  BY DEF CreateBlock, At, Goto, MemoryInv, TypeOK
<1>3. /\ n \in Nat /\ Offsets \in [1 .. n -> Nat] /\ DOMAIN blocks = 1 .. n
      /\ \A b \in 1 .. n : blocks[b].offset \in Nat
  BY ArenaFacts DEF MemoryInv
<1>4. Pending' = Pending
  <2>1. \A u \in Threads \ {t} : pc'[u] = pc[u] /\ value'[u] = value[u] /\ request'[u] = request[u]
    BY OthersStay DEF MemoryInv, Step
  <2> QED
    BY <1>2, <2>1 DEF Pending
<1> HIDE DEF n
<1>5. Cardinality(Units(Offsets')) = Cardinality(Units(Offsets))
  <2> DEFINE f == Offsets
             g == Offsets'
  <2>1. f \in [1 .. n -> Nat] /\ g \in [1 .. n + 1 -> Nat] /\ g[n + 1] = 0 /\ \A y \in 1 .. n : g[y] = f[y]
    <3>1. \A y \in 1 .. n + 1 : y \in 1 .. n \/ y = n + 1
      BY <1>3
    <3>2. \A y \in 1 .. n : y \in 1 .. n + 1
      BY <1>3
    <3>3. n + 1 \in 1 .. n + 1
      BY <1>3
    <3>4. g[n + 1] = 0 /\ \A y \in 1 .. n : g[y] = f[y]
      BY <1>1, <1>3, <3>2, <3>3 DEF Offsets
    <3>5. \A y \in 1 .. n + 1 : blocks'[y].offset \in Nat
      BY <1>1, <1>3, <3>1
    <3>6. g \in [1 .. n + 1 -> Nat]
      BY <1>1, <3>5 DEF Offsets
    <3> QED
      BY <1>3, <3>4, <3>6
  <2> HIDE DEF f, g
  <2>2. Cardinality(Units(g)) = Cardinality(Units(f)) + g[n + 1]
    BY <1>3, <2>1, UnitsNext
  <2>3. Cardinality(Units(f)) \in Nat
    <3> DEFINE S == 1 .. n
    <3>1. IsFiniteSet(S)
      BY <1>3, UpToFinite
    <3>2. f \in [S -> Nat]
      BY <2>1
    <3> HIDE DEF S
    <3> QED
      BY <3>1, <3>2, UnitsFinite
  <2>4. Cardinality(Units(g)) = Cardinality(Units(f))
    BY <2>1, <2>2, <2>3
  <2> QED
    BY <2>4 DEF f, g
<1> QED
  BY <1>2, <1>4, <1>5 DEF SpaceHolds

\* Space that was pending is counted.
LEMMA CountKeepsSpace ==
  ASSUME ArenaAssumption, MemoryInv, SpaceHolds, NEW t \in Threads, CountAllocation(t)
  PROVE  SpaceHolds'
<1>1. /\ UNCHANGED <<blocks, request>> /\ pc[t] = "reserved" /\ pc'[t] = "peak"
      /\ stats'.allocated = stats.allocated + request[t].bytes /\ stats'.waste = stats.waste + value[t]
  BY DEF CountAllocation, At, Goto, MemoryInv, TypeOK
<1>2. Offsets' = Offsets
  BY <1>1 DEF Offsets
<1>3. /\ IsFiniteSet(Threads) /\ Pending \in [Threads -> Nat]
      /\ request[t].bytes \in Nat /\ value[t] \in Nat
      /\ stats.allocated \in Nat /\ stats.waste \in Nat
  BY ArenaFacts DEF MemoryInv, TypeOK
<1>4. \A u \in Threads \ {t} : pc'[u] = pc[u] /\ value'[u] = value[u] /\ request'[u] = request[u]
  BY OthersStay DEF MemoryInv, Step
<1>5. /\ Cardinality(Units(Pending)) = Cardinality(Units(Pending')) + (request[t].bytes + value[t])
      /\ Cardinality(Units(Pending')) \in Nat
  <2> DEFINE f == Pending
             g == Pending'
             n == request[t].bytes + value[t]
  <2>1. n \in Nat
    BY <1>3
  <2>2. f[t] = n /\ g[t] = 0
    BY <1>1 DEF Pending
  <2>3. \A c \in Threads \ {t} : g[c] = f[c]
    BY <1>4 DEF Pending
  <2>4. DOMAIN g = Threads /\ g = [c \in Threads |-> g[c]] /\ f \in [Threads -> Nat]
    BY <1>3 DEF Pending
  <2> HIDE DEF f, g, n
  <2>5. g \in [Threads -> Nat]
    BY <2>2, <2>3, <2>4
  <2>6. Cardinality(Units(g)) + f[t] = Cardinality(Units(f)) + g[t]
    BY <1>3, <2>3, <2>4, <2>5, UnitsChange
  <2>7. Cardinality(Units(g)) \in Nat /\ Cardinality(Units(f)) \in Nat
    BY <1>3, <2>4, <2>5, UnitsFinite
  <2>8. Cardinality(Units(f)) = Cardinality(Units(g)) + n
    BY <2>1, <2>2, <2>6, <2>7
  <2> QED
    BY <2>7, <2>8 DEF f, g, n
<1>6. stats.allocated + stats.waste + Cardinality(Units(Pending)) = Cardinality(Units(Offsets))
  BY DEF SpaceHolds
<1>7. stats'.allocated + stats'.waste + Cardinality(Units(Pending')) = Cardinality(Units(Offsets))
  <2> DEFINE v == value[t]
             n == request[t].bytes
             P == Cardinality(Units(Pending))
             O == Cardinality(Units(Offsets))
             PP == Cardinality(Units(Pending'))
             A == stats.allocated
             W == stats.waste
  <2>1. /\ v \in Nat /\ n \in Nat /\ PP \in Nat /\ A \in Nat /\ W \in Nat
        /\ P = PP + (n + v) /\ A + W + P = O
        /\ stats'.allocated = A + n /\ stats'.waste = W + v
    BY <1>1, <1>3, <1>5, <1>6
  <2> HIDE DEF v, n, P, O, PP, A, W
  <2>2. (A + n) + (W + v) + PP = O
    BY <2>1
  <2> QED
    BY <2>1, <2>2 DEF O, PP
<1> QED
  BY <1>2, <1>7 DEF SpaceHolds

LEMMA FreshSpace ==
  ASSUME Len(blocks) = 1 /\ DOMAIN blocks = {1} /\ blocks[1].offset = 0,
         stats.allocated = 0 /\ stats.waste = 0, \A t \in Threads : pc[t] = "idle"
  PROVE  SpaceHolds
<1>1. Offsets \in [{1} -> Nat] /\ \A x \in {1} : Offsets[x] = 0
  BY DEF Offsets
<1>2. Pending \in [Threads -> Nat] /\ \A x \in Threads : Pending[x] = 0
  BY DEF Pending
<1>3. Cardinality(Units(Offsets)) = 0 /\ Cardinality(Units(Pending)) = 0
  BY <1>1, <1>2, NoUnits
<1> QED
  BY <1>3 DEF SpaceHolds

LEMMA SpaceTells ==
  ASSUME ArenaAssumption, TypeOK, SpaceHolds
  PROVE  SpaceAccounted
<1> SUFFICES ASSUME Active = {}
             PROVE  stats.allocated + stats.waste
                      = Cardinality(Units([b \in DOMAIN blocks |-> blocks[b].offset]))
  BY DEF SpaceAccounted
<1>1. Pending \in [Threads -> Nat] /\ \A t \in Threads : Pending[t] = 0
  BY DEF Active, Pending
<1>2. Cardinality(Units(Pending)) = 0
  BY <1>1, NoUnits
<1>3. stats.allocated \in Nat /\ stats.waste \in Nat
  BY DEF TypeOK
<1> DEFINE A == stats.allocated
           W == stats.waste
           O == Cardinality(Units(Offsets))
<1>4. A + W + 0 = O /\ A \in Nat /\ W \in Nat
  BY <1>2, <1>3 DEF SpaceHolds
<1> HIDE DEF A, W, O
<1>5. A + W = O
  BY <1>4
<1> QED
  BY <1>5 DEF A, W, O, Offsets

LEMMA StillPeak ==
  ASSUME TypeOK, PeakHolds, NEW t \in Threads, Step(t) \/ \E r \in Requests : Allocate(t, r),
         pc[t] # "peak" /\ pc'[t] # "peak", UNCHANGED stats
  PROVE  PeakHolds'
<1>1. \A u \in Threads \ {t} : pc'[u] = pc[u] /\ value'[u] = value[u] /\ observed'[u] = observed[u]
  BY OthersStay
<1> QED
  BY <1>1 DEF PeakHolds

LEMMA CountKeepsPeak ==
  ASSUME TypeOK, PeakHolds, NEW t \in Threads, CountAllocation(t)
  PROVE  PeakHolds'
<1>1. /\ pc'[t] = "peak" /\ value'[t] = stats'.allocated /\ observed'[t] = stats.peak /\ stats'.peak = stats.peak
  BY DEF CountAllocation, Goto, TypeOK
<1>2. \A u \in Threads \ {t} : pc'[u] = pc[u] /\ value'[u] = value[u] /\ observed'[u] = observed[u]
  BY OthersStay DEF Step
<1>3. stats.peak \in Nat
  BY DEF TypeOK
<1> QED
  BY <1>1, <1>2, <1>3 DEF PeakHolds

\* Who raises the peak raises it above what it loaded, so over every peak that
\* the others have loaded.
LEMMA AccumulateKeepsPeak ==
  ASSUME TypeOK, PeakHolds, NEW t \in Threads, AccumulatePeak(t)
  PROVE  PeakHolds'
<1>1. \A u \in Threads \ {t} : pc'[u] = pc[u] /\ value'[u] = value[u] /\ observed'[u] = observed[u]
  BY OthersStay DEF Step
<1>2. /\ stats.peak \in Nat /\ stats.allocated \in Nat /\ \A u \in Threads : value[u] \in Nat /\ observed[u] \in Nat
      /\ pc[t] = "peak"
  BY DEF TypeOK, AccumulatePeak, At
<1>3. CASE value[t] > observed[t] /\ stats.peak # observed[t]
  <2>1. /\ observed'[t] = stats.peak /\ UNCHANGED <<stats, pc, value>>
    BY <1>3 DEF AccumulatePeak, TypeOK
  <2> QED
    BY <1>1, <1>2, <2>1 DEF PeakHolds
<1>4. CASE ~(value[t] > observed[t] /\ stats.peak # observed[t])
  <2>1. /\ pc'[t] = "idle" /\ stats'.allocated = stats.allocated
        /\ stats'.peak = IF value[t] > observed[t] THEN value[t] ELSE stats.peak
    BY <1>4 DEF AccumulatePeak, Return, Goto, WithPeak, TypeOK
  <2>2. observed[t] <= stats.peak
    BY <1>2 DEF PeakHolds
  <2>3. stats'.peak >= stats.peak /\ stats'.peak >= value[t] /\ stats'.peak \in Nat
    BY <1>2, <1>4, <2>1, <2>2
  <2>4. \A u \in Threads : pc'[u] = "peak" => observed'[u] <= stats'.peak
    <3> SUFFICES ASSUME NEW u \in Threads, pc'[u] = "peak"
                 PROVE  observed'[u] <= stats'.peak
      OBVIOUS
    <3>1. u # t /\ pc[u] = "peak" /\ observed'[u] = observed[u] /\ observed[u] \in Nat
      BY <1>1, <1>2, <2>1
    <3>2. observed[u] <= stats.peak
      BY <3>1 DEF PeakHolds
    <3> QED
      BY <1>2, <2>3, <3>1, <3>2
  <2>5. CASE stats.peak >= stats.allocated
    BY <1>2, <2>1, <2>3, <2>4, <2>5 DEF PeakHolds
  <2>6. CASE \E u \in Threads : pc[u] = "peak" /\ value[u] = stats.allocated
    <3>1. PICK u \in Threads : pc[u] = "peak" /\ value[u] = stats.allocated
      BY <2>6
    <3>2. CASE u = t
      BY <1>2, <2>1, <2>3, <2>4, <3>1, <3>2 DEF PeakHolds
    <3>3. CASE u # t
      BY <1>1, <2>1, <2>4, <3>1, <3>3 DEF PeakHolds
    <3> QED
      BY <3>2, <3>3
  <2> QED
    BY <2>5, <2>6 DEF PeakHolds
<1> QED
  BY <1>3, <1>4

LEMMA QuietStats ==
  ASSUME TypeOK, NEW t \in Threads, Step(t) \/ \E r \in Requests : Allocate(t, r),
         ~CountAllocation(t), ~AccumulatePeak(t)
  PROVE  UNCHANGED stats /\ pc[t] # "peak" /\ pc'[t] # "peak"
<1> USE DEF TypeOK, At, Goto, callVars, chainVars
<1>1. CASE Reserve(t) \/ Reload(t) \/ FirstFails(t)
  BY <1>1 DEF Reserve, Reload, FirstFails, TakeSpace, Trying
<1>2. CASE SecondFails(t) \/ CheckHead(t) \/ CreateFails(t)
  BY <1>2 DEF SecondFails, CheckHead, CreateFails, FailFast
<1>3. CASE EnsureCapacity(t)
  BY <1>3 DEF EnsureCapacity, FailFast
<1>4. CASE BeginGrow(t) \/ CreateBlock(t) \/ PublishBlock(t) \/ CountBlock(t) \/ EndGrow(t) \/ WaitForGrow(t)
  BY <1>4 DEF BeginGrow, CreateBlock, PublishBlock, CountBlock, EndGrow, WaitForGrow
<1>5. CASE ReloadHead(t) \/ \E r \in Requests : Allocate(t, r)
  BY <1>5 DEF ReloadHead, Allocate, LoadHead
<1> QED
  BY <1>1, <1>2, <1>3, <1>4, <1>5 DEF Step

LEMMA PeakTells ==
  ASSUME PeakHolds
  PROVE  PeakCovers
BY DEF PeakHolds, PeakCovers, Active

-------------------------------------------------------------------------------
(***************************************************************************)
(* Who is refused.                                                         *)
(***************************************************************************)
\* Blocks stay what they are, and space is only given to the thread that steps.
LEMMA ArenaMoves ==
  ASSUME ArenaAssumption, MemoryInv, NEW t \in Threads, Step(t) \/ \E r \in Requests : Allocate(t, r)
  PROVE  /\ Running
         /\ Len(blocks') >= Len(blocks) /\ Len(blocks') \in Nat
         /\ \A b \in 1 .. Len(blocks) : /\ b \in 1 .. Len(blocks') /\ blocks'[b].capacity = blocks[b].capacity
                                        /\ blocks'[b].offset >= blocks[b].offset
                                        /\ ~Reserve(t) => blocks'[b].offset = blocks[b].offset
         /\ \A b \in 1 .. Len(blocks') : b \in 1 .. Len(blocks) \/ blocks'[b].offset = 0
         /\ ranges \subseteq ranges' /\ \A r \in ranges' : r \in ranges \/ r.thread = t
         /\ ~PublishBlock(t) => head' = head
<1>1. Len(blocks) \in Nat /\ \A b \in 1 .. Len(blocks) : blocks[b].offset \in Nat
  BY ArenaFacts DEF MemoryInv
<1>2. CASE Quiet(t) \/ CountBlock(t)
  <2>1. UNCHANGED <<blocks, head, ranges>> /\ Running
    BY <1>2, QuietMoves DEF MemoryInv, CountBlock, At, callVars
  <2> QED
    BY <1>1, <2>1
<1>3. CASE Reserve(t)
  <2>1. /\ block[t] \in 1 .. Len(blocks) /\ Len(blocks') = Len(blocks)
        /\ \A b \in 1 .. Len(blocks) :
             /\ blocks'[b].capacity = blocks[b].capacity
             /\ blocks'[b].offset = IF b = block[t] THEN End(t) ELSE blocks[b].offset
    BY <1>3, ReserveMoves
  <2>2. /\ ranges' = ranges \cup {[thread |-> t, block |-> block[t], from |-> Aligned(t), to |-> End(t)]}
        /\ blocks[block[t]].offset = observed[t] /\ head' = head /\ Running
    BY <1>3 DEF Reserve, Trying, TakeSpace, chainVars
  <2>3. observed[t] <= End(t)
    <3>1. observed[t] <= Aligned(t) /\ Aligned(t) <= End(t) /\ Aligned(t) \in Nat /\ End(t) \in Nat /\ observed[t] \in Nat
      BY <2>1, EndAfterOffset DEF MemoryInv, TypeOK
    <3> QED
      BY <3>1
  <2>4. \A b \in 1 .. Len(blocks) : blocks'[b].offset >= blocks[b].offset
    BY <1>1, <2>1, <2>2, <2>3
  <2>5. ranges \subseteq ranges' /\ \A r \in ranges' : r \in ranges \/ r.thread = t
    BY <2>2
  <2> QED
    BY <1>1, <1>3, <2>1, <2>2, <2>4, <2>5
<1>4. CASE CreateBlock(t)
  <2>1. /\ Len(blocks') = Len(blocks) + 1
        /\ \A b \in 1 .. Len(blocks) : blocks'[b] = blocks[b]
        /\ blocks'[Len(blocks) + 1].offset = 0
    BY <1>4, CreateMoves
  <2>2. head' = head /\ ranges' = ranges /\ Running
    BY <1>4 DEF CreateBlock, At, chainVars
  <2>3. \A b \in 1 .. Len(blocks') : b \in 1 .. Len(blocks) \/ b = Len(blocks) + 1
    BY <1>1, <2>1
  <2>4. \A b \in 1 .. Len(blocks) : b \in 1 .. Len(blocks') /\ blocks'[b].offset >= blocks[b].offset
    BY <1>1, <2>1
  <2> QED
    BY <1>1, <2>1, <2>2, <2>3, <2>4
<1>5. CASE PublishBlock(t)
  <2>1. /\ Len(blocks') = Len(blocks)
        /\ \A b \in 1 .. Len(blocks) : blocks'[b].capacity = blocks[b].capacity /\ blocks'[b].offset = blocks[b].offset
    BY <1>5, PublishMoves
  <2>2. ranges' = ranges /\ Running
    BY <1>5 DEF PublishBlock, At
  <2> QED
    BY <1>1, <1>5, <2>1, <2>2
<1> QED
  BY <1>2, <1>3, <1>4, <1>5 DEF Step, Quiet

LEMMA StepKeepsTaken ==
  ASSUME ArenaAssumption, MemoryInv, TakenBySome,
         NEW t \in Threads, Step(t) \/ \E r \in Requests : Allocate(t, r)
  PROVE  TakenBySome'
<1> SUFFICES ASSUME NEW b \in 1 .. Len(blocks'), blocks'[b].offset > 0
             PROVE  \E r \in ranges' : r.block = b
  BY DEF TakenBySome
<1>1. b \in 1 .. Len(blocks) /\ ranges \subseteq ranges'
  BY ArenaMoves
<1>2. CASE blocks[b].offset > 0
  BY <1>1, <1>2 DEF TakenBySome
<1>3. CASE ~(blocks[b].offset > 0)
  <2>1. Reserve(t) /\ b = block[t]
    <3>1. Reserve(t)
      BY <1>1, <1>3, ArenaMoves
    <3> QED
      BY <1>1, <1>3, <3>1, ReserveMoves
  <2>2. [thread |-> t, block |-> block[t], from |-> Aligned(t), to |-> End(t)] \in ranges'
    BY <2>1 DEF Reserve, TakeSpace
  <2> QED
    BY <2>1, <2>2
<1> QED
  BY <1>2, <1>3

LEMMA StepKeepsLoaded ==
  ASSUME ArenaAssumption, MemoryInv, LoadedBefore,
         NEW t \in Threads, Step(t) \/ \E r \in Requests : Allocate(t, r)
  PROVE  LoadedBefore'
<1> SUFFICES ASSUME NEW u \in Threads, pc'[u] \in {"first", "again"}
             PROVE  observed'[u] <= blocks'[block'[u]].offset
  BY DEF LoadedBefore
<1>1. \A b \in 1 .. Len(blocks) : blocks'[b].offset >= blocks[b].offset /\ blocks'[b].offset \in Nat /\ blocks[b].offset \in Nat
  <2>1. MemoryInv'
    BY OtherStepsKeepMemory, ReserveKeepsMemory, CreateKeepsMemory, PublishKeepsMemory DEF Step
  <2>2. \A b \in 1 .. Len(blocks) : b \in 1 .. Len(blocks') /\ blocks'[b].offset >= blocks[b].offset
    BY ArenaMoves
  <2>3. \A b \in 1 .. Len(blocks) : blocks[b].offset \in Nat
    BY ArenaFacts DEF MemoryInv
  <2>4. \A b \in 1 .. Len(blocks') : blocks'[b] \in Block
    <3>1. blocks' \in Seq(Block)
      BY <2>1 DEF MemoryInv, TypeOK, Block
    <3> QED
      BY <3>1, ElementOfSeq
  <2> QED
    BY <2>2, <2>3, <2>4 DEF Block
<1>2. \A v \in Threads : observed[v] \in Nat
  BY DEF MemoryInv, TypeOK
<1>3. CASE u # t
  <2>1. pc[u] \in {"first", "again"} /\ block'[u] = block[u] /\ observed'[u] = observed[u]
    BY <1>3, OthersStay DEF MemoryInv
  <2>2. block[u] \in 1 .. Len(blocks) /\ observed[u] <= blocks[block[u]].offset
    BY <2>1 DEF LoadedBefore, MemoryInv, BlockInHand
  <2> QED
    BY <1>1, <1>2, <2>1, <2>2
<1>4. CASE u = t
  <2>1. Reload(t) \/ ReloadHead(t) \/ SecondFails(t) \/ \E r \in Requests : Allocate(t, r)
    BY <1>4 DEF Step, MemoryInv, TypeOK, Reserve, TakeSpace, FirstFails, EnsureCapacity, BeginGrow, CreateBlock, CreateFails,
       PublishBlock, CountBlock, EndGrow, WaitForGrow, CheckHead, CountAllocation, AccumulatePeak, Return, FailFast, At, Goto
  <2>2. UNCHANGED blocks
    BY <2>1 DEF Reload, ReloadHead, SecondFails, Allocate, FailFast
  <2>3. CASE Reload(t)
    <3>1. observed'[t] = blocks[block[t]].offset /\ block'[t] = block[t] /\ block[t] \in 1 .. Len(blocks)
      BY <2>3 DEF Reload, Trying, MemoryInv, TypeOK, BlockInHand
    <3> QED
      BY <1>1, <1>4, <2>2, <3>1
  <2>4. CASE ReloadHead(t) \/ \E r \in Requests : Allocate(t, r)
    <3>1. observed'[t] = blocks[head].offset /\ block'[t] = head /\ head \in 1 .. Len(blocks)
      BY <2>4 DEF ReloadHead, Allocate, LoadHead, MemoryInv, TypeOK
    <3> QED
      BY <1>1, <1>4, <2>2, <3>1
  <2>5. CASE SecondFails(t)
    <3>1. UNCHANGED <<observed, block, pc>>
      BY <2>5 DEF SecondFails, FailFast, callVars
    <3> QED
      BY <1>4, <2>2, <3>1 DEF LoadedBefore
  <2> QED
    BY <2>1, <2>3, <2>4, <2>5
<1> QED
  BY <1>3, <1>4

\* Who has grown the chain stays its owner until somebody publishes another
\* block.
LEMMA OwnsStays ==
  ASSUME ArenaAssumption, MemoryInv, NEW t \in Threads, Step(t) \/ \E r \in Requests : Allocate(t, r),
         Running', ~PublishBlock(t), NEW w \in Threads, Owns(w)
  PROVE  Owns(w)'
<1>1. head' = head /\ ranges \subseteq ranges'
  BY ArenaMoves
<1>2. CASE \E r \in ranges : r.thread = w /\ r.block = head
  BY <1>1, <1>2 DEF Owns
<1>3. CASE w # t
  <2>1. pc'[w] = pc[w] /\ block'[w] = block[w]
    BY <1>3, OthersStay DEF MemoryInv
  <2> QED
    BY <1>1, <2>1 DEF Owns
<1>4. CASE w = t /\ (pc[t] \in {"create", "publish", "count", "release", "reload"} \/ (pc[t] = "again" /\ block[t] = head))
  <2> USE DEF TypeOK, At, Goto, callVars, chainVars
  <2>1. CASE Reserve(t)
    <3> DEFINE new == [thread |-> t, block |-> block[t], from |-> Aligned(t), to |-> End(t)]
    <3>1. pc[t] = "again" /\ block[t] = head
      BY <1>4, <2>1 DEF Reserve, Trying
    <3>2. new \in ranges' /\ new.thread = t /\ new.block = head'
      BY <1>1, <2>1, <3>1 DEF Reserve, TakeSpace
    <3> QED
      BY <1>4, <3>2 DEF Owns
  <2>2. CASE Reload(t)
    <3>1. UNCHANGED <<pc, block>>
      BY <2>2 DEF Reload
    <3> QED
      BY <1>1, <1>4, <3>1 DEF Owns
  <2>3. CASE SecondFails(t) \/ CreateFails(t)
    BY <2>3 DEF SecondFails, CreateFails, FailFast, Running, NoFailure
  <2>4. CASE CreateBlock(t) \/ CountBlock(t) \/ EndGrow(t)
    <3>1. pc'[t] \in {"publish", "release", "reload"}
      BY <2>4 DEF CreateBlock, CountBlock, EndGrow, MemoryInv
    <3> QED
      BY <1>4, <3>1 DEF Owns
  <2>5. CASE ReloadHead(t)
    <3>1. pc'[t] = "again" /\ block'[t] = head
      BY <2>5 DEF ReloadHead, LoadHead, MemoryInv
    <3> QED
      BY <1>1, <1>4, <3>1 DEF Owns
  <2>6. CASE \/ FirstFails(t) \/ EnsureCapacity(t) \/ BeginGrow(t) \/ WaitForGrow(t) \/ CheckHead(t)
             \/ CountAllocation(t) \/ AccumulatePeak(t) \/ \E r \in Requests : Allocate(t, r)
    BY <1>4, <2>6 DEF FirstFails, EnsureCapacity, BeginGrow, WaitForGrow, CheckHead, CountAllocation,
       AccumulatePeak, Allocate
  <2> QED
    BY <2>1, <2>2, <2>3, <2>4, <2>5, <2>6 DEF Step
<1> QED
  BY <1>2, <1>3, <1>4 DEF Owns

\* What another thread knows stays true.
LEMMA ExcusedStays ==
  ASSUME ArenaAssumption, MemoryInv, NEW t \in Threads, Step(t) \/ \E r \in Requests : Allocate(t, r),
         Running', NEW u \in Threads \ {t}, Excused(u)
  PROVE  Excused(u)'
<1>1. /\ pc'[u] = pc[u] /\ block'[u] = block[u] /\ value'[u] = value[u] /\ request'[u] = request[u]
  BY OthersStay DEF MemoryInv
<1>2. MinCapacity(u)' = MinCapacity(u)
  BY <1>1 DEF MinCapacity
<1>3. \A b \in 1 .. Len(blocks) : Suits(u, b) => Suits(u, b)'
  <2>1. \A b \in 1 .. Len(blocks) : blocks'[b].capacity = blocks[b].capacity
    BY ArenaMoves
  <2>2. \A r \in ranges' : r \in ranges \/ r.thread # u
    BY ArenaMoves
  <2> QED
    BY <1>2, <2>1, <2>2 DEF Suits
<1>4. head \in 1 .. Len(blocks) /\ (pc[u] = "publish" => block[u] \in 1 .. Len(blocks))
  BY DEF MemoryInv, TypeOK, BlockInHand
<1>5. CASE ~PublishBlock(t)
  <2>1. head' = head
    BY <1>5, ArenaMoves
  <2>2. OthersOwn(u) => OthersOwn(u)'
    BY <1>5, OwnsStays DEF OthersOwn
  <2> QED
    BY <1>1, <1>2, <1>3, <1>4, <2>1, <2>2 DEF Excused
<1>6. CASE PublishBlock(t)
  <2>1. pc'[t] = "count"
    BY <1>6 DEF PublishBlock, Goto, MemoryInv, TypeOK
  <2>2. OthersOwn(u)'
    BY <2>1 DEF OthersOwn, Owns
  <2> QED
    BY <1>1, <1>2, <1>3, <1>4, <2>2 DEF Excused
<1> QED
  BY <1>5, <1>6

\* Whatever the policy, a capacity that is chosen is enough.
LEMMA CapacityIsEnough ==
  ASSUME NEW current, NEW min, NEW c \in NextCapacity(current, min)
  PROVE  c >= min
BY DEF NextCapacity

\* A block that does not exist yet has given no space away.
LEMMA NoSpaceAbove ==
  ASSUME MemoryInv
  PROVE  \A r \in ranges : r.block # Len(blocks) + 1
<1>1. Len(blocks) \in Nat
  BY ArenaTypes DEF MemoryInv
<1>2. \A r \in ranges : r.block \in 1 .. Len(blocks)
  BY DEF MemoryInv, BelowOffset
<1> QED
  BY <1>1, <1>2

LEMMA ExcusedOfStepper ==
  ASSUME ArenaAssumption, MemoryInv, NEW t \in Threads, Step(t) \/ \E r \in Requests : Allocate(t, r),
         Running', SomebodyGrows, Excused(t)
  PROVE  Excused(t)'
<1> USE DEF TypeOK, MemoryInv, At, Goto, callVars, chainVars
<1>1. ~PublishBlock(t) => head' = head /\ (OthersOwn(t) => OthersOwn(t)')
  BY ArenaMoves, OwnsStays DEF OthersOwn
<1>2. CASE Reserve(t) \/ FirstFails(t) \/ CountAllocation(t) \/ AccumulatePeak(t) \/ \E r \in Requests : Allocate(t, r)
  <2>1. pc'[t] \in {"reserved", "ensure", "peak", "idle", "first"}
    BY <1>2 DEF Reserve, TakeSpace, FirstFails, CountAllocation, AccumulatePeak, Return, Allocate
  <2> QED
    BY <2>1 DEF Excused
<1>3. CASE Reload(t)
  <2>1. UNCHANGED <<pc, block, blocks, ranges, request, head>> /\ pc[t] \in {"first", "again"}
    BY <1>3 DEF Reload, Trying
  <2> QED
    BY <1>1, <1>3, <2>1 DEF Excused, Suits, MinCapacity, OthersOwn, Owns
<1>4. CASE SecondFails(t) \/ CreateFails(t)
  BY <1>4 DEF SecondFails, CreateFails, FailFast, Running, NoFailure
<1>5. CASE EnsureCapacity(t)
  <2>1. /\ pc'[t] = "grow" /\ request' = request
        /\ value'[t] \in NextCapacity(blocks[head].capacity, MinCapacity(t))
    BY <1>5 DEF EnsureCapacity, FailFast, Running, NoFailure
  <2>2. value'[t] >= MinCapacity(t)
    BY <2>1, CapacityIsEnough
  <2> QED
    BY <2>1, <2>2 DEF Excused, MinCapacity
<1>6. CASE BeginGrow(t)
  <2>1. /\ pc[t] = "grow" /\ UNCHANGED <<value, request>>
        /\ pc'[t] = IF grow_state = "idle" THEN "create" ELSE "wait"
        /\ ~PublishBlock(t)
    BY <1>6 DEF BeginGrow, PublishBlock
  <2>2. CASE grow_state = "idle"
    BY <2>1, <2>2 DEF Excused, MinCapacity
  <2>3. CASE grow_state # "idle"
    <3>1. PICK w \in Threads : pc[w] \in Growing
      BY <2>3 DEF SomebodyGrows
    <3>2. w # t /\ Owns(w)
      BY <2>1, <3>1 DEF Growing, Owns
    <3>3. OthersOwn(t)'
      BY <1>1, <2>1, <3>2 DEF OthersOwn
    <3> QED
      BY <2>1, <2>3, <3>3 DEF Excused
  <2> QED
    BY <2>2, <2>3
<1>7. CASE CreateBlock(t)
  <2>1. /\ pc[t] = "create" /\ pc'[t] = "publish" /\ block'[t] = Len(blocks) + 1 /\ UNCHANGED <<request, ranges>>
    BY <1>7 DEF CreateBlock
  <2>2. blocks'[Len(blocks) + 1].capacity = value[t] /\ value[t] >= MinCapacity(t)
    BY <1>7, <2>1, CreateMoves DEF Excused
  <2>3. \A r \in ranges : r.block # Len(blocks) + 1
    BY NoSpaceAbove
  <2> QED
    BY <2>1, <2>2, <2>3 DEF Excused, Suits, MinCapacity
<1>8. CASE PublishBlock(t)
  <2>1. /\ pc[t] = "publish" /\ pc'[t] = "count" /\ head' = block[t] /\ UNCHANGED <<request, ranges>>
    BY <1>8 DEF PublishBlock
  <2>2. block[t] \in 1 .. Len(blocks) /\ blocks'[block[t]].capacity = blocks[block[t]].capacity
    BY <1>8, PublishMoves
  <2>3. Suits(t, block[t])
    BY <2>1 DEF Excused
  <2> QED
    BY <2>1, <2>2, <2>3 DEF Excused, Suits, MinCapacity
<1>9. CASE CountBlock(t) \/ EndGrow(t)
  <2>1. /\ pc[t] \in {"count", "release"} /\ pc'[t] \in {"release", "reload"} /\ UNCHANGED <<request, ranges, blocks, head>>
        /\ ~PublishBlock(t)
    BY <1>9 DEF CountBlock, EndGrow, PublishBlock
  <2>2. OthersOwn(t) \/ Suits(t, head)
    BY <2>1 DEF Excused
  <2> QED
    BY <1>1, <2>1, <2>2 DEF Excused, Suits, MinCapacity
<1>10. CASE WaitForGrow(t) \/ CheckHead(t)
  <2>1. pc[t] \in {"wait", "check"} /\ pc'[t] \in {"check", "reload"} /\ ~PublishBlock(t)
    BY <1>10 DEF WaitForGrow, CheckHead, FailFast, Running, NoFailure, PublishBlock
  <2>2. OthersOwn(t)
    BY <2>1 DEF Excused
  <2> QED
    BY <1>1, <2>1, <2>2 DEF Excused
<1>11. CASE ReloadHead(t)
  <2>1. /\ pc[t] = "reload" /\ pc'[t] = "again" /\ block'[t] = head /\ UNCHANGED <<request, ranges, blocks, head>>
        /\ ~PublishBlock(t)
    BY <1>11 DEF ReloadHead, LoadHead, PublishBlock
  <2>2. OthersOwn(t) \/ Suits(t, head)
    BY <2>1 DEF Excused
  <2> QED
    BY <1>1, <2>1, <2>2 DEF Excused, Suits, MinCapacity
<1> QED
  BY <1>2, <1>3, <1>4, <1>5, <1>6, <1>7, <1>8, <1>9, <1>10, <1>11 DEF Step

LEMMA StepKeepsGrowing ==
  ASSUME ArenaAssumption, MemoryInv, NEW t \in Threads, Step(t) \/ \E r \in Requests : Allocate(t, r),
         Running', SomebodyGrows
  PROVE  SomebodyGrows'
<1> SUFFICES ASSUME grow_state' = "growing"
             PROVE  \E u \in Threads : pc'[u] \in Growing
  BY DEF SomebodyGrows
<1>1. \A u \in Threads \ {t} : pc'[u] = pc[u]
  BY OthersStay DEF MemoryInv
<1>2. ASSUME grow_state = "growing", pc[t] \in Growing => pc'[t] \in Growing
      PROVE  \E u \in Threads : pc'[u] \in Growing
  BY <1>1, <1>2 DEF SomebodyGrows
<1> USE DEF TypeOK, MemoryInv, At, Goto, callVars, chainVars
<1>3. CASE BeginGrow(t)
  <2>1. pc[t] = "grow" /\ pc'[t] = IF grow_state = "idle" THEN "create" ELSE "wait"
    BY <1>3 DEF BeginGrow
  <2>2. CASE grow_state = "idle"
    BY <2>1, <2>2 DEF Growing
  <2>3. CASE grow_state # "idle"
    BY <1>2, <2>1, <2>3 DEF Growing
  <2> QED
    BY <2>2, <2>3
<1>4. CASE EndGrow(t) \/ CreateFails(t) \/ SecondFails(t)
  BY <1>4 DEF EndGrow, CreateFails, SecondFails, FailFast, Running, NoFailure
<1>5. CASE CreateBlock(t) \/ PublishBlock(t) \/ CountBlock(t)
  <2>1. grow_state' = grow_state /\ pc'[t] \in Growing
    BY <1>5 DEF CreateBlock, PublishBlock, CountBlock, Growing
  <2> QED
    BY <1>2, <2>1
<1>6. CASE \/ Reserve(t) \/ Reload(t) \/ FirstFails(t) \/ EnsureCapacity(t) \/ WaitForGrow(t) \/ CheckHead(t)
           \/ ReloadHead(t) \/ CountAllocation(t) \/ AccumulatePeak(t) \/ \E r \in Requests : Allocate(t, r)
  <2>1. grow_state' = grow_state /\ pc[t] \notin Growing
    BY <1>6 DEF Reserve, Reload, Trying, TakeSpace, FirstFails, EnsureCapacity, WaitForGrow, CheckHead, ReloadHead, LoadHead,
       CountAllocation, AccumulatePeak, Allocate, FailFast, Growing
  <2> QED
    BY <1>2, <2>1
<1> QED
  BY <1>3, <1>4, <1>5, <1>6 DEF Step

\* Who is refused has been overtaken: alone it would have got the new block,
\* which is large enough and was empty.
LEMMA RefusedByAnother ==
  ASSUME ArenaAssumption, MemoryInv, RefusalsHold, NEW t \in Threads, SecondFails(t) \/ CheckHead(t)
  PROVE  RefusedByOthers'
<1>1. failure' = failure \/ (Running /\ UNCHANGED <<pc, ranges, head>>)
  BY DEF SecondFails, CheckHead, FailFast, At, chainVars
<1>2. Running /\ Excused(t) /\ TakenBySome /\ LoadedBefore
  BY DEF RefusalsHold, SecondFails, CheckHead, At
<1>3. pc[t] \in {"again", "check"}
  BY DEF SecondFails, CheckHead, At
<1>4. SUFFICES ASSUME failure' # failure
               PROVE  RefusedByOthers'
  BY <1>2 DEF RefusedByOthers, Running, NoFailure
<1>5. UNCHANGED <<pc, ranges, head>>
  BY <1>1, <1>4
<1>6. ASSUME OthersOwn(t)
      PROVE  RefusedByOthers'
  BY <1>3, <1>5, <1>6 DEF RefusedByOthers, OthersOwn, Owns
<1>7. CASE CheckHead(t)
  BY <1>2, <1>6, <1>7 DEF CheckHead, At, Excused
<1>8. CASE SecondFails(t) /\ ~OthersOwn(t)
  <2>1. pc[t] = "again" /\ ~Fits(t)
    BY <1>8 DEF SecondFails, At
  <2>2. Suits(t, head) /\ block[t] = head /\ head \in 1 .. Len(blocks)
    BY <1>2, <1>8, <2>1 DEF Excused, MemoryInv, TypeOK
  <2>3. observed[t] <= blocks[head].offset
    BY <1>2, <2>1, <2>2 DEF LoadedBefore
  <2>4. observed[t] > 0
    <3>1. SUFFICES ASSUME observed[t] = 0 PROVE FALSE
      BY DEF MemoryInv, TypeOK
    <3> DEFINE a == request[t].alignment
               n == request[t].bytes
               p == Padding(t)
               c == blocks[head].capacity
    <3>2. a \in Nat \ {0} /\ n \in Nat /\ p \in Nat /\ c \in Nat
      BY <2>2, ArenaFacts, EndAfterOffset DEF MemoryInv
    <3>3. p < a
      <4> DEFINE x == a - ((blocks[block[t]].base + observed[t]) % a)
      <4>1. (blocks[block[t]].base + observed[t]) % a \in 0 .. a - 1
        <5>1. blocks[block[t]].base \in Nat
          <6>1. blocks[block[t]] \in Block
            BY <2>2, ElementOfSeq DEF MemoryInv, TypeOK
          <6> QED
            BY <6>1 DEF ArenaAssumption, Block
        <5>2. blocks[block[t]].base + observed[t] \in Int
          BY <3>1, <5>1
        <5> HIDE DEF a
        <5> QED
          BY <3>2, <5>2
      <4>2. x \in Int
        BY <3>2, <4>1
      <4>3. p = x % a
        BY DEF Padding
      <4> HIDE DEF x, a, p
      <4> QED
        BY <3>2, <4>2, <4>3
    <3>4. c >= n + a
      BY <2>2 DEF Suits, MinCapacity
    <3>5. End(t) = p + n
      BY <3>1, <3>2 DEF End, Aligned
    <3>6. ~(End(t) <= c)
      BY <2>1, <2>2 DEF Fits
    <3> HIDE DEF a, n, p, c
    <3> QED
      BY <3>2, <3>3, <3>4, <3>5, <3>6
  <2>5. blocks[head].offset > 0
    <3>1. observed[t] \in Nat /\ blocks[head].offset \in Nat
      BY <2>2, ArenaFacts DEF MemoryInv, TypeOK
    <3> QED
      BY <2>3, <2>4, <3>1
  <2>6. PICK r \in ranges : r.block = head
    BY <1>2, <2>2, <2>5 DEF TakenBySome
  <2>7. r.thread # t /\ r.thread \in Threads
    BY <2>2, <2>6, ArenaTypes DEF Suits, MemoryInv
  <2> QED
    BY <1>3, <1>5, <2>6, <2>7 DEF RefusedByOthers
<1> QED
  BY <1>6, <1>7, <1>8

LEMMA StepKeepsRefusals ==
  ASSUME ArenaAssumption, MemoryInv, RefusalsHold,
         NEW t \in Threads, Step(t) \/ \E r \in Requests : Allocate(t, r)
  PROVE  RefusalsHold'
<1>1. Running /\ SomebodyGrows /\ \A u \in Threads : Excused(u)
  BY ArenaMoves DEF RefusalsHold
<1>2. TakenBySome' /\ LoadedBefore'
  BY StepKeepsTaken, StepKeepsLoaded DEF RefusalsHold
<1>3. ASSUME Running'
      PROVE  SomebodyGrows' /\ \A u \in Threads : Excused(u)'
  BY <1>1, <1>3, StepKeepsGrowing, ExcusedStays, ExcusedOfStepper
<1>4. RefusedByOthers'
  <2>1. CASE SecondFails(t) \/ CheckHead(t)
    BY <2>1, RefusedByAnother
  <2>2. CASE ~(SecondFails(t) \/ CheckHead(t))
    <3>1. failure' \notin {"small", "full"}
      BY <1>1, <2>2 DEF Running, NoFailure, Step, Reserve, TakeSpace, Reload, FirstFails, EnsureCapacity, BeginGrow,
         CreateBlock, CreateFails, PublishBlock, CountBlock, EndGrow, WaitForGrow, ReloadHead, CountAllocation,
         AccumulatePeak, Allocate, FailFast
    <3> QED
      BY <3>1 DEF RefusedByOthers
  <2> QED
    BY <2>1, <2>2
<1> QED
  BY <1>2, <1>3, <1>4 DEF RefusalsHold

LEMMA FreshRefusals ==
  ASSUME Len(blocks) = 1, blocks[1].offset = 0, \A t \in Threads : pc[t] = "idle", grow_state = "idle", failure = NoFailure
  PROVE  RefusalsHold
<1>1. TakenBySome /\ LoadedBefore /\ SomebodyGrows /\ \A t \in Threads : Excused(t)
  BY DEF TakenBySome, LoadedBefore, SomebodyGrows, Excused
<1> QED
  BY <1>1 DEF RefusalsHold, RefusedByOthers, NoFailure

-------------------------------------------------------------------------------
AccountsInv == MemoryInv /\ GrowerMarked /\ HeadsHold /\ SpaceHolds /\ PeakHolds /\ RefusalsHold

LEMMA InitAccounts ==
  ASSUME ArenaAssumption, Init
  PROVE  AccountsInv
<1>1. PICK base \in Bases : blocks = <<NewBlock(InitialCapacity, base)>>
  BY DEF Init
<1>2. Len(blocks) = 1 /\ DOMAIN blocks = {1} /\ blocks[1].offset = 0
  BY <1>1 DEF NewBlock
<1>3. /\ \A t \in Threads : pc[t] = "idle"
      /\ grow_state = "idle" /\ failure = NoFailure /\ stats.allocated = 0 /\ stats.waste = 0 /\ stats.peak = 0
  BY DEF Init, NoStats
<1>4. SpaceHolds
  BY <1>2, <1>3, FreshSpace
<1>5. PeakHolds
  BY <1>3 DEF PeakHolds
<1>6. RefusalsHold
  BY <1>2, <1>3, FreshRefusals
<1>7. GrowerMarked
  BY <1>3 DEF GrowerMarked, SingleGrower, Growing
<1> QED
  BY <1>4, <1>5, <1>6, <1>7, InitMemory, InitHeads DEF AccountsInv

LEMMA StepKeepsAccounts ==
  ASSUME ArenaAssumption, AccountsInv, NEW t \in Threads, Step(t) \/ \E r \in Requests : Allocate(t, r)
  PROVE  HeadsHold' /\ SpaceHolds' /\ PeakHolds' /\ RefusalsHold'
<1> USE DEF AccountsInv
<1>0. TypeOK
  BY DEF MemoryInv
<1>1. HeadsHold'
  BY <1>0, QuietKeepsHeads, ReserveKeepsHeads, CreateKeepsHeads, PublishKeepsHeads, CountKeepsHeads DEF Step, Quiet
<1>2. SpaceHolds'
  <2>1. CASE Reserve(t) \/ CreateBlock(t) \/ CountAllocation(t)
    BY <2>1, ReserveKeepsSpace, CreateKeepsSpace, CountKeepsSpace
  <2>2. CASE ~(Reserve(t) \/ CreateBlock(t) \/ CountAllocation(t))
    <3>1. Quiet(t) \/ PublishBlock(t) \/ CountBlock(t)
      BY <2>2 DEF Step, Quiet
    <3>2. /\ pc[t] # "reserved" /\ pc'[t] # "reserved"
          /\ stats'.allocated = stats.allocated /\ stats'.waste = stats.waste
      BY <1>0, <2>2, <3>1, SpaceStays
    <3>3. DOMAIN blocks' = DOMAIN blocks /\ \A b \in DOMAIN blocks : blocks'[b].offset = blocks[b].offset
      <4>1. CASE Quiet(t) \/ CountBlock(t)
        BY <1>0, <4>1, QuietMoves DEF CountBlock
      <4>2. CASE PublishBlock(t)
        BY <4>2, PublishMoves, ArenaFacts, <1>0
      <4> QED
        BY <3>1, <4>1, <4>2
    <3> QED
      BY <1>0, <3>2, <3>3, StillSpace
  <2> QED
    BY <2>1, <2>2
<1>3. PeakHolds'
  BY <1>0, StillPeak, CountKeepsPeak, AccumulateKeepsPeak, QuietStats
<1>4. RefusalsHold'
  BY StepKeepsRefusals
<1> QED
  BY <1>1, <1>2, <1>3, <1>4

LEMMA ResetKeepsAccounts ==
  ASSUME ArenaAssumption, AccountsInv, Reset
  PROVE  HeadsHold' /\ SpaceHolds' /\ PeakHolds' /\ RefusalsHold'
<1> USE DEF AccountsInv
<1>1. /\ Len(blocks') = 1 /\ DOMAIN blocks' = {1} /\ blocks'[1].offset = 0
      /\ stats' = [allocated |-> 0, count |-> 0, waste |-> 0, peak |-> stats.peak]
      /\ UNCHANGED <<grow_state, failure, pc>>
      /\ \A t \in Threads : pc[t] = "idle"
  BY ResetMoves
<1>2. Running /\ stats.peak \in Nat
  BY DEF Reset, MemoryInv, TypeOK
<1>3. HeadsHold'
  BY ResetKeepsHeads
<1>4. SpaceHolds'
  <2>1. stats'.allocated = 0 /\ stats'.waste = 0 /\ \A t \in Threads : pc'[t] = "idle"
    BY <1>1
  <2>2. Offsets' \in [{1} -> Nat] /\ \A x \in {1} : Offsets'[x] = 0
    BY <1>1 DEF Offsets
  <2>3. Pending' \in [Threads -> Nat] /\ \A x \in Threads : Pending'[x] = 0
    BY <2>1 DEF Pending
  <2>4. Cardinality(Units(Offsets')) = 0 /\ Cardinality(Units(Pending')) = 0
    BY <2>2, <2>3, NoUnits
  <2> QED
    BY <2>1, <2>4 DEF SpaceHolds
<1>5. PeakHolds'
  BY <1>1, <1>2 DEF PeakHolds
<1>6. RefusalsHold'
  <2>1. grow_state' # "growing"
    BY <1>1, <1>2 DEF RefusalsHold, SomebodyGrows, Growing
  <2>2. \A t \in Threads : pc'[t] = "idle"
    BY <1>1
  <2>3. TakenBySome' /\ LoadedBefore' /\ SomebodyGrows' /\ \A t \in Threads : Excused(t)'
    BY <1>1, <2>1, <2>2 DEF TakenBySome, LoadedBefore, SomebodyGrows, Excused
  <2>4. RefusedByOthers'
    BY <1>1, <1>2 DEF RefusedByOthers, Running, NoFailure
  <2> QED
    BY <2>3, <2>4 DEF RefusalsHold
<1> QED
  BY <1>3, <1>4, <1>5, <1>6

LEMMA NextKeepsAccounts ==
  ASSUME ArenaAssumption, AccountsInv, [Next]_vars
  PROVE  AccountsInv'
<1>1. MemoryInv' /\ GrowerMarked'
  BY NextKeepsMemory, NextKeepsGrower DEF AccountsInv, MemoryInv
<1>2. HeadsHold' /\ SpaceHolds' /\ PeakHolds' /\ RefusalsHold'
  <2>1. ASSUME NEW t \in Threads, Step(t) \/ \E r \in Requests : Allocate(t, r)
        PROVE  HeadsHold' /\ SpaceHolds' /\ PeakHolds' /\ RefusalsHold'
    BY <2>1, StepKeepsAccounts
  <2>2. CASE Reset
    BY <2>2, ResetKeepsAccounts
  <2>3. CASE UNCHANGED vars
    <3>1. /\ UNCHANGED <<growth, blocks, head, grow_state, total_capacity, block_count, stats, failure, pc,
                         request, block, observed, value, ranges>>
      BY <2>3 DEF vars, chainVars, callVars
    <3>2. HeadsHold'
      BY <3>1 DEF AccountsInv, HeadsHold, Running, Capacities
    <3>3. SpaceHolds' /\ PeakHolds'
      BY <3>1 DEF AccountsInv, SpaceHolds, PeakHolds, Pending, Offsets
    <3>4. RefusalsHold'
      BY <3>1 DEF AccountsInv, RefusalsHold, RefusedByOthers, TakenBySome, LoadedBefore, SomebodyGrows, Excused, Running,
         Suits, OthersOwn, Owns, MinCapacity
    <3> QED
      BY <3>2, <3>3, <3>4
  <2>4. CASE ResetFails
    <3>1. /\ UNCHANGED <<growth, blocks, head, grow_state, total_capacity, block_count, stats, pc,
                         request, block, observed, value, ranges>>
          /\ failure' = "memory"
      BY <2>4 DEF ResetFails, FailFast, chainVars, callVars
    <3>2. HeadsHold'
      BY <3>1 DEF AccountsInv, HeadsHold, Running, NoFailure
    <3>3. SpaceHolds' /\ PeakHolds'
      BY <3>1 DEF AccountsInv, SpaceHolds, PeakHolds, Pending, Offsets
    <3>4. RefusalsHold'
      BY <3>1 DEF AccountsInv, RefusalsHold, RefusedByOthers, TakenBySome, LoadedBefore, Running, NoFailure
    <3> QED
      BY <3>2, <3>3, <3>4
  <2> QED
    BY <2>1, <2>2, <2>3, <2>4 DEF Next, Aborted
<1> QED
  BY <1>1, <1>2 DEF AccountsInv

\* The books of the arena balance, and a thread is only refused after a growth
\* because of another one, however the atomic steps of the allocations
\* interleave: for any number of threads, requests and growths.
THEOREM AccountSafety == Spec => []ArenaAccounts
<1>1. Init => AccountsInv
  BY InitAccounts, ArenaAssumption
<1>2. AccountsInv /\ [Next]_vars => AccountsInv'
  BY NextKeepsAccounts, ArenaAssumption
<1>3. AccountsInv => ArenaAccounts
  BY HeadsTell, SpaceTells, PeakTells, ArenaAssumption DEF AccountsInv, MemoryInv, RefusalsHold, ArenaAccounts
<1> QED
  BY <1>1, <1>2, <1>3, PTL DEF Spec

-------------------------------------------------------------------------------
(***************************************************************************)
(* The free list of the pool.                                              *)
(***************************************************************************)
\* The blocks of q, in their order, are linked one to the next from the head.
LinksIn(first, next, q) ==
  /\ q \in Seq(Blocks)
  /\ \A i, j \in 1 .. Len(q) : q[i] = q[j] => i = j
  /\ first = IF Len(q) = 0 THEN Null ELSE q[1]
  /\ \A i \in 1 .. Len(q) : next[q[i]] = IF i < Len(q) THEN q[i + 1] ELSE Null
Listed(q) == {q[i] : i \in 1 .. Len(q)}
IsList(first, next) == \E q : LinksIn(first, next, q)

\* A pop can reach the blocks of the chain and no others.
LEMMA FreeIsListed ==
  ASSUME NEW h, NEW l, NEW q, LinksIn(h, l, q)
  PROVE  /\ Reached(h, l) = Listed(q) /\ Reached(h, l) \subseteq Blocks /\ IsFiniteSet(Reached(h, l))
         /\ h = Null \/ h \in Reached(h, l)
<1>1. /\ Len(q) \in Nat /\ \A i \in 1 .. Len(q) : q[i] \in Blocks
  BY DEF LinksIn
<1>2. Listed(q) \in SUBSET Blocks
  BY <1>1 DEF Listed
<1>3. Linked(h, l, Listed(q))
  <2>1. h = Null \/ h \in Listed(q)
    BY <1>1 DEF LinksIn, Listed
  <2>2. ASSUME NEW i \in 1 .. Len(q) PROVE l[q[i]] = Null \/ l[q[i]] \in Listed(q)
    BY <1>1 DEF LinksIn, Listed
  <2> QED
    BY <2>1, <2>2 DEF Linked, Listed
<1>4. ASSUME NEW S \in SUBSET Blocks, Linked(h, l, S) PROVE Listed(q) \subseteq S
  <2> DEFINE I == {n \in Nat : n + 1 \in 1 .. Len(q) => q[n + 1] \in S}
  <2>0. \A b \in Blocks : b # Null
    BY DEF Blocks, Null
  <2>1. 0 \in I
    BY <1>1, <1>4, <2>0 DEF Linked, LinksIn
  <2>2. ASSUME NEW n \in I PROVE n + 1 \in I
    <3>1. SUFFICES ASSUME n + 2 \in 1 .. Len(q) PROVE q[n + 2] \in S
      BY <1>1
    <3>2. n + 1 \in 1 .. Len(q) /\ n + 1 < Len(q) /\ q[n + 1] \in S
      BY <1>1, <3>1
    <3>3. l[q[n + 1]] = q[n + 2] /\ q[n + 2] # Null
      BY <1>1, <2>0, <3>1, <3>2 DEF LinksIn
    <3> QED
      BY <1>4, <3>2, <3>3 DEF Linked
  <2>3. I = Nat
    <3>1. I \in SUBSET Nat
      OBVIOUS
    <3> HIDE DEF I
    <3> QED
      BY <2>1, <2>2, <3>1, SetInduction
  <2>4. ASSUME NEW i \in 1 .. Len(q) PROVE q[i] \in S
    <3>1. i - 1 \in Nat /\ (i - 1) + 1 = i
      BY <1>1
    <3>2. i - 1 \in I
      BY <2>3, <3>1
    <3> QED
      BY <3>1, <3>2
  <2> QED
    BY <2>4 DEF Listed
<1>5. Reached(h, l) = Listed(q)
  BY <1>2, <1>3, <1>4 DEF Reached
<1>6. IsFiniteSet(Blocks)
  BY PoolAssumption, FS_Interval DEF Blocks
<1> QED
  BY <1>2, <1>3, <1>5, <1>6, FS_Subset DEF Linked

LEMMA FreeIsFinite ==
  ASSUME NEW h, NEW l, IsList(h, l)
  PROVE  Reached(h, l) \subseteq Blocks /\ IsFiniteSet(Reached(h, l)) /\ (h = Null \/ h \in Reached(h, l))
BY FreeIsListed DEF IsList

\* A swing of the head to what its block links to takes that block.
LEMMA ListPop ==
  ASSUME NEW h, NEW l, IsList(h, l), h # Null
  PROVE  IsList(l[h], l) /\ h \in Reached(h, l) /\ Reached(l[h], l) = Reached(h, l) \ {h}
<1>1. PICK q : LinksIn(h, l, q)
  BY DEF IsList
<1> DEFINE r == Tail(q)
<1>2. Len(q) \in Nat /\ Len(q) # 0 /\ q \in Seq(Blocks)
  BY <1>1 DEF LinksIn
<1>3. /\ r \in Seq(Blocks) /\ Len(r) = Len(q) - 1
      /\ \A i \in 1 .. Len(r) : r[i] = q[i + 1]
  BY <1>2, HeadTailProperties, EmptySeq
<1> HIDE DEF r
<1>4. LinksIn(l[h], l, r)
  <2>1. \A i, j \in 1 .. Len(r) : r[i] = r[j] => i = j
    BY <1>1, <1>2, <1>3 DEF LinksIn
  <2>2. l[h] = IF Len(r) = 0 THEN Null ELSE r[1]
    BY <1>1, <1>2, <1>3 DEF LinksIn
  <2>3. \A i \in 1 .. Len(r) : l[r[i]] = IF i < Len(r) THEN r[i + 1] ELSE Null
    BY <1>1, <1>2, <1>3 DEF LinksIn
  <2> QED
    BY <1>3, <2>1, <2>2, <2>3 DEF LinksIn
<1>5. Listed(q) = Listed(r) \cup {h} /\ h \notin Listed(r)
  <2>1. q[1] = h /\ 1 \in 1 .. Len(q)
    BY <1>1, <1>2 DEF LinksIn
  <2>2. \A i \in 1 .. Len(r) : i + 1 \in 1 .. Len(q) /\ r[i] = q[i + 1] /\ q[i + 1] # h
    <3>1. \A i \in 1 .. Len(r) : i + 1 \in 1 .. Len(q) /\ i + 1 # 1
      BY <1>2, <1>3
    <3> QED
      BY <1>1, <1>3, <2>1, <3>1 DEF LinksIn
  <2>3. \A i \in 1 .. Len(q) : i = 1 \/ (i - 1 \in 1 .. Len(r) /\ r[i - 1] = q[i])
    <3>1. \A i \in 1 .. Len(q) : i = 1 \/ (i - 1 \in 1 .. Len(r) /\ (i - 1) + 1 = i)
      BY <1>2, <1>3
    <3> QED
      BY <1>3, <3>1
  <2>4. Listed(q) \subseteq Listed(r) \cup {h}
    BY <2>1, <2>3 DEF Listed
  <2>5. Listed(r) \subseteq Listed(q) /\ h \in Listed(q) /\ h \notin Listed(r)
    BY <2>1, <2>2 DEF Listed
  <2> QED
    BY <2>4, <2>5
<1>6. Reached(h, l) = Listed(q) /\ Reached(l[h], l) = Listed(r)
  BY <1>1, <1>4, FreeIsListed
<1> QED
  BY <1>4, <1>5, <1>6 DEF IsList

\* A swing of the head to a block that links to it adds the block.
LEMMA ListPush ==
  ASSUME NEW h, NEW l, IsList(h, l), NEW b \in Blocks, b \notin Reached(h, l), l[b] = h
  PROVE  IsList(b, l) /\ Reached(b, l) = Reached(h, l) \cup {b}
<1>1. PICK q : LinksIn(h, l, q)
  BY DEF IsList
<1> DEFINE r == <<b>> \o q
<1>2. Len(q) \in Nat /\ q \in Seq(Blocks) /\ b \notin Listed(q) /\ Reached(h, l) = Listed(q)
  BY <1>1, FreeIsListed DEF LinksIn
<1>3. /\ r \in Seq(Blocks) /\ Len(r) = Len(q) + 1 /\ r[1] = b
      /\ \A i \in 1 .. Len(q) : r[i + 1] = q[i]
  BY <1>2
<1> HIDE DEF r
<1>4. \A i \in 1 .. Len(r) : i = 1 \/ (i - 1 \in 1 .. Len(q) /\ r[i] = q[i - 1])
  <2>1. \A i \in 1 .. Len(r) : i = 1 \/ (i - 1 \in 1 .. Len(q) /\ (i - 1) + 1 = i)
    BY <1>2, <1>3
  <2> QED
    BY <1>3, <2>1
<1>5. LinksIn(b, l, r)
  <2>1. \A i \in 1 .. Len(q) : q[i] # b
    BY <1>2 DEF Listed
  <2>2. ASSUME NEW i \in 1 .. Len(r), NEW j \in 1 .. Len(r), r[i] = r[j] PROVE i = j
    <3>1. i \in Nat /\ j \in Nat
      BY <1>2, <1>3
    <3>2. CASE i = 1 \/ j = 1
      BY <1>3, <1>4, <2>1, <2>2, <3>2
    <3>3. CASE i # 1 /\ j # 1
      <4>1. i - 1 \in 1 .. Len(q) /\ j - 1 \in 1 .. Len(q) /\ q[i - 1] = q[j - 1]
        BY <1>4, <2>2, <3>3
      <4>2. i - 1 = j - 1
        BY <1>1, <4>1 DEF LinksIn
      <4> QED
        BY <3>1, <4>2
    <3> QED
      BY <3>2, <3>3
  <2>3. ASSUME NEW i \in 1 .. Len(r) PROVE l[r[i]] = IF i < Len(r) THEN r[i + 1] ELSE Null
    <3>1. CASE i = 1
      BY <1>1, <1>2, <1>3, <3>1 DEF LinksIn
    <3>2. CASE i # 1
      <4>1. i - 1 \in 1 .. Len(q) /\ r[i] = q[i - 1] /\ i \in Nat
        BY <1>2, <1>3, <1>4, <3>2
      <4>2. l[q[i - 1]] = IF i - 1 < Len(q) THEN q[i] ELSE Null
        BY <1>1, <4>1 DEF LinksIn
      <4>3. i < Len(r) => i \in 1 .. Len(q) /\ r[i + 1] = q[i]
        BY <1>2, <1>3, <4>1
      <4> QED
        BY <1>2, <1>3, <4>1, <4>2, <4>3
    <3> QED
      BY <3>1, <3>2
  <2>4. b = IF Len(r) = 0 THEN Null ELSE r[1]
    BY <1>2, <1>3
  <2> QED
    BY <1>3, <2>2, <2>3, <2>4 DEF LinksIn
<1>6. Listed(r) = Listed(q) \cup {b}
  <2>1. \A i \in 1 .. Len(q) : i + 1 \in 1 .. Len(r) /\ r[i + 1] = q[i]
    BY <1>2, <1>3
  <2>2. Listed(r) \subseteq Listed(q) \cup {b}
    BY <1>3, <1>4 DEF Listed
  <2>3. Listed(q) \subseteq Listed(r)
    BY <2>1 DEF Listed
  <2>4. b \in Listed(r)
    <3>1. 1 \in 1 .. Len(r)
      BY <1>2, <1>3
    <3> QED
      BY <1>3, <3>1 DEF Listed
  <2> QED
    BY <2>2, <2>3, <2>4
<1> QED
  BY <1>2, <1>5, <1>6, FreeIsListed DEF IsList

\* A link of a block that is not free is of no account.
LEMMA ListLink ==
  ASSUME NEW h, NEW l \in [Blocks -> Blocks \cup {Null}], IsList(h, l), NEW b \in Blocks \ Reached(h, l), NEW x
  PROVE  IsList(h, [l EXCEPT ![b] = x]) /\ Reached(h, [l EXCEPT ![b] = x]) = Reached(h, l)
<1> DEFINE k == [l EXCEPT ![b] = x]
<1>1. PICK q : LinksIn(h, l, q)
  BY DEF IsList
<1>2. Len(q) \in Nat /\ q \in Seq(Blocks) /\ b \notin Listed(q) /\ Reached(h, l) = Listed(q)
  BY <1>1, FreeIsListed DEF LinksIn
<1>3. \A i \in 1 .. Len(q) : k[q[i]] = l[q[i]]
  BY <1>2 DEF Listed
<1> HIDE DEF k
<1>4. LinksIn(h, k, q)
  BY <1>1, <1>3 DEF LinksIn
<1>5. IsList(h, k) /\ Reached(h, k) = Reached(h, l)
  BY <1>2, <1>4, FreeIsListed DEF IsList
<1> QED
  BY <1>5 DEF k

\* The chain of a chunk that was linked block by block.
LEMMA ListOfChunk ==
  ASSUME NEW n \in 0 .. MaxBlocks
  PROVE  IsList(n, Chained(n)) /\ Reached(n, Chained(n)) = 1 .. n
<1> DEFINE q == [i \in 1 .. n |-> n + 1 - i]
           l == Chained(n)
<1>1. n \in Nat /\ MaxBlocks \in Nat /\ n <= MaxBlocks
  BY PoolAssumption
<1>2. q \in Seq(Blocks) /\ Len(q) = n /\ \A i \in 1 .. n : q[i] = n + 1 - i
  <2>1. \A i \in 1 .. n : n + 1 - i \in Blocks
    BY <1>1 DEF Blocks
  <2> QED
    BY <1>1, <2>1
<1>3. \A b \in Blocks : l[b] = IF b \in 2 .. n THEN b - 1 ELSE Null
  BY DEF Chained
<1> HIDE DEF q, l
<1>4. LinksIn(n, l, q)
  <2>1. ASSUME NEW i \in 1 .. n PROVE l[q[i]] = IF i < n THEN q[i + 1] ELSE Null
    <3>1. q[i] = n + 1 - i /\ n + 1 - i \in Blocks
      BY <1>1, <1>2 DEF Blocks
    <3>2. i < n => q[i + 1] = n - i
      BY <1>1, <1>2
    <3> QED
      BY <1>1, <1>3, <3>1, <3>2
  <2>2. n = IF n = 0 THEN Null ELSE q[1]
    BY <1>1, <1>2 DEF Null
  <2> QED
    BY <1>1, <1>2, <2>1, <2>2 DEF LinksIn
<1>5. Listed(q) = 1 .. n
  <2>1. \A b \in 1 .. n : n + 1 - b \in 1 .. n /\ q[n + 1 - b] = b
    BY <1>1, <1>2
  <2>2. \A i \in 1 .. n : q[i] \in 1 .. n
    BY <1>1, <1>2
  <2> QED
    BY <1>2, <2>1, <2>2 DEF Listed
<1>6. IsList(n, l) /\ Reached(n, l) = 1 .. n
  BY <1>4, <1>5, FreeIsListed DEF IsList
<1> QED
  BY <1>6 DEF l

(***************************************************************************)
(* The invariant of the pool: every block of the chunks is free, held by a *)
(* caller or in the hands of one push; where the threads are in their      *)
(* calls makes up the difference between the counter and the free list.    *)
(***************************************************************************)
Flight(c) == IF c.at \in {"push", "pushed"} THEN c.block .. c.last ELSE {}
Grows(c) == c.at \in {"create", "grown"} \/ (c.at \in {"push", "pushed"} /\ c.then = "grown")
GrowFlight(c) == IF Grows(c) THEN Flight(c) ELSE {}
Here(c, place) == IF c.at = place THEN 1 ELSE 0
Uncounted(c) == Here(c, "freed") - Here(c, "count")
Flights(calls) == UNION {Flight(calls[t]) : t \in PoolThreads}
GrowFlights(calls) == UNION {GrowFlight(calls[t]) : t \in PoolThreads}
ThreadsAt(calls, at) == {t \in PoolThreads : calls[t].at = at}
AllUncounted(calls) == Cardinality(ThreadsAt(calls, "freed")) - Cardinality(ThreadsAt(calls, "count"))

PoolCalls ==
  [at : {"idle", "count", "wait", "grown", "freed", "aborted"}]
    \cup [at : {"pop"}, observed : Blocks \cup {Null}, grown : BOOLEAN]
    \cup [at : {"swing"}, observed : Blocks, next : Blocks \cup {Null}, grown : BOOLEAN]
    \cup [at : {"peak"}, free_now : Int]
    \cup [at : {"claim", "create"}, blocks : 0 .. MaxBlocks]
    \cup [at : {"push", "pushed"}, block : Blocks, last : Blocks, observed : Blocks \cup {Null}, then : {"grown", "freed"}]

PoolTypeOK ==
  /\ link \in [Blocks -> Blocks \cup {Null}] /\ free_head_ \in Blocks \cup {Null}
  /\ grow_state_ \in {"idle", "growing"}
  /\ total_blocks_ \in 0 .. MaxBlocks /\ free_blocks_ \in Int /\ peak_used_blocks_ \in Int
  /\ held \in SUBSET Blocks
  /\ call \in [PoolThreads -> PoolCalls]

\* Each block is in one place.
BlocksApart ==
  /\ UNION chunks_ = 1 .. total_blocks_
  /\ Free \cup held \cup Flights(call) = 1 .. total_blocks_
  /\ Free \cap held = {}
  /\ \A t \in PoolThreads : Flight(call[t]) \cap (Free \cup held) = {}
  /\ \A s, t \in PoolThreads : s # t => Flight(call[s]) \cap Flight(call[t]) = {}

OneGrows ==
  /\ \A s, t \in PoolThreads : Grows(call[s]) /\ Grows(call[t]) => s = t
  /\ \A t \in PoolThreads : Grows(call[t]) => grow_state_ = "growing"

\* Only one thread takes blocks, or none gives them back.
OnePops == Freeing = {} \/ \A s, t \in Allocating : s = t

\* What a pop has seen of a free block still holds, where only one thread pops:
\* the block it observed was not taken and pushed again since.
PopHolds(t, c, free, taken, next) ==
  /\ OnePops /\ c.at \in {"pop", "swing"} =>
       c.observed = Null \/ c.observed \in free \/ (Freeing = {} /\ c.observed \in taken)
  /\ OnePops /\ c.at = "swing" /\ c.observed \in free => c.next = next[c.observed]
  /\ c.at \in {"pop", "swing", "claim", "wait"} \/ Grows(c) => t \in Allocating

\* The block of a push links to the head that it has seen.
PushHolds(t, c, next) ==
  /\ c.at = "pushed" => next[c.block] = c.observed
  /\ c.at \in {"push", "pushed"} => c.block <= c.last /\ (c.then = "freed" => c.block = c.last)
  /\ (c.at = "freed" \/ (c.at \in {"push", "pushed"} /\ c.then = "freed")) => t \in Freeing

CallsHold == \A t \in PoolThreads : PopHolds(t, call[t], Free, held, link) /\ PushHolds(t, call[t], link)

CountsHold == free_blocks_ + AllUncounted(call) = Cardinality(Free) + Cardinality(GrowFlights(call))

PoolInv ==
  PoolTypeOK /\ IsList(free_head_, link) /\ BlocksApart /\ OneGrows /\ CallsHold /\ CountsHold

\* The fields of a call, by where it is.
LEMMA CallFields ==
  ASSUME NEW c \in PoolCalls
  PROVE  /\ c.at = "pop" => c.observed \in Blocks \cup {Null} /\ c.grown \in BOOLEAN
         /\ c.at = "swing" => c.observed \in Blocks /\ c.next \in Blocks \cup {Null} /\ c.grown \in BOOLEAN
         /\ c.at = "peak" => c.free_now \in Int
         /\ c.at \in {"claim", "create"} => c.blocks \in 0 .. MaxBlocks
         /\ c.at \in {"push", "pushed"} =>
              c.block \in Blocks /\ c.last \in Blocks /\ c.observed \in Blocks \cup {Null} /\ c.then \in {"grown", "freed"}
BY DEF PoolCalls

LEMMA FlightIsFinite ==
  ASSUME NEW c \in PoolCalls
  PROVE  Flight(c) \subseteq Blocks /\ IsFiniteSet(Flight(c)) /\ GrowFlight(c) \subseteq Blocks /\ IsFiniteSet(GrowFlight(c))
<1>1. Flight(c) \subseteq Blocks
  BY CallFields, PoolAssumption DEF Flight, Blocks
<1>2. IsFiniteSet(Blocks)
  BY PoolAssumption, FS_Interval DEF Blocks
<1>3. GrowFlight(c) \subseteq Blocks
  BY <1>1 DEF GrowFlight
<1> QED
  BY <1>1, <1>2, <1>3, FS_Subset

\* A thread moves from one place of its call to another.
LEMMA ThreadMoves ==
  ASSUME NEW calls \in [PoolThreads -> PoolCalls], NEW t \in PoolThreads, NEW c \in PoolCalls, NEW place
  PROVE  /\ Cardinality(ThreadsAt(calls, place)) \in Nat
         /\ Cardinality(ThreadsAt([calls EXCEPT ![t] = c], place)) \in Nat
         /\ Cardinality(ThreadsAt([calls EXCEPT ![t] = c], place)) =
              Cardinality(ThreadsAt(calls, place)) - Here(calls[t], place) + Here(c, place)
<1> DEFINE next == [calls EXCEPT ![t] = c]
           A == ThreadsAt(calls, place)
           B == ThreadsAt(next, place)
           C == A \ {t}
<1>0. next[t] = c /\ \A s \in PoolThreads \ {t} : next[s] = calls[s]
  OBVIOUS
<1>1. IsFiniteSet(PoolThreads) /\ A \subseteq PoolThreads /\ B \subseteq PoolThreads /\ C \subseteq PoolThreads
  BY PoolAssumption DEF PoolThreads, ThreadsAt
<1> HIDE DEF next
<1>2. A = (IF calls[t].at = place THEN C \cup {t} ELSE C) /\ B = (IF c.at = place THEN C \cup {t} ELSE C) /\ t \notin C
  BY <1>0 DEF ThreadsAt
<1> HIDE DEF A, B, C
<1>3. /\ IsFiniteSet(A) /\ IsFiniteSet(B) /\ IsFiniteSet(C)
      /\ Cardinality(A) \in Nat /\ Cardinality(B) \in Nat /\ Cardinality(C) \in Nat
  BY <1>1, FS_Subset, FS_CardinalityType
<1>4. Cardinality(C \cup {t}) = Cardinality(C) + 1
  BY <1>2, <1>3, FS_AddElement
<1>5. /\ Cardinality(A) = Cardinality(C) + Here(calls[t], place)
      /\ Cardinality(B) = Cardinality(C) + Here(c, place)
  BY <1>2, <1>3, <1>4 DEF Here
<1>6. Cardinality(B) = Cardinality(A) - Here(calls[t], place) + Here(c, place)
  <2>1. Here(calls[t], place) \in Nat /\ Here(c, place) \in Nat
    BY DEF Here
  <2> QED
    BY <1>3, <1>5, <2>1
<1> QED
  BY <1>3, <1>6 DEF A, B, next

\* What that is for the calls that took a block, or gave one back, and have not
\* counted it.
LEMMA UncountedMoves ==
  ASSUME NEW calls \in [PoolThreads -> PoolCalls], NEW t \in PoolThreads, NEW c \in PoolCalls
  PROVE  /\ AllUncounted(calls) \in Int /\ AllUncounted([calls EXCEPT ![t] = c]) \in Int
         /\ Uncounted(c) \in Int /\ Uncounted(calls[t]) \in Int
         /\ AllUncounted([calls EXCEPT ![t] = c]) = AllUncounted(calls) + Uncounted(c) - Uncounted(calls[t])
<1> DEFINE next == [calls EXCEPT ![t] = c]
<1>1. /\ Cardinality(ThreadsAt(calls, "freed")) \in Nat /\ Cardinality(ThreadsAt(next, "freed")) \in Nat
      /\ Cardinality(ThreadsAt(next, "freed")) =
           Cardinality(ThreadsAt(calls, "freed")) - Here(calls[t], "freed") + Here(c, "freed")
  BY ThreadMoves
<1>2. /\ Cardinality(ThreadsAt(calls, "count")) \in Nat /\ Cardinality(ThreadsAt(next, "count")) \in Nat
      /\ Cardinality(ThreadsAt(next, "count")) =
           Cardinality(ThreadsAt(calls, "count")) - Here(calls[t], "count") + Here(c, "count")
  BY ThreadMoves
<1>3. \A x, place : Here(x, place) \in Nat
  BY DEF Here
<1> HIDE DEF next
<1>4. AllUncounted(calls) \in Int /\ AllUncounted(next) \in Int /\ Uncounted(c) \in Int /\ Uncounted(calls[t]) \in Int
  BY <1>1, <1>2, <1>3 DEF Uncounted, AllUncounted
<1>5. AllUncounted(next) = AllUncounted(calls) + Uncounted(c) - Uncounted(calls[t])
  BY <1>1, <1>2, <1>3 DEF Uncounted, AllUncounted
<1> QED
  BY <1>4, <1>5 DEF next

\* The blocks of a chunk that are not free yet are those of the thread that grows.
LEMMA GrowFlightsAre ==
  ASSUME NEW calls \in [PoolThreads -> PoolCalls],
         \A s, u \in PoolThreads : Grows(calls[s]) /\ Grows(calls[u]) => s = u,
         NEW t \in PoolThreads
  PROVE  /\ IsFiniteSet(GrowFlights(calls))
         /\ Grows(calls[t]) => GrowFlights(calls) = GrowFlight(calls[t])
         /\ (\A s \in PoolThreads \ {t} : ~Grows(calls[s])) => GrowFlights(calls) = GrowFlight(calls[t])
<1>1. \A s \in PoolThreads : ~Grows(calls[s]) => GrowFlight(calls[s]) = {}
  BY DEF GrowFlight
<1>2. GrowFlights(calls) \subseteq Blocks
  BY FlightIsFinite DEF GrowFlights
<1>3. IsFiniteSet(GrowFlights(calls))
  <2>1. IsFiniteSet(Blocks)
    BY PoolAssumption, FS_Interval DEF Blocks
  <2> QED
    BY <1>2, <2>1, FS_Subset
<1>4. ASSUME \A s \in PoolThreads \ {t} : ~Grows(calls[s])
      PROVE  GrowFlights(calls) = GrowFlight(calls[t])
  <2>1. \A s \in PoolThreads \ {t} : GrowFlight(calls[s]) = {}
    BY <1>1, <1>4
  <2>2. GrowFlights(calls) \subseteq GrowFlight(calls[t])
    BY <2>1 DEF GrowFlights
  <2>3. GrowFlight(calls[t]) \subseteq GrowFlights(calls)
    BY DEF GrowFlights
  <2> QED
    BY <2>2, <2>3
<1>5. Grows(calls[t]) => \A s \in PoolThreads \ {t} : ~Grows(calls[s])
  OBVIOUS
<1> QED
  BY <1>3, <1>4, <1>5

\* A step of one thread.  What it gives to the free list, to the callers or to
\* its own push it takes from there or from a new chunk.
LEMMA PoolStep ==
  ASSUME PoolInv, NEW t \in PoolThreads, NEW c \in PoolCalls, call' = [call EXCEPT ![t] = c],
         PoolTypeOK', IsList(free_head_, link)',
         total_blocks_ <= total_blocks_', (UNION chunks_)' = 1 .. total_blocks_',
         Free' \cup held' \cup Flight(c) =
           Free \cup held \cup Flight(call[t]) \cup (total_blocks_ + 1 .. total_blocks_'),
         Free' \cap held' = {}, Flight(c) \cap (Free' \cup held') = {},
         Grows(c) => grow_state_' = "growing" /\ (Grows(call[t]) \/ grow_state_ = "idle"),
         grow_state_' = "growing" \/ grow_state_' = grow_state_ \/ Grows(call[t]),
         PopHolds(t, c, Free', held', link'), PushHolds(t, c, link'),
         \A s \in PoolThreads \ {t} : PopHolds(s, call[s], Free', held', link') /\ PushHolds(s, call[s], link'),
         free_blocks_' + Uncounted(c) - Cardinality(Free') - Cardinality(GrowFlight(c)) =
           free_blocks_ + Uncounted(call[t]) - Cardinality(Free) - Cardinality(GrowFlight(call[t]))
  PROVE  PoolInv'
<1>1. /\ call \in [PoolThreads -> PoolCalls] /\ call' \in [PoolThreads -> PoolCalls]
      /\ call'[t] = c /\ \A s \in PoolThreads \ {t} : call'[s] = call[s]
      /\ total_blocks_ \in Nat /\ total_blocks_' \in Nat
  BY PoolAssumption DEF PoolInv, PoolTypeOK
<1>2. OneGrows'
  <2>1. \A s, u \in PoolThreads : Grows(call'[s]) /\ Grows(call'[u]) => s = u
    BY <1>1 DEF PoolInv, OneGrows
  <2>2. \A s \in PoolThreads : Grows(call'[s]) => grow_state_' = "growing"
    BY <1>1 DEF PoolInv, OneGrows
  <2> QED
    BY <2>1, <2>2 DEF OneGrows
<1>3. BlocksApart'
  <2>1. Flights(call) = Flight(call[t]) \cup UNION {Flight(call[s]) : s \in PoolThreads \ {t}}
    BY DEF Flights
  <2>2. Flights(call') = Flight(c) \cup UNION {Flight(call[s]) : s \in PoolThreads \ {t}}
    <3>1. Flights(call') = Flight(call'[t]) \cup UNION {Flight(call'[s]) : s \in PoolThreads \ {t}}
      BY DEF Flights
    <3>2. {Flight(call'[s]) : s \in PoolThreads \ {t}} = {Flight(call[s]) : s \in PoolThreads \ {t}}
      BY <1>1
    <3> QED
      BY <1>1, <3>1, <3>2
  <2>3. Free \cup held \cup Flights(call) = 1 .. total_blocks_
    BY DEF PoolInv, BlocksApart
  <2>4. 1 .. total_blocks_' = (1 .. total_blocks_) \cup (total_blocks_ + 1 .. total_blocks_')
    BY <1>1
  <2>5. Free' \cup held' \cup Flights(call') = 1 .. total_blocks_'
    BY <2>1, <2>2, <2>3, <2>4
  <2>6. ASSUME NEW s \in PoolThreads \ {t} PROVE Flight(call[s]) \cap (Free' \cup held' \cup Flight(c)) = {}
    <3>1. Flight(call[s]) \subseteq 1 .. total_blocks_
      BY <2>3 DEF Flights
    <3>2. Flight(call[s]) \cap (total_blocks_ + 1 .. total_blocks_') = {}
      BY <1>1, <3>1
    <3>3. Flight(call[s]) \cap (Free \cup held \cup Flight(call[t])) = {}
      BY DEF PoolInv, BlocksApart
    <3> QED
      BY <3>2, <3>3
  <2>7. \A s \in PoolThreads : Flight(call'[s]) \cap (Free' \cup held') = {}
    BY <1>1, <2>6
  <2>8. \A s, u \in PoolThreads : s # u => Flight(call'[s]) \cap Flight(call'[u]) = {}
    <3>1. \A s, u \in PoolThreads \ {t} : s # u => Flight(call[s]) \cap Flight(call[u]) = {}
      BY DEF PoolInv, BlocksApart
    <3> QED
      BY <1>1, <2>6, <3>1
  <2> QED
    BY <2>5, <2>7, <2>8 DEF BlocksApart
<1>4. CallsHold'
  <2>1. \A s \in PoolThreads : PopHolds(s, call'[s], Free', held', link') /\ PushHolds(s, call'[s], link')
    BY <1>1
  <2> QED
    BY <2>1 DEF CallsHold, PopHolds, PushHolds
<1>5. CountsHold'
  <2>1. /\ \A s, u \in PoolThreads : Grows(call[s]) /\ Grows(call[u]) => s = u
        /\ \A s, u \in PoolThreads : Grows(call'[s]) /\ Grows(call'[u]) => s = u
    BY <1>2 DEF PoolInv, OneGrows
  <2>2. Cardinality(GrowFlights(call')) - Cardinality(GrowFlight(c)) =
          Cardinality(GrowFlights(call)) - Cardinality(GrowFlight(call[t]))
    <3>0. ASSUME NEW x \in PoolCalls PROVE /\ Cardinality(GrowFlight(x)) \in Nat
                                           /\ ~Grows(x) => GrowFlight(x) = {} /\ Cardinality(GrowFlight(x)) = 0
      BY FlightIsFinite, FS_CardinalityType, FS_EmptySet DEF GrowFlight
    <3>1. CASE \A s \in PoolThreads \ {t} : ~Grows(call[s])
      <4>1. \A s \in PoolThreads \ {t} : ~Grows(call'[s])
        BY <1>1, <3>1
      <4>2. GrowFlights(call) = GrowFlight(call[t]) /\ GrowFlights(call') = GrowFlight(c)
        BY <1>1, <2>1, <3>1, <4>1, GrowFlightsAre
      <4> QED
        BY <1>1, <3>0, <4>2
    <3>2. CASE \E s \in PoolThreads \ {t} : Grows(call[s])
      <4>1. PICK s \in PoolThreads \ {t} : Grows(call[s])
        BY <3>2
      <4>2. call'[s] = call[s] /\ Grows(call'[s]) /\ ~Grows(call[t]) /\ ~Grows(c)
        BY <1>1, <2>1, <4>1
      <4>3. GrowFlights(call) = GrowFlight(call[s]) /\ GrowFlights(call') = GrowFlight(call[s])
        BY <1>1, <2>1, <4>1, <4>2, GrowFlightsAre
      <4> QED
        BY <1>1, <3>0, <4>2, <4>3
    <3> QED
      BY <3>1, <3>2
  <2>4. /\ AllUncounted(call) \in Int /\ AllUncounted(call') \in Int /\ Uncounted(c) \in Int /\ Uncounted(call[t]) \in Int
        /\ AllUncounted(call') = AllUncounted(call) + Uncounted(c) - Uncounted(call[t])
    <3>1. call \in [PoolThreads -> PoolCalls] /\ call' = [call EXCEPT ![t] = c]
      BY <1>1
    <3> QED
      BY <3>1, UncountedMoves
  <2>6. /\ Cardinality(Free) \in Nat /\ Cardinality(Free') \in Nat
        /\ Cardinality(GrowFlights(call)) \in Nat /\ Cardinality(GrowFlights(call')) \in Nat
        /\ Cardinality(GrowFlight(c)) \in Nat /\ Cardinality(GrowFlight(call[t])) \in Nat
        /\ free_blocks_ \in Int /\ free_blocks_' \in Int
    <3>1. IsFiniteSet(Free) /\ IsFiniteSet(Free')
      BY FreeIsFinite DEF PoolInv, Free
    <3>2. IsFiniteSet(GrowFlights(call)) /\ IsFiniteSet(GrowFlights(call'))
      BY <1>1, <2>1, GrowFlightsAre
    <3>3. IsFiniteSet(GrowFlight(c)) /\ IsFiniteSet(GrowFlight(call[t]))
      BY <1>1, FlightIsFinite
    <3> QED
      BY <3>1, <3>2, <3>3, FS_CardinalityType DEF PoolInv, PoolTypeOK
  <2>7. free_blocks_ + AllUncounted(call) = Cardinality(Free) + Cardinality(GrowFlights(call))
    BY DEF PoolInv, CountsHold
  <2>8. free_blocks_' + AllUncounted(call') = Cardinality(Free') + Cardinality(GrowFlights(call'))
    BY <2>2, <2>4, <2>6, <2>7
  <2> QED
    BY <2>8 DEF CountsHold
<1> QED
  BY <1>2, <1>3, <1>4, <1>5 DEF PoolInv

\* A step that changes the call of its thread and no block.
LEMMA PoolCallStep ==
  ASSUME PoolInv, NEW t \in PoolThreads, NEW c \in PoolCalls, call' = [call EXCEPT ![t] = c],
         UNCHANGED <<free_head_, link, total_blocks_, chunks_, held>>,
         grow_state_' \in {"idle", "growing"}, free_blocks_' \in Int, peak_used_blocks_' \in Int,
         Flight(c) = Flight(call[t]), GrowFlight(c) = GrowFlight(call[t]),
         Grows(c) => grow_state_' = "growing" /\ (Grows(call[t]) \/ grow_state_ = "idle"),
         grow_state_' = "growing" \/ grow_state_' = grow_state_ \/ Grows(call[t]),
         PopHolds(t, c, Free, held, link), PushHolds(t, c, link),
         free_blocks_' + Uncounted(c) = free_blocks_ + Uncounted(call[t])
  PROVE  PoolInv'
<1>1. Free' = Free /\ held' = held /\ link' = link
  BY DEF Free
<1>2. PoolTypeOK'
  BY DEF PoolInv, PoolTypeOK
<1>3. IsList(free_head_, link)'
  BY DEF PoolInv
<1>4. total_blocks_ \in Nat /\ total_blocks_' = total_blocks_ /\ total_blocks_ + 1 .. total_blocks_' = {}
  BY PoolAssumption DEF PoolInv, PoolTypeOK
<1>5. /\ (UNION chunks_)' = 1 .. total_blocks_' /\ Free' \cap held' = {} /\ Flight(c) \cap (Free' \cup held') = {}
  BY <1>1 DEF PoolInv, BlocksApart
<1>6. \A s \in PoolThreads \ {t} : PopHolds(s, call[s], Free', held', link') /\ PushHolds(s, call[s], link')
  BY <1>1 DEF PoolInv, CallsHold
<1>7. free_blocks_' + Uncounted(c) - Cardinality(Free') - Cardinality(GrowFlight(c)) =
        free_blocks_ + Uncounted(call[t]) - Cardinality(Free) - Cardinality(GrowFlight(call[t]))
  <2>1. Cardinality(Free') = Cardinality(Free) /\ Cardinality(GrowFlight(c)) = Cardinality(GrowFlight(call[t]))
    BY <1>1
  <2>2. Uncounted(c) \in Int /\ Uncounted(call[t]) \in Int
    BY DEF Uncounted, Here
  <2>3. Cardinality(Free) \in Nat /\ Cardinality(GrowFlight(call[t])) \in Nat /\ free_blocks_ \in Int
    BY FreeIsFinite, FlightIsFinite, FS_CardinalityType DEF PoolInv, PoolTypeOK, Free
  <2> QED
    BY <2>1, <2>2, <2>3
<1>8. Free' \cup held' \cup Flight(c) =
        Free \cup held \cup Flight(call[t]) \cup (total_blocks_ + 1 .. total_blocks_')
  BY <1>1, <1>4
<1>9. total_blocks_ <= total_blocks_' /\ PopHolds(t, c, Free', held', link') /\ PushHolds(t, c, link')
  BY <1>1, <1>4
<1> QED
  BY <1>2, <1>3, <1>5, <1>6, <1>7, <1>8, <1>9, PoolStep

\* A call that pushes nothing and is not about to be counted.
Plain(c) == c.at \notin {"push", "pushed", "freed", "count"}

LEMMA PlainCall ==
  ASSUME NEW c, Plain(c), NEW t, NEW next
  PROVE  Flight(c) = {} /\ GrowFlight(c) = {} /\ Uncounted(c) = 0 /\ PushHolds(t, c, next)
BY DEF Plain, Flight, GrowFlight, Uncounted, Here, PushHolds

LEMMA PlainPoolStep ==
  ASSUME PoolInv, NEW t \in PoolThreads, NEW c \in PoolCalls, call' = [call EXCEPT ![t] = c],
         Plain(call[t]), Plain(c),
         UNCHANGED <<free_head_, link, total_blocks_, chunks_, held, free_blocks_>>,
         grow_state_' \in {"idle", "growing"}, peak_used_blocks_' \in Int,
         Grows(c) => grow_state_' = "growing" /\ (Grows(call[t]) \/ grow_state_ = "idle"),
         grow_state_' = "growing" \/ grow_state_' = grow_state_ \/ Grows(call[t]),
         PopHolds(t, c, Free, held, link)
  PROVE  PoolInv'
<1>1. /\ Flight(c) = {} /\ GrowFlight(c) = {} /\ Uncounted(c) = 0 /\ PushHolds(t, c, link)
      /\ Flight(call[t]) = {} /\ GrowFlight(call[t]) = {} /\ Uncounted(call[t]) = 0
  BY PlainCall
<1>2. free_blocks_' \in Int
  BY DEF PoolInv, PoolTypeOK
<1>3. /\ UNCHANGED <<free_head_, link, total_blocks_, chunks_, held>>
      /\ free_blocks_' + Uncounted(c) = free_blocks_ + Uncounted(call[t])
      /\ Flight(c) = Flight(call[t]) /\ GrowFlight(c) = GrowFlight(call[t])
  BY <1>1
<1> QED
  BY <1>1, <1>2, <1>3, PoolCallStep

\* What the invariant says of a thread, its call and the state.
LEMMA OfThread ==
  ASSUME PoolInv, NEW t \in PoolThreads
  PROVE  /\ call[t] \in PoolCalls /\ PopHolds(t, call[t], Free, held, link) /\ PushHolds(t, call[t], link)
         /\ free_head_ = Null \/ free_head_ \in Free
         /\ free_head_ \in Blocks \cup {Null} /\ link \in [Blocks -> Blocks \cup {Null}]
         /\ grow_state_ \in {"idle", "growing"}
         /\ total_blocks_ \in 0 .. MaxBlocks /\ free_blocks_ \in Int /\ peak_used_blocks_ \in Int
         /\ Free \subseteq Blocks /\ IsFiniteSet(Free) /\ Cardinality(Free) \in Nat
         /\ Grows(call[t]) => grow_state_ = "growing"
<1>1. Free \subseteq Blocks /\ IsFiniteSet(Free) /\ (free_head_ = Null \/ free_head_ \in Free)
  BY FreeIsFinite DEF PoolInv, Free
<1>2. Cardinality(Free) \in Nat
  BY <1>1, FS_CardinalityType
<1>3. Grows(call[t]) => grow_state_ = "growing"
  BY DEF PoolInv, OneGrows
<1> QED
  BY <1>1, <1>2, <1>3 DEF PoolInv, PoolTypeOK, CallsHold

LEMMA BeginAllocateKeeps ==
  ASSUME PoolInv, NEW t \in PoolThreads, BeginAllocate(t)
  PROVE  PoolInv'
<1> DEFINE c == [at |-> "pop", observed |-> free_head_, grown |-> FALSE]
<1>1. c \in PoolCalls /\ call' = [call EXCEPT ![t] = c]
  BY OfThread DEF PoolCalls, BeginAllocate, Goes
<1>2. Plain(call[t]) /\ Plain(c) /\ ~Grows(c)
  BY DEF BeginAllocate, PoolIdle, Plain, Grows
<1>3. PopHolds(t, c, Free, held, link)
  BY OfThread DEF PopHolds, BeginAllocate
<1>4. /\ UNCHANGED <<free_head_, link, total_blocks_, chunks_, held, free_blocks_>>
      /\ grow_state_' = grow_state_ /\ grow_state_' \in {"idle", "growing"} /\ peak_used_blocks_' \in Int
  BY OfThread DEF BeginAllocate
<1> HIDE DEF c
<1> QED
  BY <1>1, <1>2, <1>3, <1>4, PlainPoolStep

LEMMA ReadNextKeeps ==
  ASSUME PoolInv, NEW t \in PoolThreads, ReadNext(t)
  PROVE  PoolInv'
<1> DEFINE c == [at |-> "swing", observed |-> call[t].observed, next |-> link[call[t].observed], grown |-> call[t].grown]
<1>0. call[t].at = "pop" /\ call[t].observed \in Blocks /\ call[t].grown \in BOOLEAN
  BY OfThread, CallFields DEF ReadNext, PoolAt
<1>1. c \in PoolCalls /\ call' = [call EXCEPT ![t] = c]
  BY <1>0, OfThread DEF PoolCalls, ReadNext, Goes
<1>2. Plain(call[t]) /\ Plain(c) /\ ~Grows(c)
  BY <1>0 DEF Plain, Grows
<1>3. PopHolds(t, c, Free, held, link)
  BY <1>0, OfThread DEF PopHolds
<1>4. /\ UNCHANGED <<free_head_, link, total_blocks_, chunks_, held, free_blocks_>>
      /\ grow_state_' = grow_state_ /\ grow_state_' \in {"idle", "growing"} /\ peak_used_blocks_' \in Int
  BY OfThread DEF ReadNext
<1> HIDE DEF c
<1> QED
  BY <1>1, <1>2, <1>3, <1>4, PlainPoolStep

\* The head is a block of the list or Null, so a pop that succeeds takes it off
\* the list unless the link it read is no longer that of the block.
LEMMA SwingKeeps ==
  ASSUME PoolInv, NEW t \in PoolThreads, Swing(t), ~StalePop(t)
  PROVE  PoolInv'
<1>0. call[t].at = "swing" /\ call[t].observed \in Blocks /\ call[t].next \in Blocks \cup {Null} /\ call[t].grown \in BOOLEAN
  BY OfThread, CallFields DEF Swing, PoolAt
<1>1. Plain(call[t]) /\ ~Grows(call[t]) /\ t \in Allocating
  BY <1>0, OfThread DEF Plain, Grows, PopHolds
<1>2. CASE free_head_ # call[t].observed
  <2> DEFINE c == [at |-> "pop", observed |-> free_head_, grown |-> call[t].grown]
  <2>1. c \in PoolCalls /\ call' = [call EXCEPT ![t] = c]
    BY <1>0, <1>2, OfThread DEF PoolCalls, Swing, Goes
  <2>2. Plain(c) /\ ~Grows(c)
    BY DEF Plain, Grows
  <2>3. PopHolds(t, c, Free, held, link)
    BY <1>1, OfThread DEF PopHolds
  <2>4. /\ UNCHANGED <<free_head_, link, total_blocks_, chunks_, held, free_blocks_>>
        /\ grow_state_' = grow_state_ /\ grow_state_' \in {"idle", "growing"} /\ peak_used_blocks_' \in Int
    BY <1>2, OfThread DEF Swing
  <2> HIDE DEF c
  <2> QED
    BY <1>1, <2>1, <2>2, <2>3, <2>4, PlainPoolStep
<1>3. CASE free_head_ = call[t].observed
  <2> DEFINE c == [at |-> "count"]
  <2>1. /\ c \in PoolCalls /\ call' = [call EXCEPT ![t] = c] /\ held' = held \cup {free_head_}
        /\ free_head_' = call[t].next /\ link' = link /\ total_blocks_' = total_blocks_ /\ chunks_' = chunks_
        /\ grow_state_' = grow_state_ /\ free_blocks_' = free_blocks_ /\ peak_used_blocks_' = peak_used_blocks_
    BY <1>3 DEF PoolCalls, Swing, Goes
  <2>2. free_head_ \in Blocks /\ free_head_ # Null /\ free_head_ \in Free /\ call[t].next = link[free_head_]
    <3>1. free_head_ \in Blocks /\ free_head_ # Null
      BY <1>0, <1>3 DEF Blocks, Null
    <3>2. free_head_ \in Free
      BY <3>1, OfThread
    <3> QED
      BY <1>3, <3>1, <3>2 DEF StalePop
  <2>3. IsList(free_head_, link)' /\ Free' = Free \ {free_head_}
    <3>1. IsList(link[free_head_], link) /\ Reached(link[free_head_], link) = Reached(free_head_, link) \ {free_head_}
      BY <2>2, ListPop DEF PoolInv
    <3> QED
      BY <2>1, <2>2, <3>1 DEF Free
  <2>4. PoolTypeOK'
    <3>1. call' \in [PoolThreads -> PoolCalls]
      BY <2>1 DEF PoolInv, PoolTypeOK
    <3> QED
      BY <1>0, <2>1, <2>2, <3>1 DEF PoolInv, PoolTypeOK
  <2>5. /\ Flight(c) = {} /\ GrowFlight(c) = {} /\ ~Grows(c) /\ Uncounted(c) = -1
        /\ Flight(call[t]) = {} /\ GrowFlight(call[t]) = {} /\ Uncounted(call[t]) = 0
    BY <1>1, PlainCall DEF Flight, GrowFlight, Grows, Uncounted, Here
  <2>6. PopHolds(t, c, Free', held', link') /\ PushHolds(t, c, link')
    BY <2>5 DEF PopHolds, PushHolds
  <2>7. ASSUME NEW s \in PoolThreads \ {t}
        PROVE  PopHolds(s, call[s], Free', held', link') /\ PushHolds(s, call[s], link')
    <3>1. PopHolds(s, call[s], Free, held, link) /\ PushHolds(s, call[s], link)
      BY OfThread
    <3>2. s \in Allocating => ~OnePops \/ Freeing = {}
      BY <1>1 DEF OnePops
    <3>3. PopHolds(s, call[s], Free', held', link')
      BY <2>1, <2>3, <3>1, <3>2 DEF PopHolds
    <3> QED
      BY <2>1, <3>1, <3>3
  <2>8. Cardinality(Free') = Cardinality(Free) - 1
    BY <2>2, <2>3, OfThread, FS_RemoveElement
  <2>9. free_blocks_' + Uncounted(c) - Cardinality(Free') - Cardinality(GrowFlight(c)) =
          free_blocks_ + Uncounted(call[t]) - Cardinality(Free) - Cardinality(GrowFlight(call[t]))
    <3>1. Cardinality(GrowFlight(c)) = 0 /\ Cardinality(GrowFlight(call[t])) = 0
      BY <2>5, FS_EmptySet
    <3>2. Cardinality(Free) \in Nat /\ free_blocks_ \in Int
      BY OfThread
    <3> HIDE DEF c
    <3> QED
      BY <2>1, <2>5, <2>8, <3>1, <3>2
  <2>10. total_blocks_ <= total_blocks_' /\ total_blocks_ + 1 .. total_blocks_' = {}
    BY <2>1, OfThread, PoolAssumption
  <2>11. /\ (UNION chunks_)' = 1 .. total_blocks_' /\ Free' \cap held' = {}
         /\ Flight(c) \cap (Free' \cup held') = {}
         /\ Free' \cup held' \cup Flight(c) =
              Free \cup held \cup Flight(call[t]) \cup (total_blocks_ + 1 .. total_blocks_')
    BY <2>1, <2>2, <2>3, <2>5, <2>10 DEF PoolInv, BlocksApart
  <2>12. /\ Grows(c) => grow_state_' = "growing" /\ (Grows(call[t]) \/ grow_state_ = "idle")
         /\ grow_state_' = "growing" \/ grow_state_' = grow_state_ \/ Grows(call[t])
    BY <2>1, <2>5
  <2> HIDE DEF c
  <2> QED
    BY <2>1, <2>3, <2>4, <2>6, <2>7, <2>9, <2>10, <2>11, <2>12, PoolStep
<1> QED
  BY <1>2, <1>3

LEMMA CountPoolAllocationKeeps ==
  ASSUME PoolInv, NEW t \in PoolThreads, CountPoolAllocation(t)
  PROVE  PoolInv'
<1> DEFINE c == [at |-> "peak", free_now |-> free_blocks_ - 1]
<1>0. call[t].at = "count" /\ free_blocks_ \in Int
  BY OfThread DEF CountPoolAllocation, PoolAt
<1>1. c \in PoolCalls /\ call' = [call EXCEPT ![t] = c]
  BY <1>0 DEF PoolCalls, CountPoolAllocation, Goes
<1>2. /\ Flight(c) = Flight(call[t]) /\ GrowFlight(c) = GrowFlight(call[t]) /\ ~Grows(c)
      /\ Uncounted(c) = 0 /\ Uncounted(call[t]) = -1
      /\ PopHolds(t, c, Free, held, link) /\ PushHolds(t, c, link)
  BY <1>0 DEF Flight, GrowFlight, Grows, Uncounted, Here, PopHolds, PushHolds
<1>3. /\ UNCHANGED <<free_head_, link, total_blocks_, chunks_, held>> /\ free_blocks_' = free_blocks_ - 1
      /\ grow_state_' = grow_state_ /\ grow_state_' \in {"idle", "growing"} /\ peak_used_blocks_' \in Int
  BY OfThread DEF CountPoolAllocation
<1>4. free_blocks_' \in Int /\ free_blocks_' + Uncounted(c) = free_blocks_ + Uncounted(call[t])
  BY <1>0, <1>2, <1>3
<1> HIDE DEF c
<1> QED
  BY <1>1, <1>2, <1>3, <1>4, PoolCallStep

LEMMA AccumulatePoolPeakKeeps ==
  ASSUME PoolInv, NEW t \in PoolThreads, AccumulatePoolPeak(t)
  PROVE  PoolInv'
<1>0. call[t].at = "peak" /\ call[t].free_now \in Int
  BY OfThread, CallFields DEF AccumulatePoolPeak, PoolAt
<1>1. PoolIdle \in PoolCalls /\ call' = [call EXCEPT ![t] = PoolIdle]
  BY DEF PoolCalls, PoolIdle, AccumulatePoolPeak, Goes
<1>2. Plain(call[t]) /\ Plain(PoolIdle) /\ ~Grows(PoolIdle) /\ PopHolds(t, PoolIdle, Free, held, link)
  BY <1>0 DEF Plain, PoolIdle, Grows, PopHolds
<1>3. /\ UNCHANGED <<free_head_, link, total_blocks_, chunks_, held, free_blocks_>>
      /\ grow_state_' = grow_state_ /\ grow_state_' \in {"idle", "growing"}
  BY OfThread DEF AccumulatePoolPeak
<1>4. peak_used_blocks_' \in Int
  BY <1>0, OfThread, PoolAssumption DEF AccumulatePoolPeak
<1> QED
  BY <1>1, <1>2, <1>3, <1>4, PlainPoolStep

\* The process ends for the thread that finds no memory.
LEMMA PoolFailFastKeeps ==
  ASSUME PoolInv, NEW t \in PoolThreads, call[t].at \in {"pop", "wait"}, PoolFailFast(t),
         UNCHANGED <<free_blocks_, peak_used_blocks_, held>>
  PROVE  PoolInv'
<1> DEFINE c == [at |-> "aborted"]
<1>1. c \in PoolCalls /\ call' = [call EXCEPT ![t] = c]
  BY DEF PoolCalls, PoolFailFast, Goes
<1>2. Plain(call[t]) /\ Plain(c) /\ ~Grows(c) /\ PopHolds(t, c, Free, held, link)
  BY DEF Plain, Grows, PopHolds
<1>3. /\ UNCHANGED <<free_head_, link, total_blocks_, chunks_, held, free_blocks_>>
      /\ grow_state_' = grow_state_ /\ grow_state_' \in {"idle", "growing"} /\ peak_used_blocks_' \in Int
  BY OfThread DEF PoolFailFast
<1> HIDE DEF c
<1> QED
  BY <1>1, <1>2, <1>3, PlainPoolStep

LEMMA BeginPoolGrowKeeps ==
  ASSUME PoolInv, NEW t \in PoolThreads, BeginPoolGrow(t)
  PROVE  PoolInv'
<1>0. call[t].at = "pop"
  BY DEF BeginPoolGrow, PoolAt
<1>1. CASE call[t].grown \/ Grown(total_blocks_) <= total_blocks_
  BY <1>0, <1>1, PoolFailFastKeeps DEF BeginPoolGrow
<1>2. CASE ~(call[t].grown \/ Grown(total_blocks_) <= total_blocks_)
  <2> DEFINE c == [at |-> "claim", blocks |-> total_blocks_]
  <2>1. c \in PoolCalls /\ call' = [call EXCEPT ![t] = c]
    BY <1>2, OfThread DEF PoolCalls, BeginPoolGrow, Goes
  <2>2. Plain(call[t]) /\ Plain(c) /\ ~Grows(c) /\ PopHolds(t, c, Free, held, link)
    BY <1>0, OfThread DEF Plain, Grows, PopHolds
  <2>3. /\ UNCHANGED <<free_head_, link, total_blocks_, chunks_, held, free_blocks_>>
        /\ grow_state_' = grow_state_ /\ grow_state_' \in {"idle", "growing"} /\ peak_used_blocks_' \in Int
    BY <1>2, OfThread DEF BeginPoolGrow
  <2> HIDE DEF c
  <2> QED
    BY <2>1, <2>2, <2>3, PlainPoolStep
<1> QED
  BY <1>1, <1>2

LEMMA ClaimPoolGrowthKeeps ==
  ASSUME PoolInv, NEW t \in PoolThreads, ClaimPoolGrowth(t)
  PROVE  PoolInv'
<1>0. call[t].at = "claim" /\ call[t].blocks \in 0 .. MaxBlocks
  BY OfThread, CallFields DEF ClaimPoolGrowth, PoolAt
<1>1. /\ UNCHANGED <<free_head_, link, total_blocks_, chunks_, held, free_blocks_>>
      /\ peak_used_blocks_' \in Int
  BY OfThread DEF ClaimPoolGrowth
<1>2. CASE grow_state_ = "idle"
  <2> DEFINE c == [at |-> "create", blocks |-> call[t].blocks]
  <2>1. c \in PoolCalls /\ call' = [call EXCEPT ![t] = c] /\ grow_state_' = "growing"
    BY <1>0, <1>2 DEF PoolCalls, ClaimPoolGrowth, Goes
  <2>2. Plain(call[t]) /\ Plain(c) /\ PopHolds(t, c, Free, held, link)
    BY <1>0, OfThread DEF Plain, PopHolds
  <2> HIDE DEF c
  <2> QED
    BY <1>1, <1>2, <2>1, <2>2, PlainPoolStep
<1>3. CASE grow_state_ # "idle"
  <2> DEFINE c == [at |-> "wait"]
  <2>1. c \in PoolCalls /\ call' = [call EXCEPT ![t] = c]
    BY <1>3 DEF PoolCalls, ClaimPoolGrowth, Goes
  <2>2. Plain(call[t]) /\ Plain(c) /\ ~Grows(c) /\ PopHolds(t, c, Free, held, link)
    BY <1>0, OfThread DEF Plain, Grows, PopHolds
  <2>3. grow_state_' = grow_state_ /\ grow_state_' \in {"idle", "growing"}
    BY <1>3, OfThread DEF ClaimPoolGrowth
  <2> HIDE DEF c
  <2> QED
    BY <1>1, <2>1, <2>2, <2>3, PlainPoolStep
<1> QED
  BY <1>2, <1>3

\* A thread that grew the pool, or waited for another to grow it, pops again.
LEMMA PopsAgain ==
  ASSUME PoolInv, NEW t \in PoolThreads, call[t].at \in {"wait", "grown"},
         Goes(t, [at |-> "pop", observed |-> free_head_, grown |-> TRUE]),
         grow_state_' = "idle", grow_state_ = "idle" \/ call[t].at = "grown",
         UNCHANGED <<free_head_, link, total_blocks_, free_blocks_, peak_used_blocks_, chunks_, held>>
  PROVE  PoolInv'
<1> DEFINE c == [at |-> "pop", observed |-> free_head_, grown |-> TRUE]
<1>1. c \in PoolCalls /\ call' = [call EXCEPT ![t] = c]
  BY OfThread DEF PoolCalls, Goes
<1>2. Plain(call[t]) /\ Plain(c) /\ ~Grows(c)
  BY DEF Plain, Grows
<1>3. PopHolds(t, c, Free, held, link)
  BY OfThread DEF PopHolds, Grows
<1>4. peak_used_blocks_' \in Int /\ grow_state_' \in {"idle", "growing"}
  BY OfThread
<1>5. grow_state_' = "growing" \/ grow_state_' = grow_state_ \/ Grows(call[t])
  BY DEF Grows
<1> HIDE DEF c
<1> QED
  BY <1>1, <1>2, <1>3, <1>4, <1>5, PlainPoolStep

LEMMA WaitedKeeps ==
  ASSUME PoolInv, NEW t \in PoolThreads, Waited(t)
  PROVE  PoolInv'
<1>0. call[t].at = "wait"
  BY DEF Waited, PoolAt
<1>1. CASE free_head_ = Null
  BY <1>0, <1>1, PoolFailFastKeeps DEF Waited
<1>2. CASE free_head_ # Null
  BY <1>0, <1>2, PopsAgain DEF Waited
<1> QED
  BY <1>1, <1>2

LEMMA GrowEndsKeeps ==
  ASSUME PoolInv, NEW t \in PoolThreads, GrowEnds(t)
  PROVE  PoolInv'
BY PopsAgain DEF GrowEnds, PoolAt

LEMMA CountDeallocationKeeps ==
  ASSUME PoolInv, NEW t \in PoolThreads, CountDeallocation(t)
  PROVE  PoolInv'
<1>0. call[t].at = "freed" /\ free_blocks_ \in Int
  BY OfThread DEF CountDeallocation, PoolAt
<1>1. PoolIdle \in PoolCalls /\ call' = [call EXCEPT ![t] = PoolIdle]
  BY DEF PoolCalls, PoolIdle, CountDeallocation, Goes
<1>2. /\ Flight(PoolIdle) = Flight(call[t]) /\ GrowFlight(PoolIdle) = GrowFlight(call[t])
      /\ ~Grows(PoolIdle) /\ Uncounted(PoolIdle) = 0 /\ Uncounted(call[t]) = 1
  BY <1>0 DEF PoolIdle, Flight, GrowFlight, Grows, Uncounted, Here
<1>3. PopHolds(t, PoolIdle, Free, held, link) /\ PushHolds(t, PoolIdle, link)
  BY <1>2 DEF PoolIdle, PopHolds, PushHolds
<1>4. /\ UNCHANGED <<free_head_, link, total_blocks_, chunks_, held>> /\ free_blocks_' = free_blocks_ + 1
      /\ grow_state_' = grow_state_ /\ grow_state_' \in {"idle", "growing"} /\ peak_used_blocks_' \in Int
  BY OfThread DEF CountDeallocation
<1>5. free_blocks_' \in Int /\ free_blocks_' + Uncounted(PoolIdle) = free_blocks_ + Uncounted(call[t])
  BY <1>0, <1>2, <1>4
<1> QED
  BY <1>1, <1>2, <1>3, <1>4, <1>5, PoolCallStep

LEMMA BeginDeallocateKeeps ==
  ASSUME PoolInv, NEW t \in PoolThreads, NEW b \in Blocks, BeginDeallocate(t, b)
  PROVE  PoolInv'
<1> DEFINE c == Pushing(b, b, free_head_, "freed")
<1>1. /\ c \in PoolCalls /\ call' = [call EXCEPT ![t] = c] /\ call[t] = PoolIdle /\ t \in Freeing
      /\ b \in held /\ held' = held \ {b}
      /\ link' = link /\ free_head_' = free_head_ /\ total_blocks_' = total_blocks_ /\ chunks_' = chunks_
      /\ grow_state_' = grow_state_ /\ free_blocks_' = free_blocks_ /\ peak_used_blocks_' = peak_used_blocks_
  BY OfThread DEF BeginDeallocate, Goes, Pushing, PoolCalls
<1>2. /\ c.at = "push" /\ c.block = b /\ c.last = b /\ c.then = "freed"
      /\ call[t].at = "idle"
  BY <1>1 DEF Pushing, PoolIdle
<1> HIDE DEF c
<1>3. b .. b = {b}
  BY DEF Blocks
<1>4. /\ Flight(c) = {b} /\ GrowFlight(c) = {} /\ ~Grows(c) /\ Uncounted(c) = 0
      /\ Flight(call[t]) = {} /\ GrowFlight(call[t]) = {} /\ Uncounted(call[t]) = 0
  BY <1>2, <1>3 DEF Flight, GrowFlight, Grows, Uncounted, Here
<1>5. Free' = Free /\ IsList(free_head_, link)'
  BY <1>1 DEF Free, PoolInv
<1>6. PoolTypeOK'
  <2>1. call' \in [PoolThreads -> PoolCalls]
    BY <1>1 DEF PoolInv, PoolTypeOK
  <2> QED
    BY <1>1, <2>1 DEF PoolInv, PoolTypeOK
<1>7. PopHolds(t, c, Free', held', link') /\ PushHolds(t, c, link')
  BY <1>1, <1>2, <1>4 DEF PopHolds, PushHolds, Blocks
<1>8. ASSUME NEW s \in PoolThreads \ {t}
      PROVE  PopHolds(s, call[s], Free', held', link') /\ PushHolds(s, call[s], link')
  <2>1. PopHolds(s, call[s], Free, held, link) /\ PushHolds(s, call[s], link)
    BY OfThread
  <2>2. PopHolds(s, call[s], Free', held', link')
    BY <1>1, <1>5, <2>1 DEF PopHolds
  <2> QED
    BY <1>1, <2>1, <2>2
<1>9. free_blocks_' + Uncounted(c) - Cardinality(Free') - Cardinality(GrowFlight(c)) =
        free_blocks_ + Uncounted(call[t]) - Cardinality(Free) - Cardinality(GrowFlight(call[t]))
  BY <1>1, <1>4, <1>5
<1>10. total_blocks_ <= total_blocks_' /\ total_blocks_ + 1 .. total_blocks_' = {}
  BY <1>1, OfThread, PoolAssumption
<1>11. /\ (UNION chunks_)' = 1 .. total_blocks_' /\ Free' \cap held' = {}
       /\ Flight(c) \cap (Free' \cup held') = {}
       /\ Free' \cup held' \cup Flight(c) =
            Free \cup held \cup Flight(call[t]) \cup (total_blocks_ + 1 .. total_blocks_')
  BY <1>1, <1>4, <1>5, <1>10 DEF PoolInv, BlocksApart
<1>12. /\ Grows(c) => grow_state_' = "growing" /\ (Grows(call[t]) \/ grow_state_ = "idle")
       /\ grow_state_' = "growing" \/ grow_state_' = grow_state_ \/ Grows(call[t])
  BY <1>1, <1>4
<1> QED
  BY <1>1, <1>5, <1>6, <1>7, <1>8, <1>9, <1>10, <1>11, <1>12, PoolStep

\* The blocks that a push has before it are in no other place.
LEMMA OfPush ==
  ASSUME PoolInv, NEW t \in PoolThreads, call[t].at \in {"push", "pushed"}
  PROVE  /\ call[t].block \in Blocks /\ call[t].last \in Blocks /\ call[t].observed \in Blocks \cup {Null}
         /\ call[t].then \in {"grown", "freed"}
         /\ call[t].block <= call[t].last /\ (call[t].then = "freed" => call[t].block = call[t].last)
         /\ call[t].then = "freed" => t \in Freeing
         /\ Flight(call[t]) = call[t].block .. call[t].last
         /\ call[t].block \notin Free /\ call[t].block \notin held
         /\ \A s \in PoolThreads \ {t} : call[t].block \notin Flight(call[s])
<1>1. /\ call[t].block \in Blocks /\ call[t].last \in Blocks /\ call[t].observed \in Blocks \cup {Null}
      /\ call[t].then \in {"grown", "freed"}
  BY OfThread, CallFields
<1>2. /\ call[t].block <= call[t].last /\ (call[t].then = "freed" => call[t].block = call[t].last)
      /\ call[t].then = "freed" => t \in Freeing
  BY OfThread DEF PushHolds
<1>3. Flight(call[t]) = call[t].block .. call[t].last /\ call[t].block \in Flight(call[t])
  BY <1>1, <1>2 DEF Flight, Blocks
<1>4. /\ Flight(call[t]) \cap (Free \cup held) = {}
      /\ \A s \in PoolThreads \ {t} : Flight(call[s]) \cap Flight(call[t]) = {}
  BY DEF PoolInv, BlocksApart
<1> QED
  BY <1>1, <1>2, <1>3, <1>4

LEMMA PushKeeps ==
  ASSUME PoolInv, NEW t \in PoolThreads, Push(t)
  PROVE  PoolInv'
<1> DEFINE b == call[t].block
           c == [call[t] EXCEPT !.at = "pushed"]
<1>0. call[t].at = "push"
  BY DEF Push, PoolAt
<1>1. c = [at |-> "pushed", block |-> b, last |-> call[t].last, observed |-> call[t].observed, then |-> call[t].then]
  <2>1. call[t] \in [at : {"push", "pushed"}, block : Blocks, last : Blocks, observed : Blocks \cup {Null}, then : {"grown", "freed"}]
    BY <1>0, OfThread DEF PoolCalls
  <2> QED
    BY <2>1
<1>2. /\ c \in PoolCalls /\ call' = [call EXCEPT ![t] = c] /\ link' = [link EXCEPT ![b] = call[t].observed]
      /\ held' = held /\ free_head_' = free_head_ /\ total_blocks_' = total_blocks_ /\ chunks_' = chunks_
      /\ grow_state_' = grow_state_ /\ free_blocks_' = free_blocks_ /\ peak_used_blocks_' = peak_used_blocks_
  <2>1. c \in PoolCalls
    BY <1>0, <1>1, OfPush DEF PoolCalls
  <2> QED
    BY <2>1 DEF Push, LinkBefore, Goes
<1>3. /\ c.at = "pushed" /\ c.block = b /\ c.last = call[t].last /\ c.observed = call[t].observed /\ c.then = call[t].then
  BY <1>1
<1> HIDE DEF c
<1>4. /\ Flight(c) = Flight(call[t]) /\ GrowFlight(c) = GrowFlight(call[t]) /\ (Grows(c) <=> Grows(call[t]))
      /\ Uncounted(c) = 0 /\ Uncounted(call[t]) = 0
  BY <1>0, <1>3 DEF Flight, GrowFlight, Grows, Uncounted, Here
<1>5. Free' = Free /\ IsList(free_head_, link)'
  <2>1. b \in Blocks \ Reached(free_head_, link) /\ link \in [Blocks -> Blocks \cup {Null}]
    BY <1>0, OfPush, OfThread DEF Free
  <2>2. /\ IsList(free_head_, [link EXCEPT ![b] = call[t].observed])
        /\ Reached(free_head_, [link EXCEPT ![b] = call[t].observed]) = Reached(free_head_, link)
    BY <2>1, ListLink DEF PoolInv
  <2> QED
    BY <1>2, <2>2 DEF Free
<1>6. PoolTypeOK'
  <2>1. call' \in [PoolThreads -> PoolCalls] /\ link' \in [Blocks -> Blocks \cup {Null}]
    BY <1>0, <1>2, OfPush DEF PoolInv, PoolTypeOK
  <2> QED
    BY <1>2, <2>1 DEF PoolInv, PoolTypeOK
<1>7. PopHolds(t, c, Free', held', link') /\ PushHolds(t, c, link')
  <2>1. link'[b] = call[t].observed
    BY <1>0, <1>2, OfPush, OfThread
  <2> QED
    BY <1>0, <1>3, <1>4, <2>1, OfPush, OfThread DEF PopHolds, PushHolds
<1>8. ASSUME NEW s \in PoolThreads \ {t}
      PROVE  PopHolds(s, call[s], Free', held', link') /\ PushHolds(s, call[s], link')
  <2>1. PopHolds(s, call[s], Free, held, link) /\ PushHolds(s, call[s], link)
    BY OfThread
  <2>2. \A x \in Free : x # b /\ link'[x] = link[x]
    BY <1>0, <1>2, OfPush, OfThread
  <2>3. PopHolds(s, call[s], Free', held', link')
    BY <1>2, <1>5, <2>1, <2>2 DEF PopHolds
  <2>4. PushHolds(s, call[s], link')
    <3>1. call[s].at = "pushed" => call[s].block # b /\ call[s].block \in Blocks
      <4>1. SUFFICES ASSUME call[s].at = "pushed" PROVE call[s].block \in Flight(call[s]) /\ call[s].block \in Blocks
        BY <1>0, OfPush
      <4> QED
        BY <4>1, OfPush DEF Blocks
    <3>2. call[s].at = "pushed" => link'[call[s].block] = link[call[s].block]
      BY <1>2, <3>1, OfThread
    <3> QED
      BY <2>1, <3>2 DEF PushHolds
  <2> QED
    BY <2>3, <2>4
<1>9. free_blocks_' + Uncounted(c) - Cardinality(Free') - Cardinality(GrowFlight(c)) =
        free_blocks_ + Uncounted(call[t]) - Cardinality(Free) - Cardinality(GrowFlight(call[t]))
  BY <1>2, <1>4, <1>5
<1>10. total_blocks_ <= total_blocks_' /\ total_blocks_ + 1 .. total_blocks_' = {}
  BY <1>2, OfThread, PoolAssumption
<1>11. /\ (UNION chunks_)' = 1 .. total_blocks_' /\ Free' \cap held' = {}
       /\ Flight(c) \cap (Free' \cup held') = {}
       /\ Free' \cup held' \cup Flight(c) =
            Free \cup held \cup Flight(call[t]) \cup (total_blocks_ + 1 .. total_blocks_')
  BY <1>2, <1>4, <1>5, <1>10 DEF PoolInv, BlocksApart
<1>12. /\ Grows(c) => grow_state_' = "growing" /\ (Grows(call[t]) \/ grow_state_ = "idle")
       /\ grow_state_' = "growing" \/ grow_state_' = grow_state_ \/ Grows(call[t])
  BY <1>2, <1>4, OfThread
<1> QED
  BY <1>2, <1>5, <1>6, <1>7, <1>8, <1>9, <1>10, <1>11, <1>12, PoolStep

\* The swing of a push: its block goes to the free list, the next one of its
\* chunk is pushed in its turn.
LEMMA PushSwingKeeps ==
  ASSUME PoolInv, NEW t \in PoolThreads, PushSwing(t)
  PROVE  PoolInv'
<1> DEFINE b == call[t].block
           last == call[t].last
           then == call[t].then
<1>0. call[t].at = "pushed"
  BY DEF PushSwing, PoolAt
<1>1. /\ b \in Blocks /\ last \in Blocks /\ then \in {"grown", "freed"} /\ b <= last
      /\ (then = "freed" => b = last /\ t \in Freeing)
      /\ Flight(call[t]) = b .. last /\ b \notin Free /\ b \notin held
      /\ Uncounted(call[t]) = 0 /\ (then = "grown" => Grows(call[t])) /\ (Grows(call[t]) => then = "grown")
      /\ link[b] = call[t].observed
  <2>1. Uncounted(call[t]) = 0 /\ (then = "grown" => Grows(call[t])) /\ (Grows(call[t]) => then = "grown")
    BY <1>0 DEF Uncounted, Here, Grows
  <2>2. link[b] = call[t].observed
    BY <1>0, OfThread DEF PushHolds
  <2> QED
    BY <1>0, <2>1, <2>2, OfPush
<1>2. CASE free_head_ # call[t].observed
  <2> DEFINE c == Pushing(b, last, free_head_, then)
  <2>1. c \in PoolCalls /\ call' = [call EXCEPT ![t] = c]
    BY <1>1, <1>2, OfThread DEF PoolCalls, PushSwing, PushSwings, Goes, Pushing
  <2>2. c.at = "push" /\ c.block = b /\ c.last = last /\ c.then = then
    BY DEF Pushing
  <2> HIDE DEF c
  <2>3. /\ Flight(c) = Flight(call[t]) /\ GrowFlight(c) = GrowFlight(call[t]) /\ (Grows(c) <=> Grows(call[t]))
        /\ Uncounted(c) = 0
    BY <1>0, <2>2 DEF Flight, GrowFlight, Grows, Uncounted, Here
  <2>4. PopHolds(t, c, Free, held, link) /\ PushHolds(t, c, link)
    BY <1>1, <2>2, <2>3, OfThread DEF PopHolds, PushHolds
  <2>5. /\ UNCHANGED <<free_head_, link, total_blocks_, chunks_, held>>
        /\ grow_state_' = grow_state_ /\ grow_state_' \in {"idle", "growing"}
        /\ free_blocks_' \in Int /\ peak_used_blocks_' \in Int /\ free_blocks_' = free_blocks_
    BY <1>2, OfThread DEF PushSwing, PushSwings
  <2>6. Grows(c) => grow_state_' = "growing" /\ Grows(call[t])
    BY <2>3, <2>5, OfThread
  <2>7. free_blocks_' + Uncounted(c) = free_blocks_ + Uncounted(call[t])
    BY <1>1, <2>3, <2>5
  <2> QED
    BY <2>1, <2>3, <2>4, <2>5, <2>6, <2>7, PoolCallStep
<1>3. ASSUME free_head_ = call[t].observed, NEW c, Goes(t, c),
             c = IF b = last THEN [at |-> then] ELSE Pushing(b + 1, last, b, then)
      PROVE  PoolInv'
  <2>0. b # last => b + 1 \in Blocks /\ b + 1 <= last
    BY <1>1, PoolAssumption DEF Blocks
  <2>1. /\ c \in PoolCalls /\ call' = [call EXCEPT ![t] = c] /\ free_head_' = b /\ link' = link
        /\ held' = held /\ total_blocks_' = total_blocks_ /\ chunks_' = chunks_
        /\ grow_state_' = grow_state_ /\ free_blocks_' = free_blocks_ /\ peak_used_blocks_' = peak_used_blocks_
    <3>1. c \in PoolCalls
      BY <1>1, <1>3, <2>0 DEF PoolCalls, Pushing
    <3> QED
      BY <1>3, <3>1 DEF PushSwing, PushSwings, Goes
  <2>2. /\ b = last => c.at = then
        /\ b # last => c.at = "push" /\ c.block = b + 1 /\ c.last = last /\ c.then = then
    BY <1>3 DEF Pushing
  <2>3. /\ Flight(c) = (b + 1 .. last) /\ (Grows(c) <=> Grows(call[t]))
        /\ Uncounted(c) = IF then = "freed" THEN 1 ELSE 0
    <3>1. CASE b = last
      <4>1. b + 1 .. last = {}
        BY <1>1, <3>1, PoolAssumption DEF Blocks
      <4>2. c.at = then /\ c.at \in {"grown", "freed"}
        BY <1>1, <2>2, <3>1
      <4>3. Flight(c) = {} /\ (Grows(c) <=> c.at = "grown") /\ Uncounted(c) = IF c.at = "freed" THEN 1 ELSE 0
        BY <4>2 DEF Flight, Grows, Uncounted, Here
      <4> QED
        BY <1>1, <4>1, <4>2, <4>3
    <3>2. CASE b # last
      BY <1>1, <2>2, <3>2 DEF Flight, Grows, Uncounted, Here
    <3> QED
      BY <3>1, <3>2
  <2>4. /\ b .. last = {b} \cup (b + 1 .. last) /\ b \notin b + 1 .. last
        /\ Cardinality(b .. last) = Cardinality(b + 1 .. last) + 1 /\ Cardinality(b + 1 .. last) \in Nat
    <3>1. b \in Int /\ last \in Int /\ b <= last
      BY <1>1, PoolAssumption DEF Blocks
    <3> HIDE DEF b, last
    <3>2. b .. last = {b} \cup (b + 1 .. last) /\ b \notin b + 1 .. last
      BY <3>1
    <3>3. b + 1 \in Int
      BY <3>1
    <3>4. Cardinality(b .. last) = Cardinality(b + 1 .. last) + 1 /\ Cardinality(b + 1 .. last) \in Nat
      BY <3>1, <3>3, IntervalIs
    <3> QED
      BY <3>2, <3>4
  <2>5. IsList(free_head_, link)' /\ Free' = Free \cup {b}
    <3>1. IsList(b, link) /\ Reached(b, link) = Reached(free_head_, link) \cup {b}
      BY <1>1, <1>3, ListPush DEF PoolInv, Free
    <3> QED
      BY <2>1, <3>1 DEF Free
  <2>6. PoolTypeOK'
    <3>1. call' \in [PoolThreads -> PoolCalls]
      BY <2>1 DEF PoolInv, PoolTypeOK
    <3> QED
      BY <1>1, <2>1, <3>1 DEF PoolInv, PoolTypeOK
  <2>7. PopHolds(t, c, Free', held', link') /\ PushHolds(t, c, link')
    <3>1. c.at \in {"grown", "freed", "push"} /\ (c.at = "freed" => then = "freed")
      BY <1>1, <2>2
    <3>2. PopHolds(t, c, Free', held', link')
      BY <2>3, <3>1, OfThread DEF PopHolds
    <3>3. PushHolds(t, c, link')
      BY <1>1, <2>0, <2>2, <3>1 DEF PushHolds
    <3> QED
      BY <3>2, <3>3
  <2>8. ASSUME NEW s \in PoolThreads \ {t}
        PROVE  PopHolds(s, call[s], Free', held', link') /\ PushHolds(s, call[s], link')
    <3>1. PopHolds(s, call[s], Free, held, link) /\ PushHolds(s, call[s], link)
      BY OfThread
    <3>2. call[s].at = "swing" => call[s].observed # Null
      BY OfThread, CallFields DEF Blocks, Null
    <3>3. PopHolds(s, call[s], Free', held', link')
      BY <1>1, <2>1, <2>5, <3>1, <3>2 DEF PopHolds
    <3> QED
      BY <2>1, <3>1, <3>3
  <2>9. free_blocks_' + Uncounted(c) - Cardinality(Free') - Cardinality(GrowFlight(c)) =
          free_blocks_ + Uncounted(call[t]) - Cardinality(Free) - Cardinality(GrowFlight(call[t]))
    <3>1. Cardinality(Free') = Cardinality(Free) + 1 /\ Cardinality(Free) \in Nat /\ free_blocks_ \in Int
      BY <1>1, <2>5, OfThread, FS_AddElement
    <3>2. Cardinality(b .. last) = Cardinality(b + 1 .. last) + 1 /\ Cardinality(b + 1 .. last) \in Nat
      BY <2>4
    <3>3. CASE then = "grown"
      <4>1. Cardinality(GrowFlight(call[t])) = Cardinality(GrowFlight(c)) + 1 /\ Cardinality(GrowFlight(c)) \in Nat
        BY <1>1, <2>3, <3>2, <3>3 DEF GrowFlight
      <4>2. Uncounted(c) = 0 /\ Uncounted(call[t]) = 0
        BY <1>1, <2>3, <3>3
      <4> QED
        BY <2>1, <3>1, <4>1, <4>2
    <3>4. CASE then = "freed"
      <4>1. Cardinality(GrowFlight(call[t])) = 0 /\ Cardinality(GrowFlight(c)) = 0
        BY <1>1, <2>3, <3>4, FS_EmptySet DEF GrowFlight
      <4>2. Uncounted(c) = 1 /\ Uncounted(call[t]) = 0
        BY <1>1, <2>3, <3>4
      <4> QED
        BY <2>1, <3>1, <4>1, <4>2
    <3> QED
      BY <1>1, <3>3, <3>4
  <2>10. total_blocks_ <= total_blocks_' /\ total_blocks_ + 1 .. total_blocks_' = {}
    BY <2>1, OfThread, PoolAssumption
  <2>11. /\ (UNION chunks_)' = 1 .. total_blocks_' /\ Free' \cap held' = {}
         /\ Flight(c) \cap (Free' \cup held') = {}
         /\ Free' \cup held' \cup Flight(c) =
              Free \cup held \cup Flight(call[t]) \cup (total_blocks_ + 1 .. total_blocks_')
    <3>1. UNION chunks_ = 1 .. total_blocks_ /\ Free \cap held = {} /\ Flight(call[t]) \cap (Free \cup held) = {}
      BY DEF PoolInv, BlocksApart
    <3>2. Flight(call[t]) = {b} \cup Flight(c) /\ b \notin Flight(c)
      BY <1>1, <2>3, <2>4
    <3> QED
      BY <1>1, <2>1, <2>5, <2>10, <3>1, <3>2
  <2>12. /\ Grows(c) => grow_state_' = "growing" /\ (Grows(call[t]) \/ grow_state_ = "idle")
         /\ grow_state_' = "growing" \/ grow_state_' = grow_state_ \/ Grows(call[t])
    BY <2>1, <2>3, OfThread
  <2> QED
    BY <2>1, <2>5, <2>6, <2>7, <2>8, <2>9, <2>10, <2>11, <2>12, PoolStep
<1> QED
  BY <1>2, <1>3 DEF PushSwing, PushSwings

\* A new chunk: its blocks begin where those of the others end, and are all in
\* the hands of the thread that pushes them.
LEMMA CreateChunkKeeps ==
  ASSUME PoolInv, NEW t \in PoolThreads, CreateChunk(t)
  PROVE  PoolInv'
<1>0. /\ call[t].at = "create" /\ call[t].blocks \in 0 .. MaxBlocks /\ Plain(call[t]) /\ Grows(call[t])
      /\ grow_state_ = "growing" /\ t \in Allocating
  <2>1. call[t].at = "create" /\ call[t].blocks \in 0 .. MaxBlocks
    BY OfThread, CallFields DEF CreateChunk, PoolAt
  <2> QED
    BY <2>1, OfThread DEF Plain, Grows, PopHolds
<1>1. CASE grow_state_' = "idle" /\ Goes(t, [at |-> "aborted"]) /\ UNCHANGED <<chunks_, total_blocks_, free_blocks_>>
  <2> DEFINE c == [at |-> "aborted"]
  <2>1. c \in PoolCalls /\ call' = [call EXCEPT ![t] = c]
    BY <1>1 DEF PoolCalls, Goes
  <2>2. Plain(c) /\ ~Grows(c) /\ PopHolds(t, c, Free, held, link)
    BY DEF Plain, Grows, PopHolds
  <2>3. /\ UNCHANGED <<free_head_, link, total_blocks_, chunks_, held, free_blocks_>>
        /\ grow_state_' \in {"idle", "growing"} /\ peak_used_blocks_' \in Int
    BY <1>1, OfThread DEF CreateChunk
  <2> HIDE DEF c
  <2> QED
    BY <1>0, <2>1, <2>2, <2>3, PlainPoolStep
<1> DEFINE total == total_blocks_
           n == GrownCapacity(call[t].blocks) - call[t].blocks
           first == Cardinality(UNION chunks_) + 1
           fresh == first .. first + n - 1
           c == Pushing(first, first + Cardinality(fresh) - 1, free_head_, "grown")
<1>2. ASSUME fresh # {}, fresh \subseteq Blocks, chunks_' = chunks_ \cup {fresh},
             total_blocks_' = total_blocks_ + Cardinality(fresh), free_blocks_' = free_blocks_ + Cardinality(fresh),
             Goes(t, c), UNCHANGED grow_state_
      PROVE  PoolInv'
  <2>0. n \in Int /\ total \in Nat /\ total <= MaxBlocks /\ MaxBlocks \in Nat
    <3>1. MaxBlocks \in Nat /\ Grown(call[t].blocks) \in Nat /\ call[t].blocks \in Nat
      BY <1>0, PoolAssumption
    <3> QED
      BY <3>1, OfThread DEF GrownCapacity
  <2>1. UNION chunks_ = 1 .. total /\ first = total + 1
    <3>1. UNION chunks_ = 1 .. total
      BY DEF PoolInv, BlocksApart
    <3>2. \A k \in Nat : Cardinality(1 .. k) = k
      BY IntervalIs
    <3> QED
      BY <2>0, <3>1, <3>2
  <2> HIDE DEF n, first
  <2>2. n \in Nat \ {0} /\ fresh = total + 1 .. total + n /\ Cardinality(fresh) = n /\ total + n <= MaxBlocks
    <3>1. fresh = total + 1 .. total + n
      BY <2>0, <2>1
    <3>2. n \in Nat \ {0}
      BY <1>2, <2>0, <2>1, <3>1
    <3>3. total + n \in Blocks
      BY <1>2, <2>0, <2>1, <3>1, <3>2
    <3>4. Cardinality(total + 1 .. total + n) = n
      BY <2>0, <3>2, IntervalIs
    <3> QED
      BY <3>1, <3>2, <3>3, <3>4 DEF Blocks
  <2>3. /\ c.at = "push" /\ c.block = total + 1 /\ c.last = total + n /\ c.observed = free_head_ /\ c.then = "grown"
        /\ c \in PoolCalls /\ call' = [call EXCEPT ![t] = c]
        /\ total_blocks_' = total + n /\ free_blocks_' = free_blocks_ + n /\ link' = link
        /\ held' = held /\ free_head_' = free_head_ /\ grow_state_' = grow_state_ /\ peak_used_blocks_' = peak_used_blocks_
        /\ chunks_' = chunks_ \cup {total + 1 .. total + n}
    <3>1. first + Cardinality(fresh) - 1 = total + n
      BY <2>0, <2>1, <2>2
    <3>2. c = Pushing(total + 1, total + n, free_head_, "grown")
      BY <2>1, <3>1
    <3>3. c \in PoolCalls
      BY <2>0, <2>2, <3>2, OfThread DEF PoolCalls, Pushing, Blocks
    <3> QED
      BY <1>2, <2>2, <3>2, <3>3 DEF CreateChunk, Goes, Pushing
  <2> HIDE DEF c, fresh
  <2>4. /\ Flight(c) = (total + 1 .. total + n) /\ GrowFlight(c) = (total + 1 .. total + n) /\ Grows(c) /\ Uncounted(c) = 0
        /\ Flight(call[t]) = {} /\ GrowFlight(call[t]) = {} /\ Uncounted(call[t]) = 0
        /\ Cardinality(total + 1 .. total + n) = n
    <3>1. Flight(call[t]) = {} /\ GrowFlight(call[t]) = {} /\ Uncounted(call[t]) = 0
      BY <1>0, PlainCall
    <3> QED
      BY <2>2, <2>3, <3>1 DEF Flight, GrowFlight, Grows, Uncounted, Here
  <2>5. Free' = Free /\ IsList(free_head_, link)'
    BY <2>3 DEF Free, PoolInv
  <2>6. PoolTypeOK'
    <3>1. call' \in [PoolThreads -> PoolCalls]
      BY <2>3 DEF PoolInv, PoolTypeOK
    <3>2. total_blocks_' \in 0 .. MaxBlocks /\ free_blocks_' \in Int
      BY <2>0, <2>2, <2>3, OfThread
    <3> QED
      BY <2>3, <3>1, <3>2 DEF PoolInv, PoolTypeOK
  <2>7. PopHolds(t, c, Free', held', link') /\ PushHolds(t, c, link')
    BY <1>0, <2>0, <2>2, <2>3 DEF PopHolds, PushHolds
  <2>8. ASSUME NEW s \in PoolThreads \ {t}
        PROVE  PopHolds(s, call[s], Free', held', link') /\ PushHolds(s, call[s], link')
    BY <2>3, <2>5, OfThread
  <2>9. free_blocks_' + Uncounted(c) - Cardinality(Free') - Cardinality(GrowFlight(c)) =
          free_blocks_ + Uncounted(call[t]) - Cardinality(Free) - Cardinality(GrowFlight(call[t]))
    <3>1. Cardinality(GrowFlight(c)) = n /\ Cardinality(GrowFlight(call[t])) = 0
      BY <2>4, FS_EmptySet
    <3>2. Cardinality(Free) \in Nat /\ free_blocks_ \in Int
      BY OfThread
    <3> QED
      BY <2>2, <2>3, <2>4, <2>5, <3>1, <3>2
  <2>10. total_blocks_ <= total_blocks_' /\ total_blocks_ + 1 .. total_blocks_' = total + 1 .. total + n
    BY <2>0, <2>2, <2>3
  <2>11. /\ (UNION chunks_)' = 1 .. total_blocks_' /\ Free' \cap held' = {}
         /\ Flight(c) \cap (Free' \cup held') = {}
         /\ Free' \cup held' \cup Flight(c) =
              Free \cup held \cup Flight(call[t]) \cup (total_blocks_ + 1 .. total_blocks_')
    <3>1. Free \cap held = {} /\ Free \cup held \subseteq 1 .. total
      BY DEF PoolInv, BlocksApart
    <3>2. (UNION chunks_)' = 1 .. total + n
      <4>1. 1 .. total + n = (1 .. total) \cup (total + 1 .. total + n)
        BY <2>0, <2>2
      <4> QED
        BY <2>1, <2>3, <4>1
    <3>3. (total + 1 .. total + n) \cap (1 .. total) = {}
      BY <2>0, <2>2
    <3> QED
      BY <2>3, <2>4, <2>5, <2>10, <3>1, <3>2, <3>3
  <2>12. /\ Grows(c) => grow_state_' = "growing" /\ (Grows(call[t]) \/ grow_state_ = "idle")
         /\ grow_state_' = "growing" \/ grow_state_' = grow_state_ \/ Grows(call[t])
    BY <1>0, <2>3
  <2> HIDE DEF total
  <2> QED
    BY <2>3, <2>5, <2>6, <2>7, <2>8, <2>9, <2>10, <2>11, <2>12, PoolStep
<1> QED
  BY <1>1, <1>2 DEF CreateChunk

\* With no call under way nothing is in flight and all is counted.
LEMMA AllIdle ==
  ASSUME NEW calls, \A t \in PoolThreads : calls[t] = PoolIdle
  PROVE  /\ Flights(calls) = {} /\ GrowFlights(calls) = {} /\ AllUncounted(calls) = 0
         /\ \A t \in PoolThreads : Flight(calls[t]) = {} /\ ~Grows(calls[t])
         /\ \A t \in PoolThreads : \A free, taken, next :
              PopHolds(t, calls[t], free, taken, next) /\ PushHolds(t, calls[t], next)
<1>1. \A t \in PoolThreads : Flight(calls[t]) = {} /\ GrowFlight(calls[t]) = {} /\ ~Grows(calls[t])
  BY DEF PoolIdle, Flight, GrowFlight, Grows
<1>2. Flights(calls) = {} /\ GrowFlights(calls) = {}
  BY <1>1 DEF Flights, GrowFlights
<1>3. ThreadsAt(calls, "freed") = {} /\ ThreadsAt(calls, "count") = {}
  BY DEF ThreadsAt, PoolIdle
<1>4. AllUncounted(calls) = 0
  BY <1>3, FS_EmptySet DEF AllUncounted
<1>5. \A t \in PoolThreads : \A free, taken, next :
        PopHolds(t, calls[t], free, taken, next) /\ PushHolds(t, calls[t], next)
  BY <1>1 DEF PopHolds, PushHolds, PoolIdle
<1> QED
  BY <1>1, <1>2, <1>4, <1>5

LEMMA ChainedType == ASSUME NEW n \in 0 .. MaxBlocks PROVE Chained(n) \in [Blocks -> Blocks \cup {Null}]
BY PoolAssumption DEF Chained, Blocks, Null

LEMMA PoolInitHolds ==
  ASSUME PoolInit
  PROVE  PoolInv
<1>1. InitialBlocks \in 0 .. MaxBlocks /\ InitialBlocks \in Nat /\ InitialBlocks # 0
  BY PoolAssumption
<1>2. IsList(free_head_, link) /\ Free = 1 .. InitialBlocks
  BY <1>1, ListOfChunk DEF PoolInit, Free
<1>3. \A t \in PoolThreads : call[t] = PoolIdle
  BY DEF PoolInit
<1>4. PoolTypeOK
  <2>1. call \in [PoolThreads -> PoolCalls]
    BY DEF PoolInit, PoolCalls, PoolIdle
  <2>2. InitialBlocks \in Blocks /\ link \in [Blocks -> Blocks \cup {Null}]
    BY <1>1, ChainedType DEF PoolInit, Blocks
  <2> QED
    BY <1>1, <2>1, <2>2 DEF PoolInit, PoolTypeOK
<1>5. BlocksApart /\ OneGrows
  <2>1. UNION chunks_ = 1 .. total_blocks_ /\ held = {}
    BY DEF PoolInit
  <2> QED
    BY <1>2, <1>3, <2>1, AllIdle DEF PoolInit, BlocksApart, OneGrows
<1>6. CallsHold
  BY <1>3, AllIdle DEF CallsHold
<1>7. CountsHold
  <2>1. Cardinality(Free) = InitialBlocks
    BY <1>1, <1>2, IntervalIs
  <2>2. AllUncounted(call) = 0 /\ Cardinality(GrowFlights(call)) = 0
    BY <1>3, AllIdle, FS_EmptySet
  <2> QED
    BY <1>1, <2>1, <2>2 DEF CountsHold, PoolInit
<1> QED
  BY <1>2, <1>4, <1>5, <1>6, <1>7 DEF PoolInv

LEMMA ResetPoolKeeps ==
  ASSUME PoolInv, ResetPool
  PROVE  PoolInv'
<1> DEFINE n == total_blocks_
<1>1. n \in 0 .. MaxBlocks /\ n \in Nat /\ UNION chunks_ = 1 .. n /\ Cardinality(UNION chunks_) = n
  <2>1. n \in 0 .. MaxBlocks /\ n \in Nat /\ UNION chunks_ = 1 .. n
    BY PoolAssumption DEF PoolInv, PoolTypeOK, BlocksApart
  <2>2. Cardinality(1 .. n) = n
    BY <2>1, IntervalIs
  <2> QED
    BY <2>1, <2>2
<1>2. /\ free_head_' = n /\ link' = Chained(n) /\ total_blocks_' = n /\ free_blocks_' = n /\ held' = {}
      /\ grow_state_' = grow_state_ /\ peak_used_blocks_' = peak_used_blocks_ /\ chunks_' = chunks_ /\ call' = call
  BY <1>1 DEF ResetPool
<1> HIDE DEF n
<1>3. IsList(free_head_, link)' /\ Free' = 1 .. n
  BY <1>1, <1>2, ListOfChunk DEF Free
<1>4. \A t \in PoolThreads : call'[t] = PoolIdle
  BY <1>2 DEF ResetPool
<1>5. PoolTypeOK'
  <2>1. n \in Blocks \cup {Null} /\ link' \in [Blocks -> Blocks \cup {Null}]
    BY <1>1, <1>2, ChainedType DEF Blocks, Null
  <2> QED
    BY <1>1, <1>2, <2>1 DEF PoolInv, PoolTypeOK
<1>6. BlocksApart' /\ OneGrows'
  BY <1>1, <1>2, <1>3, <1>4, AllIdle DEF BlocksApart, OneGrows
<1>7. CallsHold'
  BY <1>4, AllIdle DEF CallsHold
<1>8. CountsHold'
  <2>1. Cardinality(Free') = n
    BY <1>1, <1>3, IntervalIs
  <2>2. AllUncounted(call') = 0 /\ Cardinality(GrowFlights(call')) = 0
    BY <1>4, AllIdle, FS_EmptySet
  <2> QED
    BY <1>1, <1>2, <2>1, <2>2 DEF CountsHold
<1> QED
  BY <1>3, <1>5, <1>6, <1>7, <1>8 DEF PoolInv

\* Where one thread pops, what its pop read of the head still holds.
LEMMA OnePopIsFresh ==
  ASSUME PoolInv, OnePops, NEW t \in PoolThreads
  PROVE  ~StalePop(t)
<1> SUFFICES ASSUME StalePop(t) PROVE FALSE
  OBVIOUS
<1>1. /\ call[t].at = "swing" /\ call[t].observed \in Blocks
      /\ free_head_ = call[t].observed /\ call[t].next # link[call[t].observed]
  BY OfThread, CallFields DEF StalePop, Swing, PoolAt
<1>2. free_head_ # Null /\ free_head_ \in Free
  BY <1>1, OfThread DEF Blocks, Null
<1> QED
  BY <1>1, <1>2, OfThread DEF PopHolds

LEMMA PoolNextKeeps ==
  ASSUME PoolInv, [PoolNext]_pool_vars, [\A t \in PoolThreads : ~StalePop(t)]_pool_vars
  PROVE  PoolInv'
<1>1. CASE UNCHANGED pool_vars
  <2>1. /\ free_head_' = free_head_ /\ link' = link /\ grow_state_' = grow_state_ /\ total_blocks_' = total_blocks_
        /\ free_blocks_' = free_blocks_ /\ peak_used_blocks_' = peak_used_blocks_ /\ chunks_' = chunks_
        /\ held' = held /\ call' = call
    BY <1>1 DEF pool_vars
  <2>2. Free' = Free
    BY <2>1 DEF Free
  <2> QED
    BY <2>1, <2>2 DEF PoolInv, PoolTypeOK, BlocksApart, OneGrows, CallsHold, CountsHold
<1>2. ASSUME NEW t \in PoolThreads, ~StalePop(t),
             BeginAllocate(t) \/ ReadNext(t) \/ Swing(t) \/ CountPoolAllocation(t) \/ AccumulatePoolPeak(t)
      PROVE  PoolInv'
  BY <1>2, BeginAllocateKeeps, ReadNextKeeps, SwingKeeps, CountPoolAllocationKeeps, AccumulatePoolPeakKeeps
<1>3. ASSUME NEW t \in PoolThreads,
             BeginPoolGrow(t) \/ ClaimPoolGrowth(t) \/ Waited(t) \/ CreateChunk(t) \/ GrowEnds(t)
      PROVE  PoolInv'
  BY <1>3, BeginPoolGrowKeeps, ClaimPoolGrowthKeeps, WaitedKeeps, CreateChunkKeeps, GrowEndsKeeps
<1>4. ASSUME NEW t \in PoolThreads,
             (\E b \in Blocks : BeginDeallocate(t, b)) \/ Push(t) \/ PushSwing(t) \/ CountDeallocation(t)
      PROVE  PoolInv'
  BY <1>4, BeginDeallocateKeeps, PushKeeps, PushSwingKeeps, CountDeallocationKeeps
<1> QED
  BY <1>1, <1>2, <1>3, <1>4, ResetPoolKeeps DEF PoolNext

LEMMA PoolInvTells ==
  ASSUME PoolInv
  PROVE  BlocksAccounted
<1>1. HeldIsNotFree
  BY DEF PoolInv, BlocksApart, HeldIsNotFree
<1>2. ASSUME \A t \in PoolThreads : call[t] = PoolIdle
      PROVE  /\ held \cup Free = UNION chunks_ /\ free_blocks_ = Cardinality(Free)
             /\ total_blocks_ = Cardinality(UNION chunks_)
  <2>1. Flights(call) = {} /\ AllUncounted(call) = 0 /\ Cardinality(GrowFlights(call)) = 0
    BY <1>2, AllIdle, FS_EmptySet
  <2>2. UNION chunks_ = 1 .. total_blocks_ /\ Free \cup held = 1 .. total_blocks_
    BY <2>1 DEF PoolInv, BlocksApart
  <2>3. total_blocks_ \in Nat /\ free_blocks_ \in Int /\ Cardinality(Free) \in Nat
    BY PoolAssumption, FreeIsFinite, FS_CardinalityType DEF PoolInv, PoolTypeOK, Free
  <2>4. Cardinality(1 .. total_blocks_) = total_blocks_
    BY <2>3, IntervalIs
  <2>5. free_blocks_ = Cardinality(Free)
    BY <2>1, <2>3 DEF PoolInv, CountsHold
  <2> QED
    BY <2>2, <2>4, <2>5
<1> QED
  BY <1>1, <1>2 DEF BlocksAccounted

\* Whatever threads take and give back blocks of a pool, and in whatever order
\* their compare-and-swaps succeed, no block is given out twice or lost and, once
\* the calls are over, the counters are right, unless PopBlock swings the head to
\* a link that is not that of the block any more.  The free list has no
\* other weakness: growth, pushes, counters and Reset add none.  That step is what
\* the run MCPoolShared shows with two threads that allocate and one that frees.
THEOREM PoolSafety ==
  PoolSpec /\ [][\A t \in PoolThreads : ~StalePop(t)]_pool_vars => []BlocksAccounted
<1>1. PoolInit => PoolInv
  BY PoolInitHolds
<1>2. PoolInv /\ [PoolNext]_pool_vars /\ [\A t \in PoolThreads : ~StalePop(t)]_pool_vars => PoolInv'
  BY PoolNextKeeps
<1>3. PoolInv => BlocksAccounted
  BY PoolInvTells
<1> QED
  BY <1>1, <1>2, <1>3, PTL DEF PoolSpec

\* A pool from which one thread takes blocks while any number give them back, or
\* from which any number take while none gives back, never makes that step.
COROLLARY PoolOfOneSafety ==
  ASSUME OnePops
  PROVE  PoolSpec => []BlocksAccounted
<1>1. PoolInit => PoolInv
  BY PoolInitHolds
<1>2. PoolInv /\ [PoolNext]_pool_vars => PoolInv'
  BY OnePopIsFresh, PoolNextKeeps
<1>3. PoolInv => BlocksAccounted
  BY PoolInvTells
<1> QED
  BY <1>1, <1>2, <1>3, PTL DEF PoolSpec
-------------------------------------------------------------------------------
(***************************************************************************)
(* The stack.  While deallocate runs beside nothing else, the allocation   *)
(* that it takes back stays the newest until its space is returned; what   *)
(* was counted or is about to be covers what is live and what is being     *)
(* returned, and the space that was given out is that of the offsets.      *)
(***************************************************************************)
Allocations == [block : Nat \ {0}, from : Nat, to : Nat]
Ordered == {a \in Allocations : a.from < a.to}

StackShape ==
  /\ stack_blocks \in Seq([capacity : 0 .. MaxTotal, offset : Nat]) /\ stack_blocks # <<>>
  /\ allocation_count_ \in Int /\ total_allocated_ \in Int
  /\ stack_call = [t \in StackThreads |-> stack_call[t]]

LiveApart ==
  /\ IsFiniteSet(live) /\ live \subseteq Ordered
  /\ \A a \in live : a.block \in DOMAIN stack_blocks
  /\ AllocationsAreSeparate

MarkerHolds ==
  /\ marker.block \in 0 .. Len(stack_blocks) /\ marker.offset \in Nat
  /\ marker.block = 0 => marker = NoMarker
  /\ \A a \in marker.live :
       a.block <= marker.block /\ (a.block = marker.block => a.to <= marker.offset)

CallFits(c) ==
  /\ c.at \in {"idle", "aborted", "reserve", "count", "claim", "append", "wait", "store"}
  /\ c.at \in {"reserve", "claim", "append", "wait"} => c.request \in StackRequests
  /\ c.at = "reserve" => c.block \in DOMAIN stack_blocks /\ c.offset \in Nat
  /\ c.at \in {"claim", "append"} => c.capacity \in Nat
  /\ c.at = "count" => c.consumed \in Nat
  /\ c.at = "store" => c.allocation \in Ordered /\ c.allocation.block \in DOMAIN stack_blocks

CallsFit == \A t \in StackThreads : CallFits(stack_call[t])

StoresNewest ==
  \A t \in StackThreads : StackAt(t, "store") =>
    LET a == stack_call[t].allocation IN
    /\ a.to = stack_blocks[a.block].offset
    /\ \A b \in live : b.block = a.block => b.to <= a.from
    /\ \A u \in StackThreads \ {t} : stack_call[u].at \in {"idle", "aborted"}

Calling(at) == {t \in StackThreads : StackAt(t, at)}
CountCovers ==
  ~rewound => allocation_count_ + Cardinality(Calling("count")) >= Cardinality(live) + Cardinality(Calling("store"))

StackUncounted == [t \in StackThreads |-> IF StackAt(t, "count") THEN stack_call[t].consumed ELSE 0]
StackOffsets == [b \in DOMAIN stack_blocks |-> stack_blocks[b].offset]
SpaceCovers ==
  ~rewound => total_allocated_ + Cardinality(Units(StackUncounted)) = Cardinality(Units(StackOffsets))

StackInv ==
  /\ StackShape /\ LiveApart /\ MarkerHolds /\ CallsFit /\ StoresNewest
  /\ CountCovers /\ SpaceCovers
LEMMA StackFacts ==
  ASSUME StackShape, CallsFit
  PROVE  /\ Len(stack_blocks) \in Nat \ {0} /\ DOMAIN stack_blocks = 1 .. Len(stack_blocks)
         /\ \A b \in 1 .. Len(stack_blocks) :
              stack_blocks[b].capacity \in 0 .. MaxTotal /\ stack_blocks[b].offset \in Nat
         /\ IsFiniteSet(1 .. Len(stack_blocks)) /\ StackOffsets \in [1 .. Len(stack_blocks) -> Nat]
         /\ Cardinality(Units(StackOffsets)) \in Nat
         /\ IsFiniteSet(StackThreads) /\ StackUncounted \in [StackThreads -> Nat] /\ Cardinality(Units(StackUncounted)) \in Nat
<1>1. Len(stack_blocks) \in Nat \ {0} /\ DOMAIN stack_blocks = 1 .. Len(stack_blocks)
  BY DEF StackShape
<1>2. \A b \in 1 .. Len(stack_blocks) :
        stack_blocks[b].capacity \in 0 .. MaxTotal /\ stack_blocks[b].offset \in Nat
  <2>1. \A b \in 1 .. Len(stack_blocks) : stack_blocks[b] \in [capacity : 0 .. MaxTotal, offset : Nat]
    BY <1>1, ElementOfSeq DEF StackShape
  <2> QED
    BY <2>1
<1>3. IsFiniteSet(1 .. Len(stack_blocks)) /\ IsFiniteSet(StackThreads)
  BY <1>1, UpToFinite, StackAssumption
<1>4. StackOffsets \in [1 .. Len(stack_blocks) -> Nat]
  BY <1>1, <1>2 DEF StackOffsets
<1>5. StackUncounted \in [StackThreads -> Nat]
  BY DEF StackUncounted, CallsFit, CallFits, StackAt
<1>6. Cardinality(Units(StackOffsets)) \in Nat
  <2> DEFINE S == 1 .. Len(stack_blocks)
  <2>1. IsFiniteSet(S) /\ StackOffsets \in [S -> Nat]
    BY <1>3, <1>4
  <2> HIDE DEF S
  <2> QED
    BY <2>1, UnitsFinite
<1>7. Cardinality(Units(StackUncounted)) \in Nat
  BY <1>3, <1>5, UnitsFinite
<1> QED
  BY <1>1, <1>2, <1>3, <1>4, <1>5, <1>6, <1>7

\* What the move of one call changes, and what it does to the counts.
LEMMA StackCallMoves ==
  ASSUME StackShape, CallsFit, NEW t \in StackThreads, NEW c, StackGoes(t, c), c.at = "count" => c.consumed \in Nat
  PROVE  /\ \A u \in StackThreads : stack_call'[u] = IF u = t THEN c ELSE stack_call[u]
         /\ stack_call' = [u \in StackThreads |-> stack_call'[u]]
         /\ Cardinality(Units(StackUncounted')) \in Nat
         /\ Cardinality(Units(StackUncounted')) + StackUncounted[t] =
              Cardinality(Units(StackUncounted)) + IF c.at = "count" THEN c.consumed ELSE 0
<1>1. /\ \A u \in StackThreads : stack_call'[u] = IF u = t THEN c ELSE stack_call[u]
      /\ stack_call' = [u \in StackThreads |-> stack_call'[u]]
  BY DEF StackShape, StackGoes
<1>2. IsFiniteSet(StackThreads) /\ StackUncounted \in [StackThreads -> Nat]
  BY StackFacts
<1>3. \A u \in StackThreads :
        StackUncounted'[u] = IF u # t THEN StackUncounted[u] ELSE IF c.at = "count" THEN c.consumed ELSE 0
  BY <1>1 DEF StackUncounted, StackAt
<1>4. StackUncounted' \in [StackThreads -> Nat]
  BY <1>2, <1>3 DEF StackUncounted
<1>5. Cardinality(Units(StackUncounted')) \in Nat
  BY <1>2, <1>4, UnitsFinite
<1>6. \A u \in StackThreads \ {t} : StackUncounted'[u] = StackUncounted[u]
  BY <1>3
<1>7. Cardinality(Units(StackUncounted')) + StackUncounted[t] = Cardinality(Units(StackUncounted)) + StackUncounted'[t]
  BY <1>2, <1>4, <1>6, UnitsChange
<1> QED
  BY <1>1, <1>3, <1>5, <1>7

LEMMA CallingMoves ==
  ASSUME StackShape, CallsFit, NEW t \in StackThreads, NEW c, StackGoes(t, c), NEW at
  PROVE  /\ Cardinality(Calling(at)) \in Nat /\ Cardinality(Calling(at)') \in Nat
         /\ Cardinality(Calling(at)') + Here(stack_call[t], at) = Cardinality(Calling(at)) + Here(c, at)
<1>1. \A u \in StackThreads : stack_call'[u] = IF u = t THEN c ELSE stack_call[u]
  BY DEF StackShape, StackGoes
<1> DEFINE A == Calling(at)
           B == {u \in StackThreads : stack_call'[u].at = at}
           C == A \ {t}
<1>2. IsFiniteSet(A) /\ IsFiniteSet(B) /\ IsFiniteSet(C)
  BY StackAssumption, FS_Subset DEF Calling
<1>3. A = IF stack_call[t].at = at THEN C \cup {t} ELSE C
  BY DEF Calling, StackAt
<1>4. B = IF c.at = at THEN C \cup {t} ELSE C
  BY <1>1 DEF Calling, StackAt
<1>5. t \notin C
  OBVIOUS
<1>6. Calling(at)' = B
  BY DEF Calling, StackAt
<1> HIDE DEF A, B, C
<1>7. Cardinality(C \cup {t}) = Cardinality(C) + 1 /\ Cardinality(C) \in Nat /\ Cardinality(A) \in Nat /\ Cardinality(B) \in Nat
  BY <1>2, <1>5, FS_AddElement, FS_CardinalityType
<1>8. Cardinality(B) + Here(stack_call[t], at) = Cardinality(A) + Here(c, at)
  BY <1>3, <1>4, <1>7 DEF Here
<1> QED
  BY <1>6, <1>7, <1>8 DEF A

\* What the store of an offset changes, and what it does to the sum of them.
LEMMA OffsetMoves ==
  ASSUME StackShape, CallsFit, NEW b \in DOMAIN stack_blocks, NEW n \in Nat,
         stack_blocks' = [stack_blocks EXCEPT ![b].offset = n]
  PROVE  /\ stack_blocks' \in Seq([capacity : 0 .. MaxTotal, offset : Nat]) /\ stack_blocks' # <<>>
         /\ Len(stack_blocks') = Len(stack_blocks) /\ DOMAIN stack_blocks' = DOMAIN stack_blocks
         /\ \A x \in DOMAIN stack_blocks :
              stack_blocks'[x].offset = IF x = b THEN n ELSE stack_blocks[x].offset
         /\ Cardinality(Units(StackOffsets')) \in Nat
         /\ Cardinality(Units(StackOffsets')) + stack_blocks[b].offset = Cardinality(Units(StackOffsets)) + n
<1> DEFINE S == 1 .. Len(stack_blocks)
           e == [stack_blocks[b] EXCEPT !.offset = n]
           B == [capacity : 0 .. MaxTotal, offset : Nat]
<1>1. /\ Len(stack_blocks) \in Nat \ {0} /\ DOMAIN stack_blocks = S
      /\ IsFiniteSet(S) /\ StackOffsets \in [S -> Nat]
  BY StackFacts
<1>2. stack_blocks \in Seq(B)
  BY DEF StackShape
<1>3. e \in B /\ e.offset = n
  <2>1. stack_blocks[b] \in B
    BY <1>1, <1>2, ElementOfSeq
  <2> QED
    BY <2>1
<1>4. stack_blocks' = [stack_blocks EXCEPT ![b] = e]
  OBVIOUS
<1> HIDE DEF e, B
<1>5. /\ stack_blocks' \in Seq(B) /\ Len(stack_blocks') = Len(stack_blocks) /\ DOMAIN stack_blocks' = S
      /\ \A x \in S : stack_blocks'[x] = IF x = b THEN e ELSE stack_blocks[x]
  BY <1>1, <1>2, <1>3, <1>4
<1>6. \A x \in S : StackOffsets'[x] = IF x = b THEN n ELSE StackOffsets[x]
  BY <1>1, <1>3, <1>5 DEF StackOffsets
<1>7. StackOffsets' \in [S -> Nat] /\ \A x \in S \ {b} : StackOffsets'[x] = StackOffsets[x]
  BY <1>1, <1>5, <1>6 DEF StackOffsets
<1>8. b \in S
  BY <1>1
<1> HIDE DEF S
<1>9. Cardinality(Units(StackOffsets')) \in Nat
  BY <1>1, <1>7, UnitsFinite
<1>10. Cardinality(Units(StackOffsets')) + StackOffsets[b] = Cardinality(Units(StackOffsets)) + StackOffsets'[b]
  <2> DEFINE f == StackOffsets
             g == StackOffsets'
  <2>1. IsFiniteSet(S) /\ f \in [S -> Nat] /\ g \in [S -> Nat] /\ \A x \in S \ {b} : g[x] = f[x]
    BY <1>1, <1>7
  <2> HIDE DEF f, g
  <2>2. Cardinality(Units(g)) + f[b] = Cardinality(Units(f)) + g[b]
    BY <1>8, <2>1, UnitsChange
  <2> QED
    BY <2>2 DEF f, g
<1>11. StackOffsets[b] = stack_blocks[b].offset /\ StackOffsets'[b] = n
  BY <1>6, <1>8 DEF StackOffsets
<1>12. stack_blocks' # <<>>
  BY <1>1, <1>5
<1> QED
  BY <1>1, <1>3, <1>5, <1>9, <1>10, <1>11, <1>12 DEF B

\* A block is appended, empty.
LEMMA ChainGrows ==
  ASSUME StackShape, CallsFit, NEW n \in 0 .. MaxTotal,
         stack_blocks' = Append(stack_blocks, [capacity |-> n, offset |-> 0])
  PROVE  /\ stack_blocks' \in Seq([capacity : 0 .. MaxTotal, offset : Nat]) /\ stack_blocks' # <<>>
         /\ Len(stack_blocks') = Len(stack_blocks) + 1 /\ DOMAIN stack_blocks' = 1 .. Len(stack_blocks) + 1
         /\ \A b \in DOMAIN stack_blocks : stack_blocks'[b] = stack_blocks[b]
         /\ stack_blocks'[Len(stack_blocks) + 1].offset = 0
         /\ Cardinality(Units(StackOffsets')) = Cardinality(Units(StackOffsets))
<1> DEFINE B == [capacity : 0 .. MaxTotal, offset : Nat]
           e == [capacity |-> n, offset |-> 0]
           k == Len(stack_blocks)
<1>1. k \in Nat \ {0} /\ DOMAIN stack_blocks = 1 .. k /\ StackOffsets \in [1 .. k -> Nat]
  BY StackFacts
<1>2. stack_blocks \in Seq(B) /\ e \in B /\ e.offset = 0
  BY DEF StackShape
<1> HIDE DEF B, e
<1>3. stack_blocks' = Append(stack_blocks, e)
  BY DEF e
<1>4. /\ stack_blocks' \in Seq(B) /\ Len(stack_blocks') = k + 1 /\ DOMAIN stack_blocks' = 1 .. k + 1
      /\ \A b \in 1 .. k : stack_blocks'[b] = stack_blocks[b]
      /\ stack_blocks'[k + 1] = e
  BY <1>2, <1>3
<1>5. stack_blocks' # <<>>
  BY <1>1, <1>4
<1>6. \A b \in 1 .. k : stack_blocks'[b].offset = StackOffsets[b]
  BY <1>1, <1>4 DEF StackOffsets
<1>7. StackOffsets' = [b \in 1 .. k + 1 |-> IF b = k + 1 THEN 0 ELSE StackOffsets[b]]
  <2>1. StackOffsets' = [b \in 1 .. k + 1 |-> stack_blocks'[b].offset]
    BY <1>4 DEF StackOffsets
  <2>2. \A b \in 1 .. k + 1 : stack_blocks'[b].offset = IF b = k + 1 THEN 0 ELSE StackOffsets[b]
    BY <1>1, <1>2, <1>4, <1>6
  <2> QED
    BY <2>1, <2>2
<1>8. Cardinality(Units(StackOffsets')) = Cardinality(Units(StackOffsets))
  <2> DEFINE f == StackOffsets
             g == StackOffsets'
  <2>1. f \in [1 .. k -> Nat] /\ g \in [1 .. k + 1 -> Nat] /\ g[k + 1] = 0 /\ \A b \in 1 .. k : g[b] = f[b]
    BY <1>1, <1>7
  <2>2. k \in Nat
    BY <1>1
  <2> HIDE DEF f, g, k
  <2>3. Cardinality(Units(g)) = Cardinality(Units(f)) + g[k + 1]
    BY <2>1, <2>2, UnitsNext
  <2>4. Cardinality(Units(f)) \in Nat
    BY StackFacts DEF f
  <2> QED
    BY <2>1, <2>3, <2>4 DEF f, g
<1> QED
  BY <1>1, <1>2, <1>4, <1>5, <1>8 DEF B

\* Nobody is returning space while somebody allocates.
LEMMA NobodyStores ==
  ASSUME StackInv, NEW t \in StackThreads, stack_call[t].at \notin {"idle", "aborted", "store"}
  PROVE  \A u \in StackThreads : ~StackAt(u, "store")
BY DEF StackInv, StoresNewest, StackAt

\* A step of one call that leaves everything else alone, and counts nothing.
LEMMA PlainStackCall ==
  ASSUME StackInv, NEW t \in StackThreads, NEW c, StackGoes(t, c),
         UNCHANGED <<stack_blocks, allocation_count_, total_allocated_, marker, live, rewound>>,
         stack_call[t].at \notin {"count", "store"}, c.at \notin {"count", "store"}, CallFits(c),
         \A u \in StackThreads : ~StackAt(u, "store")
  PROVE  StackInv'
<1>1. /\ StackShape /\ LiveApart /\ MarkerHolds /\ CallsFit /\ StoresNewest /\ CountCovers /\ SpaceCovers
  BY DEF StackInv
<1>2. /\ \A u \in StackThreads : stack_call'[u] = IF u = t THEN c ELSE stack_call[u]
      /\ stack_call' = [u \in StackThreads |-> stack_call'[u]]
      /\ Cardinality(Units(StackUncounted')) \in Nat
      /\ Cardinality(Units(StackUncounted')) + StackUncounted[t] = Cardinality(Units(StackUncounted)) + 0
  BY <1>1, StackCallMoves
<1>3. StackShape' /\ LiveApart' /\ MarkerHolds'
  <2>1. StackShape'
    BY <1>1, <1>2 DEF StackShape
  <2>2. LiveApart' /\ MarkerHolds'
    BY <1>1 DEF LiveApart, MarkerHolds, AllocationsAreSeparate
  <2> QED
    BY <2>1, <2>2
<1>4. CallsFit'
  BY <1>1, <1>2 DEF CallsFit, CallFits
<1>5. StoresNewest'
  BY <1>2 DEF StoresNewest, StackAt
<1>6. CountCovers'
  <2>1. Calling("count")' = Calling("count") /\ Calling("store")' = Calling("store")
    BY <1>2 DEF Calling, StackAt
  <2> QED
    BY <1>1, <2>1 DEF CountCovers
<1>7. SpaceCovers'
  <2>1. StackUncounted[t] = 0 /\ Cardinality(Units(StackUncounted)) \in Nat
    BY <1>1, StackFacts DEF StackUncounted, StackAt
  <2>2. Cardinality(Units(StackUncounted')) = Cardinality(Units(StackUncounted))
    BY <1>2, <2>1
  <2>3. StackOffsets' = StackOffsets
    BY DEF StackOffsets
  <2> QED
    BY <1>1, <2>2, <2>3 DEF SpaceCovers
<1> QED
  BY <1>3, <1>4, <1>5, <1>6, <1>7 DEF StackInv

LEMMA StackAllocateKeeps ==
  ASSUME StackInv, ~Unsynchronized, NEW t \in StackThreads, NEW r \in StackRequests, StackAllocate(t, r)
  PROVE  StackInv'
<1> DEFINE c == [at |-> "reserve", request |-> r, block |-> HeadBlock, offset |-> stack_blocks[HeadBlock].offset, grown |-> FALSE]
<1>1. StackGoes(t, c) /\ stack_call[t].at = "idle"
  BY DEF StackAllocate, NoCall
<1>2. \A u \in StackThreads : ~StackAt(u, "store")
  BY DEF StackAllocate, Admitted
<1>3. HeadBlock \in DOMAIN stack_blocks /\ stack_blocks[HeadBlock].offset \in Nat
  BY StackFacts DEF StackInv, HeadBlock
<1>4. CallFits(c) /\ c.at \notin {"count", "store"}
  BY <1>3 DEF CallFits
<1> HIDE DEF c
<1> QED
  BY <1>1, <1>2, <1>4, PlainStackCall DEF StackAllocate

\* Every allocation takes space, for its header at least.
LEMMA ConsumedIsSome ==
  ASSUME NEW offset \in Nat, NEW r \in StackRequests
  PROVE  Consumed(offset, r) \in Nat /\ Consumed(offset, r) > 0
<1>1. r.size \in Nat /\ r.alignment \in Nat \ {0}
  BY StackAssumption
<1>2. \A n \in Int : CalculatePadding(n, r.alignment) \in Nat
  <2> SUFFICES ASSUME NEW n \in Int PROVE (-n) % r.alignment \in Nat
    BY DEF CalculatePadding
  <2>1. \A m \in Int, k \in Nat \ {0} : m % k \in Nat
    OBVIOUS
  <2> QED
    BY <1>1, <2>1
<1> DEFINE p == CalculatePadding(offset, r.alignment)
           q == CalculatePadding(1 - p, r.alignment)
<1>3. p \in Nat
  BY <1>2
<1>4. q \in Nat
  <2>1. 1 - p \in Int
    BY <1>3
  <2> HIDE DEF p
  <2> QED
    BY <1>2, <2>1
<1>5. Consumed(offset, r) = (IF p < 1 THEN p + (1 - p) + q ELSE p) + r.size
  BY DEF Consumed, CalculatePaddingWithHeader, Header
<1> HIDE DEF p, q
<1> QED
  BY <1>1, <1>3, <1>4, <1>5

LEMMA TryReserveKeeps ==
  ASSUME StackInv, NEW t \in StackThreads, TryReserve(t)
  PROVE  StackInv'
<1> DEFINE r == Reserved(t)
           b == stack_call[t].block
           c == [at |-> "count", consumed |-> r.to - r.from, grown |-> stack_call[t].grown]
           again == [stack_call[t] EXCEPT !.offset = stack_blocks[b].offset]
<1>1. /\ StackShape /\ LiveApart /\ MarkerHolds /\ CallsFit /\ StoresNewest /\ CountCovers /\ SpaceCovers
  BY DEF StackInv
<1>2. stack_call[t].at = "reserve" /\ CallFits(stack_call[t])
  BY <1>1 DEF TryReserve, StackAt, CallsFit
<1>3. b \in DOMAIN stack_blocks /\ stack_call[t].offset \in Nat /\ stack_call[t].request \in StackRequests
  BY <1>2 DEF CallFits
<1>4. \A u \in StackThreads : ~StackAt(u, "store")
  BY <1>2, NobodyStores
<1>5. DOMAIN stack_blocks = 1 .. Len(stack_blocks) /\ Len(stack_blocks) \in Nat /\ stack_blocks[b].offset \in Nat
  BY <1>1, <1>3, StackFacts
<1>6. /\ r.block = b /\ r.from = stack_call[t].offset /\ r.to \in Nat /\ r.from < r.to /\ r \in Ordered
      /\ r.to - r.from \in Nat
  <2> DEFINE n == Consumed(stack_call[t].offset, stack_call[t].request)
  <2>1. n \in Nat /\ n > 0
    BY <1>3, ConsumedIsSome
  <2>2. r = [block |-> b, from |-> stack_call[t].offset, to |-> stack_call[t].offset + n]
    BY DEF Reserved
  <2> HIDE DEF n
  <2>3. /\ stack_call[t].offset + n \in Nat /\ stack_call[t].offset < stack_call[t].offset + n
        /\ (stack_call[t].offset + n) - stack_call[t].offset \in Nat
    BY <1>3, <2>1
  <2> HIDE DEF r
  <2>4. r.block = b /\ r.from = stack_call[t].offset /\ r.to = stack_call[t].offset + n
    BY <2>2
  <2>5. b \in Nat \ {0}
    BY <1>3, <1>5
  <2>6. r \in Ordered
    BY <1>3, <2>2, <2>3, <2>4, <2>5 DEF Ordered, Allocations
  <2> QED
    BY <1>3, <2>3, <2>4, <2>6
<1>7. CASE stack_blocks[b].offset # stack_call[t].offset
  <2>1. StackGoes(t, again) /\ UNCHANGED <<stack_blocks, allocation_count_, total_allocated_, marker, live, rewound>>
    BY <1>7 DEF TryReserve, Reserved
  <2>2. again.at = "reserve" /\ CallFits(again)
    BY <1>2, <1>5 DEF CallFits
  <2> HIDE DEF again
  <2> QED
    BY <1>2, <1>4, <2>1, <2>2, PlainStackCall
<1>8. CASE stack_blocks[b].offset = stack_call[t].offset
  <2>1. /\ stack_blocks' = [stack_blocks EXCEPT ![b].offset = r.to]
        /\ live' = live \cup {r} /\ StackGoes(t, c)
        /\ UNCHANGED <<allocation_count_, total_allocated_, marker, rewound>>
    BY <1>8 DEF TryReserve, Reserved
  <2> HIDE DEF r
  <2>2. c.at = "count" /\ c.consumed = r.to - r.from /\ c.consumed \in Nat
    BY <1>6
  <2> HIDE DEF c
  <2>3. /\ \A u \in StackThreads : stack_call'[u] = IF u = t THEN c ELSE stack_call[u]
        /\ stack_call' = [u \in StackThreads |-> stack_call'[u]]
        /\ Cardinality(Units(StackUncounted')) \in Nat
        /\ Cardinality(Units(StackUncounted')) + StackUncounted[t] = Cardinality(Units(StackUncounted)) + c.consumed
    <3>1. c.at = "count" => c.consumed \in Nat
      BY <2>2
    <3> QED
      BY <1>1, <2>1, <2>2, <3>1, StackCallMoves
  <2>4. /\ stack_blocks' \in Seq([capacity : 0 .. MaxTotal, offset : Nat]) /\ stack_blocks' # <<>>
        /\ Len(stack_blocks') = Len(stack_blocks) /\ DOMAIN stack_blocks' = DOMAIN stack_blocks
        /\ \A x \in DOMAIN stack_blocks :
             stack_blocks'[x].offset = IF x = b THEN r.to ELSE stack_blocks[x].offset
        /\ Cardinality(Units(StackOffsets')) \in Nat
        /\ Cardinality(Units(StackOffsets')) + stack_blocks[b].offset = Cardinality(Units(StackOffsets)) + r.to
    <3> HIDE DEF b
    <3> QED
      BY <1>1, <1>3, <1>6, <2>1, OffsetMoves
  <2>5. StackShape'
    BY <1>1, <2>1, <2>3, <2>4 DEF StackShape
  <2>6. LiveApart'
    <3>1. IsFiniteSet(live') /\ live' \subseteq Ordered /\ \A a \in live' : a.block \in DOMAIN stack_blocks'
      BY <1>1, <1>3, <1>6, <2>1, <2>4, FS_AddElement DEF LiveApart
    <3>2. \A a \in live : a.to <= stack_blocks[a.block].offset /\ a.to \in Nat /\ a.from \in Nat /\ a.block \in DOMAIN stack_blocks
      BY <1>1 DEF LiveApart, AllocationsAreSeparate, Ordered, Allocations
    <3>3. \A a \in live : a.block = b => a.to <= r.from
      BY <1>6, <1>8, <3>2
    <3>4. \A a \in live' : a.to <= stack_blocks'[a.block].offset
      <4>1. SUFFICES ASSUME NEW a \in live' PROVE a.to <= stack_blocks'[a.block].offset
        OBVIOUS
      <4>2. CASE a = r
        BY <1>3, <1>6, <2>4, <4>2
      <4>3. CASE a # r
        <5>1. a \in live
          BY <2>1, <4>3
        <5>2. a.block \in DOMAIN stack_blocks /\ a.to <= stack_blocks[a.block].offset /\ a.to \in Nat
          BY <3>2, <5>1
        <5>3. stack_blocks'[a.block].offset = IF a.block = b THEN r.to ELSE stack_blocks[a.block].offset
          BY <2>4, <5>2
        <5>4. a.block = b => a.to <= r.from /\ r.from <= r.to /\ r.from \in Nat /\ r.to \in Nat
          BY <1>3, <1>6, <3>3, <5>1
        <5> QED
          BY <5>2, <5>3, <5>4
      <4> QED
        BY <4>2, <4>3
    <3>5. \A x, y \in live' : x = y \/ x.block # y.block \/ x.to <= y.from \/ y.to <= x.from
      BY <1>1, <1>6, <2>1, <3>3 DEF LiveApart, AllocationsAreSeparate
    <3> QED
      BY <3>1, <3>4, <3>5 DEF LiveApart, AllocationsAreSeparate
  <2>7. MarkerHolds'
    BY <1>1, <2>1, <2>4 DEF MarkerHolds
  <2>8. CallsFit'
    <3>1. stack_call'[t].at = "count" /\ stack_call'[t].consumed \in Nat
      BY <2>2, <2>3
    <3>2. \A u \in StackThreads \ {t} : stack_call'[u] = stack_call[u] /\ CallFits(stack_call[u])
      BY <1>1, <2>3 DEF CallsFit
    <3>3. DOMAIN stack_blocks' = DOMAIN stack_blocks
      BY <2>4
    <3> QED
      BY <3>1, <3>2, <3>3 DEF CallsFit, CallFits
  <2>9. StoresNewest'
    BY <1>4, <2>2, <2>3 DEF StoresNewest, StackAt
  <2>10. CountCovers'
    <3>1. /\ Cardinality(Calling("count")') = Cardinality(Calling("count")) + 1
          /\ Cardinality(Calling("store")') = Cardinality(Calling("store"))
          /\ Cardinality(Calling("count")) \in Nat /\ Cardinality(Calling("store")) \in Nat
      BY <1>1, <1>2, <2>1, <2>2, CallingMoves DEF Here
    <3>2. Cardinality(live') <= Cardinality(live) + 1 /\ Cardinality(live) \in Nat /\ Cardinality(live') \in Nat
      <4>1. IsFiniteSet(live) /\ live' = live \cup {r}
        BY <1>1, <2>1 DEF LiveApart
      <4>2. Cardinality(live) \in Nat /\ (r \in live => live' = live)
        BY <4>1, FS_CardinalityType
      <4>3. r \notin live => Cardinality(live \cup {r}) = Cardinality(live) + 1
        BY <4>1, FS_AddElement
      <4> QED
        BY <4>1, <4>2, <4>3
    <3>3. allocation_count_ \in Int
      BY <1>1 DEF StackShape
    <3> QED
      BY <1>1, <2>1, <3>1, <3>2, <3>3 DEF CountCovers
  <2>11. SpaceCovers'
    <3>1. StackUncounted[t] = 0 /\ Cardinality(Units(StackUncounted)) \in Nat /\ Cardinality(Units(StackOffsets)) \in Nat
      BY <1>1, <1>2, StackFacts DEF StackUncounted, StackAt
    <3>2. total_allocated_ \in Int /\ rewound' = rewound /\ total_allocated_' = total_allocated_
      BY <1>1, <2>1 DEF StackShape
    <3>3. c.consumed = r.to - stack_blocks[b].offset /\ r.to \in Nat
      BY <1>6, <1>8, <2>2
    <3>4. Cardinality(Units(StackUncounted')) = Cardinality(Units(StackUncounted)) + c.consumed
      BY <2>3, <3>1
    <3>5. Cardinality(Units(StackOffsets')) + stack_blocks[b].offset = Cardinality(Units(StackOffsets)) + r.to
      BY <2>4
    <3>6. Cardinality(Units(StackOffsets')) \in Nat /\ stack_blocks[b].offset \in Nat
      BY <1>5, <2>4
    <3> DEFINE k == stack_blocks[b].offset
               m == r.to
    <3>7. c.consumed = m - k /\ Cardinality(Units(StackOffsets')) + k = Cardinality(Units(StackOffsets)) + m
          /\ k \in Nat /\ m \in Nat
      BY <3>3, <3>5, <3>6
    <3> HIDE DEF k, m
    <3> QED
      BY <1>1, <3>1, <3>2, <3>4, <3>6, <3>7 DEF SpaceCovers
  <2> QED
    BY <2>5, <2>6, <2>7, <2>8, <2>9, <2>10, <2>11 DEF StackInv
<1> QED
  BY <1>7, <1>8

LEMMA CountStackAllocationKeeps ==
  ASSUME StackInv, NEW t \in StackThreads, CountStackAllocation(t)
  PROVE  StackInv'
<1>1. /\ StackShape /\ LiveApart /\ MarkerHolds /\ CallsFit /\ StoresNewest /\ CountCovers /\ SpaceCovers
  BY DEF StackInv
<1>2. /\ stack_call[t].at = "count" /\ StackGoes(t, NoCall) /\ NoCall.at = "idle"
      /\ allocation_count_' = allocation_count_ + 1
      /\ total_allocated_' = total_allocated_ + stack_call[t].consumed
      /\ UNCHANGED <<stack_blocks, marker, live, rewound>>
  BY DEF CountStackAllocation, StackAt, NoCall
<1>3. stack_call[t].consumed \in Nat /\ StackUncounted[t] = stack_call[t].consumed
  BY <1>1, <1>2 DEF CallsFit, CallFits, StackUncounted, StackAt
<1>4. \A u \in StackThreads : ~StackAt(u, "store")
  BY <1>2, NobodyStores
<1>5. /\ \A u \in StackThreads : stack_call'[u] = IF u = t THEN NoCall ELSE stack_call[u]
      /\ stack_call' = [u \in StackThreads |-> stack_call'[u]]
      /\ Cardinality(Units(StackUncounted')) \in Nat
      /\ Cardinality(Units(StackUncounted')) + StackUncounted[t] = Cardinality(Units(StackUncounted)) + 0
  BY <1>1, <1>2, StackCallMoves
<1>6. StackShape'
  BY <1>1, <1>2, <1>3, <1>5 DEF StackShape
<1>7. LiveApart' /\ MarkerHolds'
  BY <1>1, <1>2 DEF LiveApart, MarkerHolds, AllocationsAreSeparate
<1>8. CallsFit'
  BY <1>1, <1>2, <1>5 DEF CallsFit, CallFits
<1>9. StoresNewest'
  BY <1>2, <1>4, <1>5 DEF StoresNewest, StackAt
<1>10. CountCovers'
  <2>1. /\ Cardinality(Calling("count")') + 1 = Cardinality(Calling("count"))
        /\ Cardinality(Calling("store")') = Cardinality(Calling("store"))
        /\ Cardinality(Calling("count")') \in Nat /\ Cardinality(Calling("store")) \in Nat
    BY <1>1, <1>2, CallingMoves DEF Here
  <2>2. allocation_count_ \in Int /\ Cardinality(live) \in Nat
    BY <1>1, FS_CardinalityType DEF StackShape, LiveApart
  <2> QED
    BY <1>1, <1>2, <2>1, <2>2 DEF CountCovers
<1>11. SpaceCovers'
  <2>1. total_allocated_ \in Int /\ Cardinality(Units(StackUncounted)) \in Nat /\ StackOffsets' = StackOffsets
    BY <1>1, <1>2, StackFacts DEF StackShape, StackOffsets
  <2> QED
    BY <1>1, <1>2, <1>3, <1>5, <2>1 DEF SpaceCovers
<1> QED
  BY <1>6, <1>7, <1>8, <1>9, <1>10, <1>11 DEF StackInv

LEMMA EnsureStackCapacityKeeps ==
  ASSUME StackInv, NEW t \in StackThreads, EnsureStackCapacity(t)
  PROVE  StackInv'
<1> DEFINE r == stack_call[t].request
           needed == NeededCapacity(r)
           desired == NextStackCapacity(stack_blocks[HeadBlock].capacity, needed)
           c == IF stack_call[t].grown \/ desired < needed THEN [at |-> "aborted"]
                ELSE [at |-> "claim", request |-> r, capacity |-> desired]
<1>1. /\ stack_call[t].at = "reserve" /\ StackGoes(t, c)
      /\ UNCHANGED <<stack_blocks, allocation_count_, total_allocated_, marker, live, rewound>>
  BY DEF EnsureStackCapacity, Full, StackAt
<1>2. r \in StackRequests
  BY <1>1 DEF StackInv, CallsFit, CallFits
<1>3. desired \in Nat
  <2>1. stack_blocks[HeadBlock].capacity \in 0 .. MaxTotal
    BY StackFacts DEF StackInv, HeadBlock
  <2> QED
    BY <1>2, <2>1, StackAssumption DEF NeededCapacity, Header
<1>4. c.at \in {"aborted", "claim"}
  OBVIOUS
<1>5. c.at = "claim" => c.request = r /\ c.capacity = desired
  OBVIOUS
<1> HIDE DEF r, needed, desired, c
<1>6. CallFits(c)
  BY <1>2, <1>3, <1>4, <1>5 DEF CallFits
<1>7. \A u \in StackThreads : ~StackAt(u, "store")
  BY <1>1, NobodyStores
<1> QED
  BY <1>1, <1>4, <1>6, <1>7, PlainStackCall

LEMMA ClaimStackGrowthKeeps ==
  ASSUME StackInv, NEW t \in StackThreads, ClaimStackGrowth(t)
  PROVE  StackInv'
<1> DEFINE place == IF stack_growing THEN "wait" ELSE "append"
           c == [at |-> place, request |-> stack_call[t].request, capacity |-> stack_call[t].capacity]
<1>1. /\ stack_call[t].at = "claim" /\ StackGoes(t, c)
      /\ UNCHANGED <<stack_blocks, allocation_count_, total_allocated_, marker, live, rewound>>
  BY DEF ClaimStackGrowth, StackAt
<1>2. stack_call[t].request \in StackRequests /\ stack_call[t].capacity \in Nat
  BY <1>1 DEF StackInv, CallsFit, CallFits
<1>3. place \in {"wait", "append"}
  OBVIOUS
<1> HIDE DEF place
<1>4. c.at \in {"wait", "append"} /\ CallFits(c)
  BY <1>1, <1>2, <1>3 DEF CallFits
<1> HIDE DEF c
<1>5. \A u \in StackThreads : ~StackAt(u, "store")
  BY <1>1, NobodyStores
<1> QED
  BY <1>1, <1>4, <1>5, PlainStackCall

LEMMA CreateBlockFailsKeeps ==
  ASSUME StackInv, NEW t \in StackThreads, CreateBlockFails(t)
  PROVE  StackInv'
<1> DEFINE c == [at |-> "aborted"]
<1>1. /\ stack_call[t].at = "append" /\ StackGoes(t, c)
      /\ UNCHANGED <<stack_blocks, allocation_count_, total_allocated_, marker, live, rewound>>
  BY DEF CreateBlockFails, StackAt
<1>2. c.at = "aborted" /\ CallFits(c)
  BY DEF CallFits
<1> HIDE DEF c
<1>3. \A u \in StackThreads : ~StackAt(u, "store")
  BY <1>1, NobodyStores
<1> QED
  BY <1>1, <1>2, <1>3, PlainStackCall

LEMMA StackWaitedKeeps ==
  ASSUME StackInv, NEW t \in StackThreads, StackWaited(t)
  PROVE  StackInv'
<1> DEFINE loads == [at |-> "reserve", request |-> stack_call[t].request, block |-> Len(stack_blocks),
                     offset |-> Last(stack_blocks).offset, grown |-> TRUE]
           fails == [at |-> "aborted"]
<1>1. /\ StackGoes(t, loads) \/ StackGoes(t, fails)
      /\ UNCHANGED <<stack_blocks, allocation_count_, total_allocated_, marker, live, rewound>>
  BY DEF StackWaited, StackAt, AfterGrowth
<1>2. stack_call[t].request \in StackRequests
  BY <1>1 DEF StackInv, CallsFit, CallFits, StackWaited, StackAt
<1>3. stack_call[t].at = "wait"
  BY DEF StackWaited, StackAt
<1>4. Len(stack_blocks) \in DOMAIN stack_blocks /\ Last(stack_blocks).offset \in Nat
  BY StackFacts DEF StackInv, Last
<1>5. CallFits(loads) /\ CallFits(fails) /\ loads.at = "reserve" /\ fails.at = "aborted"
  BY <1>2, <1>4 DEF CallFits
<1> HIDE DEF loads, fails
<1>6. \A u \in StackThreads : ~StackAt(u, "store")
  BY <1>3, NobodyStores
<1> QED
  BY <1>1, <1>3, <1>5, <1>6, PlainStackCall

LEMMA AppendBlockKeeps ==
  ASSUME StackInv, NEW t \in StackThreads, AppendBlock(t)
  PROVE  StackInv'
<1> DEFINE n == stack_call[t].capacity
<1>1. /\ StackShape /\ LiveApart /\ MarkerHolds /\ CallsFit /\ StoresNewest /\ CountCovers /\ SpaceCovers
  BY DEF StackInv
<1>2. /\ stack_call[t].at = "append" /\ ChainCapacity(stack_blocks) + n <= MaxTotal
      /\ stack_blocks' = Append(stack_blocks, [capacity |-> n, offset |-> 0])
      /\ UNCHANGED <<allocation_count_, total_allocated_, marker, live, rewound>>
  BY DEF AppendBlock, StackAt
<1>3. n \in Nat /\ stack_call[t].request \in StackRequests
  BY <1>1, <1>2 DEF CallsFit, CallFits
<1>4. n \in 0 .. MaxTotal
  <2> DEFINE S == 1 .. Len(stack_blocks)
             f == [b \in S |-> stack_blocks[b].capacity]
  <2>1. DOMAIN stack_blocks = S /\ IsFiniteSet(S)
    BY <1>1, StackFacts
  <2>2. f \in [S -> Nat]
    BY <1>1, StackFacts, StackAssumption
  <2>3. ChainCapacity(stack_blocks) = Cardinality(Units(f))
    BY <2>1 DEF ChainCapacity
  <2> HIDE DEF S, f
  <2>4. Cardinality(Units(f)) \in Nat
    BY <2>1, <2>2, UnitsFinite
  <2> QED
    BY <1>2, <1>3, <2>3, <2>4, StackAssumption
<1>5. /\ stack_blocks' \in Seq([capacity : 0 .. MaxTotal, offset : Nat]) /\ stack_blocks' # <<>>
      /\ Len(stack_blocks') = Len(stack_blocks) + 1 /\ DOMAIN stack_blocks' = 1 .. Len(stack_blocks) + 1
      /\ \A b \in DOMAIN stack_blocks : stack_blocks'[b] = stack_blocks[b]
      /\ stack_blocks'[Len(stack_blocks) + 1].offset = 0
      /\ Cardinality(Units(StackOffsets')) = Cardinality(Units(StackOffsets))
  <2> HIDE DEF n
  <2> QED
    BY <1>1, <1>2, <1>4, ChainGrows
<1>6. Len(stack_blocks) \in Nat \ {0} /\ DOMAIN stack_blocks = 1 .. Len(stack_blocks)
  BY <1>1, StackFacts
<1>7. DOMAIN stack_blocks \subseteq DOMAIN stack_blocks'
  BY <1>5, <1>6
<1>8. PICK c : StackGoes(t, c) /\ c.at = "reserve" /\ c.request \in StackRequests /\ c.offset = 0 /\ c.block = Len(stack_blocks) + 1
  <2> DEFINE c == [at |-> "reserve", request |-> stack_call[t].request, block |-> Len(stack_blocks'),
                   offset |-> Last(stack_blocks').offset, grown |-> TRUE]
  <2>1. StackGoes(t, c)
    BY DEF AppendBlock, AfterGrowth
  <2>2. Last(stack_blocks').offset = 0 /\ Len(stack_blocks') = Len(stack_blocks) + 1
    BY <1>5 DEF Last
  <2>3. /\ c.at = "reserve" /\ c.request = stack_call[t].request
        /\ c.offset = Last(stack_blocks').offset /\ c.block = Len(stack_blocks')
    OBVIOUS
  <2> HIDE DEF c
  <2> QED
    BY <1>3, <2>1, <2>2, <2>3
<1>9. /\ \A u \in StackThreads : stack_call'[u] = IF u = t THEN c ELSE stack_call[u]
      /\ stack_call' = [u \in StackThreads |-> stack_call'[u]]
      /\ Cardinality(Units(StackUncounted')) \in Nat
      /\ Cardinality(Units(StackUncounted')) + StackUncounted[t] = Cardinality(Units(StackUncounted)) + 0
  BY <1>1, <1>8, StackCallMoves
<1>10. \A u \in StackThreads : ~StackAt(u, "store")
  BY <1>2, NobodyStores
<1>11. StackShape'
  BY <1>1, <1>2, <1>5, <1>9 DEF StackShape
<1>12. LiveApart'
  BY <1>1, <1>2, <1>5, <1>7 DEF LiveApart, AllocationsAreSeparate
<1>13. MarkerHolds'
  BY <1>1, <1>2, <1>5, <1>6 DEF MarkerHolds
<1>14. CallsFit'
  <2>1. c.at = "reserve" /\ c.request \in StackRequests /\ c.block \in DOMAIN stack_blocks' /\ c.offset \in Nat
    BY <1>5, <1>6, <1>8
  <2>2. \A u \in StackThreads : CallFits(stack_call[u])
    BY <1>1 DEF CallsFit
  <2> QED
    BY <1>7, <1>9, <2>1, <2>2 DEF CallsFit, CallFits
<1>15. StoresNewest'
  BY <1>8, <1>9, <1>10 DEF StoresNewest, StackAt
<1>16. CountCovers'
  <2>1. Calling("count")' = Calling("count") /\ Calling("store")' = Calling("store")
    BY <1>2, <1>8, <1>9 DEF Calling, StackAt
  <2> QED
    BY <1>1, <1>2, <2>1 DEF CountCovers
<1>17. SpaceCovers'
  <2>1. StackUncounted[t] = 0 /\ Cardinality(Units(StackUncounted)) \in Nat
    BY <1>1, <1>2, StackFacts DEF StackUncounted, StackAt
  <2>2. Cardinality(Units(StackUncounted')) = Cardinality(Units(StackUncounted))
    BY <1>9, <2>1
  <2> QED
    BY <1>1, <1>2, <1>5, <2>2 DEF SpaceCovers
<1> QED
  BY <1>11, <1>12, <1>13, <1>14, <1>15, <1>16, <1>17 DEF StackInv

LEMMA DeallocateKeeps ==
  ASSUME StackInv, ~Unsynchronized, NEW t \in StackThreads, NEW a \in live, Deallocate(t, a)
  PROVE  StackInv'
<1>1. /\ StackShape /\ LiveApart /\ MarkerHolds /\ CallsFit /\ StoresNewest /\ CountCovers /\ SpaceCovers
  BY DEF StackInv
<1>2. /\ stack_call[t].at = "idle" /\ StackQuiet /\ live' = live \ {a}
      /\ UNCHANGED <<stack_blocks, allocation_count_, total_allocated_, marker, rewound>>
  BY DEF Deallocate, NoCall
<1>3. a \in Ordered /\ a.block \in DOMAIN stack_blocks
  BY <1>1 DEF LiveApart
<1>4. /\ IsFiniteSet(live') /\ Cardinality(live') + 1 = Cardinality(live)
      /\ Cardinality(live') \in Nat /\ Cardinality(live) \in Nat
  <2>1. IsFiniteSet(live) /\ a \in live
    BY <1>1 DEF LiveApart
  <2>2. IsFiniteSet(live \ {a}) /\ Cardinality(live \ {a}) = Cardinality(live) - 1
    BY <2>1, FS_RemoveElement
  <2>3. Cardinality(live) \in Nat /\ Cardinality(live \ {a}) \in Nat
    BY <2>1, <2>2, FS_CardinalityType
  <2> QED
    BY <1>2, <2>2, <2>3
<1>5. LiveApart' /\ MarkerHolds'
  BY <1>1, <1>2, <1>4 DEF LiveApart, MarkerHolds, AllocationsAreSeparate
<1>6. CASE ~IsNewest(a)
  <2>1. stack_call' = stack_call
    BY <1>6 DEF Deallocate
  <2>2. StackShape' /\ CallsFit'
    BY <1>1, <1>2, <2>1 DEF StackShape, CallsFit, CallFits
  <2>3. StoresNewest'
    BY <1>2, <2>1 DEF StoresNewest, StackAt, StackQuiet
  <2>4. CountCovers'
    <3>1. Calling("count")' = Calling("count") /\ Calling("store")' = Calling("store")
      BY <2>1 DEF Calling, StackAt
    <3>2. /\ Cardinality(Calling("count")) \in Nat /\ Cardinality(Calling("store")) \in Nat
          /\ allocation_count_ \in Int
      <4>1. IsFiniteSet(Calling("count")) /\ IsFiniteSet(Calling("store"))
        BY StackAssumption, FS_Subset DEF Calling
      <4> QED
        BY <1>1, <4>1, FS_CardinalityType DEF StackShape
    <3> QED
      BY <1>1, <1>2, <1>4, <3>1, <3>2 DEF CountCovers
  <2>5. SpaceCovers'
    <3>1. StackUncounted' = StackUncounted /\ StackOffsets' = StackOffsets
      BY <1>2, <2>1 DEF StackUncounted, StackAt, StackOffsets
    <3> QED
      BY <1>1, <1>2, <3>1 DEF SpaceCovers
  <2> QED
    BY <1>5, <2>2, <2>3, <2>4, <2>5 DEF StackInv
<1>7. CASE IsNewest(a)
  <2>1. PICK c : StackGoes(t, c) /\ c.at = "store" /\ c.allocation = a
    BY <1>7 DEF Deallocate
  <2>2. /\ \A u \in StackThreads : stack_call'[u] = IF u = t THEN c ELSE stack_call[u]
        /\ stack_call' = [u \in StackThreads |-> stack_call'[u]]
        /\ Cardinality(Units(StackUncounted')) \in Nat
        /\ Cardinality(Units(StackUncounted')) + StackUncounted[t] = Cardinality(Units(StackUncounted)) + 0
    BY <1>1, <2>1, StackCallMoves
  <2>3. StackShape'
    BY <1>1, <1>2, <2>2 DEF StackShape
  <2>4. CallsFit'
    BY <1>1, <1>2, <1>3, <2>1, <2>2 DEF CallsFit, CallFits
  <2>5. StoresNewest'
    <3>1. a.to = stack_blocks[a.block].offset
      BY <1>7 DEF IsNewest
    <3>2. \A b \in live' : b.block = a.block => b.to <= a.from
      <4>1. SUFFICES ASSUME NEW b \in live', b.block = a.block PROVE b.to <= a.from
        OBVIOUS
      <4>2. b \in live /\ b # a /\ b.to <= stack_blocks[b.block].offset /\ b \in Ordered
        BY <1>1, <1>2, <4>1 DEF LiveApart, AllocationsAreSeparate
      <4>3. b.to <= a.from \/ a.to <= b.from
        BY <1>1, <4>1, <4>2 DEF LiveApart, AllocationsAreSeparate
      <4> QED
        BY <1>3, <3>1, <4>1, <4>2, <4>3 DEF Ordered, Allocations
    <3>3. \A u \in StackThreads \ {t} : stack_call'[u].at \in {"idle", "aborted"}
      BY <1>2, <2>2 DEF StackQuiet
    <3> QED
      BY <1>2, <2>1, <2>2, <3>1, <3>2, <3>3 DEF StoresNewest, StackAt
  <2>6. CountCovers'
    <3>1. /\ Cardinality(Calling("count")') = Cardinality(Calling("count"))
          /\ Cardinality(Calling("store")') = Cardinality(Calling("store")) + 1
          /\ Cardinality(Calling("count")) \in Nat /\ Cardinality(Calling("store")) \in Nat
      BY <1>1, <1>2, <2>1, CallingMoves DEF Here
    <3>2. allocation_count_ \in Int
      BY <1>1 DEF StackShape
    <3> QED
      BY <1>1, <1>2, <1>4, <3>1, <3>2 DEF CountCovers
  <2>7. SpaceCovers'
    <3>1. StackUncounted[t] = 0 /\ Cardinality(Units(StackUncounted)) \in Nat /\ StackOffsets' = StackOffsets
      BY <1>1, <1>2, StackFacts DEF StackUncounted, StackAt, StackOffsets
    <3>2. Cardinality(Units(StackUncounted')) = Cardinality(Units(StackUncounted))
      BY <2>2, <3>1
    <3> QED
      BY <1>1, <1>2, <3>1, <3>2 DEF SpaceCovers
  <2> QED
    BY <1>5, <2>3, <2>4, <2>5, <2>6, <2>7 DEF StackInv
<1> QED
  BY <1>6, <1>7

LEMMA StoreOffsetKeeps ==
  ASSUME StackInv, NEW t \in StackThreads, StoreOffset(t)
  PROVE  StackInv'
<1> DEFINE a == stack_call[t].allocation
           b == a.block
<1>1. /\ StackShape /\ LiveApart /\ MarkerHolds /\ CallsFit /\ StoresNewest /\ CountCovers /\ SpaceCovers
  BY DEF StackInv
<1>2. /\ stack_call[t].at = "store" /\ StackGoes(t, NoCall) /\ NoCall.at = "idle"
      /\ stack_blocks' = [stack_blocks EXCEPT ![b].offset = a.from]
      /\ total_allocated_' = total_allocated_ - (a.to - a.from)
      /\ allocation_count_' = allocation_count_ - 1
      /\ UNCHANGED <<marker, live, rewound>>
  BY DEF StoreOffset, StackAt, NoCall
<1>3. a \in Ordered /\ b \in DOMAIN stack_blocks
  BY <1>1, <1>2 DEF CallsFit, CallFits
<1>4. a.from \in Nat /\ a.to \in Nat /\ a.from < a.to
  BY <1>3 DEF Ordered, Allocations
<1>5. /\ a.to = stack_blocks[b].offset
      /\ \A x \in live : x.block = b => x.to <= a.from
      /\ \A u \in StackThreads \ {t} : stack_call[u].at \in {"idle", "aborted"}
  BY <1>1, <1>2 DEF StoresNewest, StackAt
<1> HIDE DEF a, b
<1>6. /\ \A u \in StackThreads : stack_call'[u] = IF u = t THEN NoCall ELSE stack_call[u]
      /\ stack_call' = [u \in StackThreads |-> stack_call'[u]]
      /\ Cardinality(Units(StackUncounted')) \in Nat
      /\ Cardinality(Units(StackUncounted')) + StackUncounted[t] = Cardinality(Units(StackUncounted)) + 0
  BY <1>1, <1>2, StackCallMoves
<1>7. /\ stack_blocks' \in Seq([capacity : 0 .. MaxTotal, offset : Nat]) /\ stack_blocks' # <<>>
      /\ Len(stack_blocks') = Len(stack_blocks) /\ DOMAIN stack_blocks' = DOMAIN stack_blocks
      /\ \A x \in DOMAIN stack_blocks :
           stack_blocks'[x].offset = IF x = b THEN a.from ELSE stack_blocks[x].offset
      /\ Cardinality(Units(StackOffsets')) \in Nat
      /\ Cardinality(Units(StackOffsets')) + stack_blocks[b].offset = Cardinality(Units(StackOffsets)) + a.from
  <2> DEFINE n == a.from
  <2>1. n \in Nat /\ stack_blocks' = [stack_blocks EXCEPT ![b].offset = n]
    BY <1>2, <1>4
  <2> HIDE DEF n
  <2>2. /\ stack_blocks' \in Seq([capacity : 0 .. MaxTotal, offset : Nat]) /\ stack_blocks' # <<>>
        /\ Len(stack_blocks') = Len(stack_blocks) /\ DOMAIN stack_blocks' = DOMAIN stack_blocks
        /\ \A x \in DOMAIN stack_blocks :
             stack_blocks'[x].offset = IF x = b THEN n ELSE stack_blocks[x].offset
        /\ Cardinality(Units(StackOffsets')) \in Nat
        /\ Cardinality(Units(StackOffsets')) + stack_blocks[b].offset = Cardinality(Units(StackOffsets)) + n
    BY <1>1, <1>3, <2>1, OffsetMoves
  <2> QED
    BY <2>2 DEF n
<1>8. StackShape'
  <2>1. allocation_count_' \in Int
    BY <1>1, <1>2 DEF StackShape
  <2>2. total_allocated_' \in Int
    BY <1>1, <1>2, <1>4 DEF StackShape
  <2> QED
    BY <1>6, <1>7, <2>1, <2>2 DEF StackShape
<1>9. LiveApart'
  <2>1. \A x \in live : x.block \in DOMAIN stack_blocks /\ x.to <= stack_blocks[x.block].offset
    BY <1>1 DEF LiveApart, AllocationsAreSeparate
  <2>2. \A x \in live : x.to <= stack_blocks'[x.block].offset
    BY <1>5, <1>7, <2>1
  <2> QED
    BY <1>1, <1>2, <1>7, <2>2 DEF LiveApart, AllocationsAreSeparate
<1>10. MarkerHolds'
  BY <1>1, <1>2, <1>7 DEF MarkerHolds
<1>11. CallsFit'
  BY <1>1, <1>2, <1>6, <1>7 DEF CallsFit, CallFits
<1>12. StoresNewest'
  BY <1>2, <1>5, <1>6 DEF StoresNewest, StackAt
<1>13. CountCovers'
  <2>1. /\ Cardinality(Calling("count")') = Cardinality(Calling("count"))
        /\ Cardinality(Calling("store")') + 1 = Cardinality(Calling("store"))
        /\ Cardinality(Calling("count")) \in Nat /\ Cardinality(Calling("store")') \in Nat
    BY <1>1, <1>2, CallingMoves DEF Here
  <2>2. allocation_count_ \in Int /\ Cardinality(live) \in Nat
    BY <1>1, FS_CardinalityType DEF StackShape, LiveApart
  <2> QED
    BY <1>1, <1>2, <2>1, <2>2 DEF CountCovers
<1>14. SpaceCovers'
  <2>1. StackUncounted[t] = 0 /\ Cardinality(Units(StackUncounted)) \in Nat /\ Cardinality(Units(StackOffsets)) \in Nat
    BY <1>1, <1>2, StackFacts DEF StackUncounted, StackAt
  <2>2. Cardinality(Units(StackUncounted')) = Cardinality(Units(StackUncounted))
    BY <1>6, <2>1
  <2>3. Cardinality(Units(StackOffsets')) + a.to = Cardinality(Units(StackOffsets)) + a.from
        /\ Cardinality(Units(StackOffsets')) \in Nat
    BY <1>5, <1>7
  <2>4. total_allocated_ \in Int
    BY <1>1 DEF StackShape
  <2> QED
    BY <1>1, <1>2, <1>4, <2>1, <2>2, <2>3, <2>4 DEF SpaceCovers
<1> QED
  BY <1>8, <1>9, <1>10, <1>11, <1>12, <1>13, <1>14 DEF StackInv

LEMMA GetMarkerKeeps ==
  ASSUME StackInv, GetMarker
  PROVE  StackInv'
<1>1. /\ StackShape /\ LiveApart /\ MarkerHolds /\ CallsFit /\ StoresNewest /\ CountCovers /\ SpaceCovers
  BY DEF StackInv
<1>2. /\ marker' = [block |-> HeadBlock, offset |-> stack_blocks[HeadBlock].offset, live |-> live]
      /\ UNCHANGED <<stack_blocks, allocation_count_, total_allocated_, stack_call, live, rewound>>
  BY DEF GetMarker
<1>3. HeadBlock \in Nat \ {0} /\ HeadBlock = Len(stack_blocks) /\ DOMAIN stack_blocks = 1 .. HeadBlock
      /\ stack_blocks[HeadBlock].offset \in Nat
  BY <1>1, StackFacts DEF HeadBlock
<1>4. MarkerHolds'
  <2>1. \A a \in live : a.block \in 1 .. HeadBlock /\ a.to <= stack_blocks[a.block].offset
    BY <1>1, <1>3 DEF LiveApart, AllocationsAreSeparate
  <2> HIDE DEF HeadBlock
  <2>2. marker'.block = HeadBlock /\ marker'.offset = stack_blocks[HeadBlock].offset /\ marker'.live = live
    BY <1>2
  <2> QED
    BY <1>2, <1>3, <2>1, <2>2 DEF MarkerHolds
<1>5. /\ StackShape' /\ LiveApart' /\ CallsFit' /\ StoresNewest'
  BY <1>1, <1>2 DEF StackShape, LiveApart, AllocationsAreSeparate, CallsFit, CallFits, StoresNewest, StackAt
<1>6. Calling("count")' = Calling("count") /\ Calling("store")' = Calling("store")
      /\ StackUncounted' = StackUncounted /\ StackOffsets' = StackOffsets
  BY <1>2 DEF Calling, StackAt, StackUncounted, StackOffsets
<1>7. CountCovers' /\ SpaceCovers'
  BY <1>1, <1>2, <1>6 DEF CountCovers, SpaceCovers
<1> QED
  BY <1>4, <1>5, <1>7 DEF StackInv

LEMMA RewindToMarkerKeeps ==
  ASSUME StackInv, RewindToMarker
  PROVE  StackInv'
<1> DEFINE n == marker.block
           k == marker.offset
           B == [capacity : 0 .. MaxTotal, offset : Nat]
           q == SubSeq(stack_blocks, 1, n)
           e == [q[n] EXCEPT !.offset = k]
<1>1. /\ StackShape /\ LiveApart /\ MarkerHolds /\ CallsFit
  BY DEF StackInv
<1>2. /\ StackQuiet /\ marker # NoMarker
      /\ stack_blocks' = [q EXCEPT ![n] = e]
      /\ allocation_count_' = 0 /\ total_allocated_' = k
      /\ live' = live \cap marker.live /\ rewound' = TRUE
      /\ UNCHANGED <<stack_call, marker>>
  BY DEF RewindToMarker
<1>3. Len(stack_blocks) \in Nat /\ DOMAIN stack_blocks = 1 .. Len(stack_blocks)
  BY <1>1, StackFacts
<1>4. n \in 1 .. Len(stack_blocks) /\ k \in Nat /\ n \in Nat \ {0}
  <2>1. n \in 0 .. Len(stack_blocks) /\ k \in Nat /\ n # 0
    BY <1>1, <1>2 DEF MarkerHolds
  <2> HIDE DEF n
  <2> QED
    BY <1>3, <2>1
<1>5. \A a \in marker.live : a.block <= n /\ (a.block = n => a.to <= k)
  BY <1>1 DEF MarkerHolds
<1> HIDE DEF n, k
<1>6. stack_blocks \in Seq(B)
  BY <1>1 DEF StackShape
<1>7. q \in Seq(B) /\ Len(q) = n /\ DOMAIN q = 1 .. n /\ \A b \in 1 .. n : q[b] = stack_blocks[b]
  <2> HIDE DEF B
  <2>1. \A m \in Nat, s \in Seq(B) : m <= Len(s) =>
          /\ SubSeq(s, 1, m) \in Seq(B) /\ Len(SubSeq(s, 1, m)) = m
          /\ \A b \in 1 .. m : SubSeq(s, 1, m)[b] = s[b]
    OBVIOUS
  <2> QED
    BY <1>3, <1>4, <1>6, <2>1
<1>8. e \in B /\ e.offset = k
  <2>1. q[n] \in B
    BY <1>4, <1>6, <1>7, ElementOfSeq
  <2> HIDE DEF q
  <2> QED
    BY <1>4, <2>1
<1> HIDE DEF q, e, B
<1>9. /\ stack_blocks' \in Seq(B) /\ Len(stack_blocks') = n /\ DOMAIN stack_blocks' = 1 .. n
      /\ \A b \in 1 .. n : stack_blocks'[b].offset = IF b = n THEN k ELSE stack_blocks[b].offset
  <2>1. /\ stack_blocks' \in Seq(B) /\ Len(stack_blocks') = n /\ DOMAIN stack_blocks' = 1 .. n
        /\ \A b \in 1 .. n : stack_blocks'[b] = IF b = n THEN e ELSE q[b]
    BY <1>2, <1>4, <1>7, <1>8
  <2> QED
    BY <1>7, <1>8, <2>1
<1>10. StackShape'
  <2>1. stack_blocks' # <<>>
    BY <1>4, <1>9
  <2>2. total_allocated_' \in Int /\ allocation_count_' \in Int
    BY <1>2, <1>4
  <2> QED
    BY <1>1, <1>2, <1>9, <2>1, <2>2 DEF StackShape, B
<1>11. LiveApart'
  <2>1. IsFiniteSet(live') /\ live' \subseteq live
    BY <1>1, <1>2, FS_Subset DEF LiveApart
  <2>2. live \subseteq Ordered
    BY <1>1 DEF LiveApart
  <2>3. ASSUME NEW a \in live'
        PROVE  a.block \in 1 .. n /\ a.to <= stack_blocks'[a.block].offset
    <3>1. a \in live /\ a.block \in 1 .. Len(stack_blocks) /\ a.to <= stack_blocks[a.block].offset
      BY <1>1, <1>3, <2>1 DEF LiveApart, AllocationsAreSeparate
    <3>2. a.block <= n /\ (a.block = n => a.to <= k)
      BY <1>2, <1>5
    <3> QED
      BY <1>3, <1>4, <1>9, <3>1, <3>2
  <2>4. \A x, y \in live' : x = y \/ x.block # y.block \/ x.to <= y.from \/ y.to <= x.from
    BY <1>1, <2>1 DEF LiveApart, AllocationsAreSeparate
  <2> QED
    BY <1>9, <2>1, <2>2, <2>3, <2>4 DEF LiveApart, AllocationsAreSeparate
<1>12. MarkerHolds'
  <2>1. n \in 0 .. Len(stack_blocks')
    BY <1>4, <1>9
  <2>2. /\ marker' = marker /\ marker.offset \in Nat
        /\ marker.block = 0 => marker = NoMarker
        /\ \A a \in marker.live : a.block <= marker.block /\ (a.block = marker.block => a.to <= marker.offset)
    BY <1>1, <1>2 DEF MarkerHolds
  <2> QED
    BY <2>1, <2>2 DEF MarkerHolds, n
<1>13. CallsFit'
  BY <1>2 DEF StackQuiet, CallsFit, CallFits
<1>14. StoresNewest'
  BY <1>2 DEF StackQuiet, StoresNewest, StackAt
<1>15. CountCovers' /\ SpaceCovers'
  BY <1>2 DEF CountCovers, SpaceCovers
<1> QED
  BY <1>10, <1>11, <1>12, <1>13, <1>14, <1>15 DEF StackInv

\* A stack of one block that has given nothing out.
LEMMA FreshBlock ==
  ASSUME NEW f, f = <<[capacity |-> FirstStackCapacity, offset |-> 0]>>
  PROVE  /\ f \in Seq([capacity : 0 .. MaxTotal, offset : Nat]) /\ f # <<>> /\ Len(f) = 1
         /\ Cardinality(Units([b \in DOMAIN f |-> f[b].offset])) = 0
<1>1. f \in Seq([capacity : 0 .. MaxTotal, offset : Nat]) /\ f # <<>> /\ Len(f) = 1 /\ DOMAIN f = 1 .. 1 /\ f[1].offset = 0
  BY StackAssumption
<1> DEFINE S == 1 .. 1
           g == [b \in S |-> f[b].offset]
<1>2. g \in [S -> Nat] /\ \A b \in S : g[b] = 0
  BY <1>1
<1>3. [b \in DOMAIN f |-> f[b].offset] = g
  BY <1>1
<1> HIDE DEF g, S
<1> QED
  BY <1>1, <1>2, <1>3, NoUnits

\* With no call under way nothing is uncounted.
LEMMA NothingUncounted ==
  ASSUME NEW calls, \A t \in StackThreads : calls[t].at \in {"idle", "aborted"}
  PROVE  /\ Cardinality(Units([t \in StackThreads |-> IF calls[t].at = "count" THEN calls[t].consumed ELSE 0])) = 0
         /\ {t \in StackThreads : calls[t].at = "count"} = {} /\ {t \in StackThreads : calls[t].at = "store"} = {}
<1> DEFINE f == [t \in StackThreads |-> IF calls[t].at = "count" THEN calls[t].consumed ELSE 0]
<1>1. f \in [StackThreads -> Nat] /\ \A t \in StackThreads : f[t] = 0
  OBVIOUS
<1>2. {t \in StackThreads : calls[t].at = "count"} = {} /\ {t \in StackThreads : calls[t].at = "store"} = {}
  OBVIOUS
<1> HIDE DEF f
<1>3. Cardinality(Units(f)) = 0
  BY <1>1, NoUnits
<1> QED
  BY <1>2, <1>3 DEF f

LEMMA StackInitHolds == StackInit => StackInv
<1> SUFFICES ASSUME StackInit PROVE StackInv
  OBVIOUS
<1>1. /\ stack_blocks = <<[capacity |-> FirstStackCapacity, offset |-> 0]>>
      /\ allocation_count_ = 0 /\ total_allocated_ = 0
      /\ stack_call = [t \in StackThreads |-> NoCall]
      /\ marker = NoMarker /\ live = {} /\ rewound = FALSE
  BY DEF StackInit
<1>2. /\ stack_blocks \in Seq([capacity : 0 .. MaxTotal, offset : Nat]) /\ stack_blocks # <<>> /\ Len(stack_blocks) = 1
      /\ Cardinality(Units(StackOffsets)) = 0
  BY <1>1, FreshBlock DEF StackOffsets
<1>3. \A t \in StackThreads : stack_call[t].at = "idle"
  BY <1>1 DEF NoCall
<1>4. Cardinality(Units(StackUncounted)) = 0 /\ Calling("count") = {} /\ Calling("store") = {}
  BY <1>3, NothingUncounted DEF StackUncounted, Calling, StackAt
<1>5. StackShape
  <2>1. stack_call = [t \in StackThreads |-> stack_call[t]]
    BY <1>1
  <2>2. allocation_count_ \in Int /\ total_allocated_ \in Int
    BY <1>1
  <2> QED
    BY <1>2, <2>1, <2>2 DEF StackShape
<1>6. LiveApart /\ Cardinality(live) = 0
  BY <1>1, FS_EmptySet DEF LiveApart, AllocationsAreSeparate
<1>7. MarkerHolds
  BY <1>1, <1>2 DEF MarkerHolds, NoMarker
<1>8. CallsFit
  BY <1>3 DEF CallsFit, CallFits
<1>9. StoresNewest
  BY <1>3 DEF StoresNewest, StackAt
<1>10. CountCovers /\ SpaceCovers
  <2>1. Cardinality(Calling("count")) = 0 /\ Cardinality(Calling("store")) = 0
    BY <1>4, FS_EmptySet
  <2>2. allocation_count_ = 0 /\ total_allocated_ = 0
    BY <1>1
  <2>3. CountCovers
    BY <1>6, <2>1, <2>2 DEF CountCovers
  <2>4. SpaceCovers
    BY <1>2, <1>4, <2>2 DEF SpaceCovers
  <2> QED
    BY <2>3, <2>4
<1> QED
  BY <1>5, <1>6, <1>7, <1>8, <1>9, <1>10 DEF StackInv

LEMMA ResetStackKeeps ==
  ASSUME StackInv, ResetStack
  PROVE  StackInv'
<1>1. /\ StackQuiet /\ stack_blocks' = <<[capacity |-> FirstStackCapacity, offset |-> 0]>>
      /\ allocation_count_' = 0 /\ total_allocated_' = 0
      /\ stack_call' = stack_call /\ marker' = NoMarker /\ live' = {} /\ rewound' = FALSE
  BY DEF ResetStack
<1>2. /\ stack_blocks' \in Seq([capacity : 0 .. MaxTotal, offset : Nat]) /\ stack_blocks' # <<>> /\ Len(stack_blocks') = 1
      /\ Cardinality(Units(StackOffsets')) = 0
  BY <1>1, FreshBlock DEF StackOffsets
<1>3. \A t \in StackThreads : stack_call'[t].at \in {"idle", "aborted"}
  BY <1>1 DEF StackQuiet
<1>4. Cardinality(Units(StackUncounted')) = 0 /\ Calling("count")' = {} /\ Calling("store")' = {}
  BY <1>3, NothingUncounted DEF StackUncounted, Calling, StackAt
<1>5. StackShape'
  <2>1. stack_call' = [t \in StackThreads |-> stack_call'[t]]
    BY <1>1 DEF StackInv, StackShape
  <2>2. allocation_count_' \in Int /\ total_allocated_' \in Int
    BY <1>1
  <2> QED
    BY <1>2, <2>1, <2>2 DEF StackShape
<1>6. LiveApart' /\ Cardinality(live') = 0
  BY <1>1, FS_EmptySet DEF LiveApart, AllocationsAreSeparate
<1>7. MarkerHolds'
  BY <1>1, <1>2 DEF MarkerHolds, NoMarker
<1>8. CallsFit'
  BY <1>3 DEF CallsFit, CallFits
<1>9. StoresNewest'
  BY <1>3 DEF StoresNewest, StackAt
<1>10. CountCovers' /\ SpaceCovers'
  <2>1. Cardinality(Calling("count")') = 0 /\ Cardinality(Calling("store")') = 0
    BY <1>4, FS_EmptySet
  <2>2. allocation_count_' = 0 /\ total_allocated_' = 0
    BY <1>1
  <2>3. CountCovers'
    BY <1>6, <2>1, <2>2 DEF CountCovers
  <2>4. SpaceCovers'
    BY <1>2, <1>4, <2>2 DEF SpaceCovers
  <2> QED
    BY <2>3, <2>4
<1> QED
  BY <1>5, <1>6, <1>7, <1>8, <1>9, <1>10 DEF StackInv

LEMMA StackNextKeeps ==
  ASSUME ~Unsynchronized
  PROVE  StackInv /\ [StackNext]_stack_vars => StackInv'
<1> SUFFICES ASSUME StackInv, [StackNext]_stack_vars PROVE StackInv'
  OBVIOUS
<1>1. ASSUME NEW t \in StackThreads, NEW r \in StackRequests, StackAllocate(t, r) PROVE StackInv'
  BY <1>1, StackAllocateKeeps
<1>2. ASSUME NEW t \in StackThreads, TryReserve(t) PROVE StackInv'
  BY <1>2, TryReserveKeeps
<1>3. ASSUME NEW t \in StackThreads, CountStackAllocation(t) PROVE StackInv'
  BY <1>3, CountStackAllocationKeeps
<1>4. ASSUME NEW t \in StackThreads, EnsureStackCapacity(t) \/ ClaimStackGrowth(t) PROVE StackInv'
  BY <1>4, EnsureStackCapacityKeeps, ClaimStackGrowthKeeps
<1>5. ASSUME NEW t \in StackThreads, AppendBlock(t) PROVE StackInv'
  BY <1>5, AppendBlockKeeps
<1>6. ASSUME NEW t \in StackThreads, CreateBlockFails(t) PROVE StackInv'
  BY <1>6, CreateBlockFailsKeeps
<1>7. ASSUME NEW t \in StackThreads, StackWaited(t) PROVE StackInv'
  BY <1>7, StackWaitedKeeps
<1>8. ASSUME NEW t \in StackThreads, NEW a \in live, Deallocate(t, a) PROVE StackInv'
  BY <1>8, DeallocateKeeps
<1>9. ASSUME NEW t \in StackThreads, StoreOffset(t) PROVE StackInv'
  BY <1>9, StoreOffsetKeeps
<1>10. CASE GetMarker \/ RewindToMarker \/ ResetStack
  BY <1>10, GetMarkerKeeps, RewindToMarkerKeeps, ResetStackKeeps
<1>11. CASE UNCHANGED stack_vars
  BY <1>11 DEF stack_vars, StackInv, StackShape, LiveApart, AllocationsAreSeparate, MarkerHolds, CallsFit, CallFits,
     StoresNewest, CountCovers, SpaceCovers, Calling, StackUncounted, StackOffsets, StackAt
<1> QED
  BY <1>1, <1>2, <1>3, <1>4, <1>5, <1>6, <1>7, <1>8, <1>9, <1>10, <1>11 DEF StackNext

LEMMA StackInvTells ==
  ASSUME StackInv
  PROVE  StackAllocations
<1>1. /\ StackShape /\ LiveApart /\ CallsFit /\ CountCovers /\ SpaceCovers
  BY DEF StackInv
<1>2. AllocationsAreSeparate
  BY <1>1 DEF LiveApart
<1>3. StackQuiet => /\ Cardinality(Units(StackUncounted)) = 0
                    /\ Cardinality(Calling("count")) = 0 /\ Cardinality(Calling("store")) = 0
  <2>1. StackQuiet => Cardinality(Units(StackUncounted)) = 0 /\ Calling("count") = {} /\ Calling("store") = {}
    BY NothingUncounted DEF StackQuiet, StackUncounted, Calling, StackAt
  <2> QED
    BY <2>1, FS_EmptySet
<1>4. EmptyTells
  <2>1. IsFiniteSet(live) /\ Cardinality(live) \in Nat /\ (Cardinality(live) = 0 => live = {})
    BY <1>1, FS_CardinalityType, FS_EmptySet DEF LiveApart
  <2> QED
    BY <1>1, <1>3, <2>1 DEF EmptyTells, CountCovers
<1>5. SpaceIsCounted
  BY <1>1, <1>3 DEF SpaceIsCounted, SpaceCovers, StackShape, StackOffsets
<1> QED
  BY <1>2, <1>4, <1>5 DEF StackAllocations

\* Whatever the threads that allocate from a stack do in between, and however
\* the caller goes back to its marker, allocations stay apart, an empty stack
\* has none and the space given out is counted: provided that deallocate runs
\* beside no other call, as the class asks for.
THEOREM StackSafety ==
  ASSUME ~Unsynchronized
  PROVE  StackSpec => []StackAllocations
<1>1. StackInit => StackInv
  BY StackInitHolds
<1>2. StackInv /\ [StackNext]_stack_vars => StackInv'
  BY StackNextKeeps
<1>3. StackInv => StackAllocations
  BY StackInvTells
<1> QED
  BY <1>1, <1>2, <1>3, PTL DEF StackSpec

-------------------------------------------------------------------------------
(***************************************************************************)
(* The free list.                                                          *)
(***************************************************************************)
BlockSet == [at : Nat, size : Nat \ {0}]
AllocationSet == [at : Nat, size : Nat \ {0}, padding : Nat, alignment : Nat \ {0}]

Beside(a, b) == BlockEnd(a) <= b.at \/ BlockEnd(b) <= a.at
Within(b, S) == \E r \in S : r.at <= b.at /\ BlockEnd(b) <= BlockEnd(r)

\* Two free blocks have something between them, as two regions have a header.
Separate(S, gap) == \A a, b \in S : a = b \/ BlockEnd(a) + gap <= b.at \/ BlockEnd(b) + gap <= a.at

\* What the callers have, and what is left of the regions S.
Books ==
  /\ allocated \in SUBSET AllocationSet /\ IsFiniteSet(allocated)
  /\ \A a, b \in allocated : a = b \/ Beside(a, b)
  /\ \A a \in allocated : (a.at + a.padding) % a.alignment = 0 /\ a.padding >= AllocationHeader
  /\ used_memory_ = SizeOf(allocated)

Remaining(free, S) ==
  /\ S \in SUBSET BlockSet /\ IsFiniteSet(S) /\ Separate(S, RegionHeader) /\ SizeOf(S) <= MaxCapacity
  /\ free \in SUBSET BlockSet /\ IsFiniteSet(free) /\ Separate(free, 1)
  /\ \A a \in allocated : \A f \in free : Beside(a, f)
  /\ \A b \in allocated \cup free : Within(b, S)
  /\ SizeOf(free) + used_memory_ <= SizeOf(S)

FreeListInv == Books /\ Remaining(free_list_, regions_)

LEMMA BlockFacts ==
  ASSUME NEW b \in BlockSet \cup AllocationSet
  PROVE  b.at \in Nat /\ b.size \in Nat /\ b.size > 0 /\ BlockEnd(b) \in Nat /\ BlockEnd(b) = b.at + b.size /\ b.at < BlockEnd(b)
<1>1. b.at \in Nat /\ b.size \in Nat /\ b.size > 0
  BY DEF BlockSet, AllocationSet
<1> QED
  BY <1>1 DEF BlockEnd

LEMMA ExtentFacts ==
  ASSUME NEW at \in Nat, NEW size \in Nat, size > 0
  PROVE  /\ Extent(at, size) \in BlockSet /\ Extent(at, size).at = at /\ Extent(at, size).size = size
         /\ BlockEnd(Extent(at, size)) = at + size
BY DEF Extent, BlockSet, BlockEnd

LEMMA SizeIs ==
  ASSUME NEW S, IsFiniteSet(S), \A x \in S : x.size \in Nat
  PROVE  SizeOf(S) \in Nat
<1> DEFINE f == [x \in S |-> x.size]
<1>1. f \in [S -> Nat]
  OBVIOUS
<1>2. SizeOf(S) = Cardinality(Units(f))
  BY DEF SizeOf
<1> HIDE DEF f
<1> QED
  BY <1>1, <1>2, UnitsFinite

LEMMA SizeAdd ==
  ASSUME NEW S, IsFiniteSet(S), \A x \in S : x.size \in Nat, NEW b, b \notin S, b.size \in Nat
  PROVE  SizeOf(S \cup {b}) = SizeOf(S) + b.size /\ IsFiniteSet(S \cup {b})
<1> DEFINE f == [x \in S |-> x.size]
           g == [x \in S \cup {b} |-> x.size]
<1>1. f \in [S -> Nat] /\ g \in [S \cup {b} -> Nat] /\ g[b] = b.size /\ \A x \in S : g[x] = f[x]
  OBVIOUS
<1>2. SizeOf(S) = Cardinality(Units(f)) /\ SizeOf(S \cup {b}) = Cardinality(Units(g))
  BY DEF SizeOf
<1> HIDE DEF f, g
<1>3. Cardinality(Units(g)) = Cardinality(Units(f)) + g[b]
  <2>1. f \in [S -> Nat] /\ g \in [S \cup {b} -> Nat] /\ IsFiniteSet(S) /\ b \notin S /\ \A y \in S : g[y] = f[y]
    BY <1>1
  <2>2. \A x, h : h \in [S \cup {x} -> Nat] /\ x \notin S /\ (\A y \in S : h[y] = f[y]) =>
          Cardinality(Units(h)) = Cardinality(Units(f)) + h[x]
    BY <2>1, UnitsAdd
  <2> QED
    BY <2>1, <2>2
<1> QED
  BY <1>1, <1>2, <1>3, FS_AddElement

LEMMA SizeRemove ==
  ASSUME NEW S, IsFiniteSet(S), \A x \in S : x.size \in Nat, NEW b \in S
  PROVE  SizeOf(S) = SizeOf(S \ {b}) + b.size /\ IsFiniteSet(S \ {b}) /\ SizeOf(S \ {b}) \in Nat
<1>1. IsFiniteSet(S \ {b}) /\ b \notin S \ {b} /\ (S \ {b}) \cup {b} = S
  BY FS_RemoveElement
<1>2. SizeOf((S \ {b}) \cup {b}) = SizeOf(S \ {b}) + b.size
  BY <1>1, SizeAdd
<1> QED
  BY <1>1, <1>2, SizeIs

LEMMA SizeOfNone == SizeOf({}) = 0
<1>1. [b \in {} |-> b.size] \in [{} -> Nat]
  OBVIOUS
<1> QED
  BY <1>1, NoUnits DEF SizeOf

LEMMA MinOf ==
  ASSUME NEW x \in Nat, NEW y \in Nat, y <= x
  PROVE  Min({x}) = x /\ Min({x} \cup {y}) = y
BY DEF Min

LEMMA MaxOf ==
  ASSUME NEW x \in Nat, NEW y \in Nat, x <= y
  PROVE  Max({x}) = x /\ Max({x} \cup {y}) = y
BY DEF Max

\* The block that comes of one that is inserted: it may reach over the free
\* one before and the free one after.
LEMMA Coalesced ==
  ASSUME NEW free \in SUBSET BlockSet, Separate(free, 1), NEW b \in BlockSet, \A f \in free : Beside(b, f)
  PROVE  \E m \in BlockSet : \E next, prev \in SUBSET free :
           /\ InsertAndCoalesceLocked(free, b) = (free \ (next \cup prev)) \cup {m}
           /\ next = {f \in free : f.at = BlockEnd(b)} /\ prev = {f \in free : BlockEnd(f) = b.at}
           /\ \/ prev = {} /\ m.at = b.at
              \/ \E p \in free : prev = {p} /\ m.at = p.at /\ BlockEnd(p) = b.at
           /\ \/ next = {} /\ BlockEnd(m) = BlockEnd(b)
              \/ \E n \in free : next = {n} /\ BlockEnd(m) = BlockEnd(n) /\ n.at = BlockEnd(b)
<1> DEFINE next == {f \in free : f.at = BlockEnd(b)}
           prev == {f \in free : BlockEnd(f) = b.at}
           from == Min({b.at} \cup {f.at : f \in prev})
           to == Max({BlockEnd(b)} \cup {BlockEnd(f) : f \in next})
<1>1. \A f \in free \cup {b} : f.at \in Nat /\ BlockEnd(f) \in Nat /\ f.at < BlockEnd(f)
  BY BlockFacts
<1>2. \/ prev = {} /\ from = b.at
      \/ \E p \in free : prev = {p} /\ from = p.at /\ BlockEnd(p) = b.at
  <2>1. CASE prev = {}
    <3>1. {b.at} \cup {f.at : f \in prev} = {b.at}
      BY <2>1
    <3> QED
      BY <1>1, <2>1, <3>1, MinOf
  <2>2. CASE prev # {}
    <3>1. PICK p : p \in prev
      BY <2>2
    <3>2. prev = {p}
      BY <1>1, <3>1 DEF Separate
    <3>3. p \in free /\ BlockEnd(p) = b.at /\ {b.at} \cup {f.at : f \in prev} = {b.at} \cup {p.at}
      BY <3>1, <3>2
    <3>4. p.at \in Nat /\ b.at \in Nat /\ p.at <= b.at
      BY <1>1, <3>3
    <3>5. from = p.at
      BY <3>3, <3>4, MinOf
    <3> QED
      BY <3>2, <3>3, <3>5
  <2> QED
    BY <2>1, <2>2
<1>3. \/ next = {} /\ to = BlockEnd(b)
      \/ \E n \in free : next = {n} /\ to = BlockEnd(n) /\ n.at = BlockEnd(b)
  <2>1. CASE next = {}
    <3>1. {BlockEnd(b)} \cup {BlockEnd(f) : f \in next} = {BlockEnd(b)}
      BY <2>1
    <3>2. BlockEnd(b) \in Nat /\ BlockEnd(b) <= BlockEnd(b)
      BY <1>1
    <3>3. to = BlockEnd(b)
      BY <3>1, <3>2, MaxOf
    <3> QED
      BY <2>1, <3>3
  <2>2. CASE next # {}
    <3>1. PICK n : n \in next
      BY <2>2
    <3>2. next = {n}
      BY <1>1, <3>1 DEF Separate
    <3>3. n \in free /\ n.at = BlockEnd(b) /\ {BlockEnd(b)} \cup {BlockEnd(f) : f \in next} = {BlockEnd(b)} \cup {BlockEnd(n)}
      BY <3>1, <3>2
    <3>4. BlockEnd(n) \in Nat /\ BlockEnd(b) \in Nat /\ BlockEnd(b) <= BlockEnd(n)
      BY <1>1, <3>3
    <3>5. to = BlockEnd(n)
      BY <3>3, <3>4, MaxOf
    <3> QED
      BY <3>2, <3>3, <3>5
  <2> QED
    BY <2>1, <2>2
<1>4. InsertAndCoalesceLocked(free, b) = (free \ (next \cup prev)) \cup {Extent(from, to - from)}
  BY DEF InsertAndCoalesceLocked
<1>5. next \in SUBSET free /\ prev \in SUBSET free
  OBVIOUS
<1>6. next = {f \in free : f.at = BlockEnd(b)} /\ prev = {f \in free : BlockEnd(f) = b.at}
  OBVIOUS
<1> HIDE DEF from, to, next, prev
<1>7. from \in Nat /\ to \in Nat /\ from < to
  BY <1>1, <1>2, <1>3
<1> DEFINE m == Extent(from, to - from)
<1>8. m \in BlockSet /\ m.at = from /\ BlockEnd(m) = to
  <2>1. to - from \in Nat /\ to - from > 0 /\ from + (to - from) = to
    BY <1>7
  <2> QED
    BY <1>7, <2>1, ExtentFacts
<1> HIDE DEF m
<1>9. InsertAndCoalesceLocked(free, b) = (free \ (next \cup prev)) \cup {m}
  BY <1>4 DEF m
<1> QED
  BY <1>2, <1>3, <1>5, <1>6, <1>8, <1>9

LEMMA InsertKeeps ==
  ASSUME NEW free \in SUBSET BlockSet, IsFiniteSet(free), Separate(free, 1), NEW b \in BlockSet, \A f \in free : Beside(b, f),
         NEW S \in SUBSET BlockSet, Separate(S, RegionHeader), \A f \in free \cup {b} : Within(f, S)
  PROVE  LET new == InsertAndCoalesceLocked(free, b) IN
         /\ new \in SUBSET BlockSet /\ IsFiniteSet(new) /\ Separate(new, 1)
         /\ \A f \in new : Within(f, S)
         /\ \A c \in BlockSet \cup AllocationSet : Beside(c, b) /\ (\A f \in free : Beside(c, f)) => \A f \in new : Beside(c, f)
         /\ SizeOf(new) = SizeOf(free) + b.size
<1>1. PICK m \in BlockSet, next \in SUBSET free, prev \in SUBSET free :
        /\ InsertAndCoalesceLocked(free, b) = (free \ (next \cup prev)) \cup {m}
        /\ next = {f \in free : f.at = BlockEnd(b)} /\ prev = {f \in free : BlockEnd(f) = b.at}
        /\ \/ prev = {} /\ m.at = b.at
           \/ \E p \in free : prev = {p} /\ m.at = p.at /\ BlockEnd(p) = b.at
        /\ \/ next = {} /\ BlockEnd(m) = BlockEnd(b)
           \/ \E n \in free : next = {n} /\ BlockEnd(m) = BlockEnd(n) /\ n.at = BlockEnd(b)
  BY Coalesced
<1> DEFINE rest == free \ (next \cup prev)
           new == rest \cup {m}
<1>2. \A f \in free \cup {b, m} : f.at \in Nat /\ f.size \in Nat /\ BlockEnd(f) \in Nat /\ BlockEnd(f) = f.at + f.size /\ f.at < BlockEnd(f)
  BY BlockFacts
<1>3. new \in SUBSET BlockSet /\ IsFiniteSet(rest) /\ IsFiniteSet(new)
  BY FS_Subset, FS_AddElement
<1>4. \A f \in rest : BlockEnd(f) < m.at \/ BlockEnd(m) < f.at
  <2> SUFFICES ASSUME NEW f \in rest PROVE BlockEnd(f) < m.at \/ BlockEnd(m) < f.at
    OBVIOUS
  <2>1. BlockEnd(f) < b.at \/ BlockEnd(b) < f.at
    BY <1>1, <1>2 DEF Beside
  <2>2. CASE BlockEnd(f) < b.at
    <3>1. CASE prev = {} /\ m.at = b.at
      BY <2>2, <3>1
    <3>2. CASE \E p \in free : prev = {p} /\ m.at = p.at /\ BlockEnd(p) = b.at
      <4>1. PICK p \in free : prev = {p} /\ m.at = p.at /\ BlockEnd(p) = b.at
        BY <3>2
      <4>2. f # p /\ (BlockEnd(f) + 1 <= p.at \/ BlockEnd(p) + 1 <= f.at)
        BY <4>1 DEF Separate
      <4> QED
        BY <1>2, <2>2, <4>1, <4>2
    <3> QED
      BY <1>1, <3>1, <3>2
  <2>3. CASE BlockEnd(b) < f.at
    <3>1. CASE next = {} /\ BlockEnd(m) = BlockEnd(b)
      BY <2>3, <3>1
    <3>2. CASE \E n \in free : next = {n} /\ BlockEnd(m) = BlockEnd(n) /\ n.at = BlockEnd(b)
      <4>1. PICK n \in free : next = {n} /\ BlockEnd(m) = BlockEnd(n) /\ n.at = BlockEnd(b)
        BY <3>2
      <4>2. f # n /\ (BlockEnd(f) + 1 <= n.at \/ BlockEnd(n) + 1 <= f.at)
        BY <4>1 DEF Separate
      <4> QED
        BY <1>2, <2>3, <4>1, <4>2
    <3> QED
      BY <1>1, <3>1, <3>2
  <2> QED
    BY <2>1, <2>2, <2>3
<1>5. Separate(new, 1)
  <2> SUFFICES ASSUME NEW x \in new, NEW y \in new, x # y PROVE BlockEnd(x) + 1 <= y.at \/ BlockEnd(y) + 1 <= x.at
    BY DEF Separate
  <2>1. CASE x \in rest /\ y \in rest
    BY <2>1 DEF Separate
  <2>2. CASE x = m /\ y \in rest
    BY <1>2, <1>4, <2>2
  <2>3. CASE x \in rest /\ y = m
    BY <1>2, <1>4, <2>3
  <2> QED
    BY <2>1, <2>2, <2>3
<1>6. \A f \in new : Within(f, S)
  <2>1. PICK r \in S : r.at <= b.at /\ BlockEnd(b) <= BlockEnd(r)
    BY DEF Within
  <2>2. \A s \in S : s.at \in Nat /\ BlockEnd(s) \in Nat /\ s.at < BlockEnd(s)
    BY BlockFacts
  <2>3. \A f \in free : BlockEnd(f) = b.at \/ f.at = BlockEnd(b) => r.at <= f.at /\ BlockEnd(f) <= BlockEnd(r)
    <3> SUFFICES ASSUME NEW f \in free, BlockEnd(f) = b.at \/ f.at = BlockEnd(b) PROVE r.at <= f.at /\ BlockEnd(f) <= BlockEnd(r)
      OBVIOUS
    <3>1. PICK s \in S : s.at <= f.at /\ BlockEnd(f) <= BlockEnd(s)
      BY DEF Within
    <3>2. s = r \/ BlockEnd(s) + 16 <= r.at \/ BlockEnd(r) + 16 <= s.at
      BY <2>1, <3>1 DEF Separate, RegionHeader
    <3> QED
      BY <1>2, <2>1, <2>2, <3>1, <3>2
  <2>4. r.at <= m.at /\ BlockEnd(m) <= BlockEnd(r)
    BY <1>1, <2>1, <2>3
  <2> QED
    BY <2>1, <2>4 DEF Within
<1>7. ASSUME NEW c \in BlockSet \cup AllocationSet, Beside(c, b), \A f \in free : Beside(c, f)
      PROVE  \A f \in new : Beside(c, f)
  <2>1. c.at \in Nat /\ BlockEnd(c) \in Nat /\ c.at < BlockEnd(c)
    BY BlockFacts
  <2>2. BlockEnd(c) <= b.at \/ BlockEnd(b) <= c.at
    BY <1>7 DEF Beside
  <2>3. CASE BlockEnd(c) <= b.at
    <3>1. BlockEnd(c) <= m.at
      <4>1. CASE \E p \in free : prev = {p} /\ m.at = p.at /\ BlockEnd(p) = b.at
        <5>1. PICK p \in free : m.at = p.at /\ BlockEnd(p) = b.at
          BY <4>1
        <5>2. BlockEnd(c) <= p.at \/ BlockEnd(p) <= c.at
          BY <1>7 DEF Beside
        <5> QED
          BY <1>2, <2>1, <2>3, <5>1, <5>2
      <4> QED
        BY <1>1, <2>3, <4>1
    <3> QED
      BY <1>7, <3>1 DEF Beside
  <2>4. CASE BlockEnd(b) <= c.at
    <3>1. BlockEnd(m) <= c.at
      <4>1. CASE \E n \in free : next = {n} /\ BlockEnd(m) = BlockEnd(n) /\ n.at = BlockEnd(b)
        <5>1. PICK n \in free : BlockEnd(m) = BlockEnd(n) /\ n.at = BlockEnd(b)
          BY <4>1
        <5>2. BlockEnd(c) <= n.at \/ BlockEnd(n) <= c.at
          BY <1>7 DEF Beside
        <5> QED
          BY <1>2, <2>1, <2>4, <5>1, <5>2
      <4> QED
        BY <1>1, <2>4, <4>1
    <3> QED
      BY <1>7, <3>1 DEF Beside
  <2> QED
    BY <2>2, <2>3, <2>4
<1>8. SizeOf(new) = SizeOf(free) + b.size
  <2>1. m \notin rest
    BY <1>2, <1>4
  <2>2. SizeOf(new) = SizeOf(rest) + m.size
    BY <1>2, <1>3, <2>1, SizeAdd
  <2>3. \A x \in free : x.size \in Nat
    BY <1>2
  <2>4. SizeOf(rest) \in Nat
    BY <1>2, <1>3, SizeIs
  <2> DEFINE half == free \ prev
  <2>5. /\ IsFiniteSet(half)
        /\ \/ m.at = b.at /\ SizeOf(free) = SizeOf(half)
           \/ \E p \in free : m.at + p.size = b.at /\ SizeOf(free) = SizeOf(half) + p.size
    <3>1. CASE prev = {} /\ m.at = b.at
      <4>1. half = free
        BY <3>1
      <4> QED
        BY <3>1, <4>1
    <3>2. CASE \E p \in free : prev = {p} /\ m.at = p.at /\ BlockEnd(p) = b.at
      <4>1. PICK p \in free : prev = {p} /\ m.at = p.at /\ BlockEnd(p) = b.at
        BY <3>2
      <4>2. half = free \ {p} /\ m.at + p.size = b.at
        BY <1>2, <4>1
      <4>3. SizeOf(free) = SizeOf(free \ {p}) + p.size /\ IsFiniteSet(free \ {p})
        BY <2>3, SizeRemove
      <4> QED
        BY <4>2, <4>3
    <3> QED
      BY <1>1, <3>1, <3>2
  <2>6. \/ BlockEnd(m) = BlockEnd(b) /\ SizeOf(half) = SizeOf(rest)
        \/ \E n \in free : BlockEnd(m) = BlockEnd(b) + n.size /\ SizeOf(half) = SizeOf(rest) + n.size
    <3>1. CASE next = {} /\ BlockEnd(m) = BlockEnd(b)
      <4>1. rest = half
        BY <3>1
      <4> QED
        BY <3>1, <4>1
    <3>2. CASE \E n \in free : next = {n} /\ BlockEnd(m) = BlockEnd(n) /\ n.at = BlockEnd(b)
      <4>1. PICK n \in free : next = {n} /\ BlockEnd(m) = BlockEnd(n) /\ n.at = BlockEnd(b)
        BY <3>2
      <4>2. n \notin prev
        BY <1>1, <1>2, <4>1
      <4>3. rest = half \ {n} /\ n \in half /\ BlockEnd(m) = BlockEnd(b) + n.size
        BY <1>2, <4>1, <4>2
      <4>4. SizeOf(half) = SizeOf(half \ {n}) + n.size
        BY <2>3, <2>5, <4>3, SizeRemove
      <4> QED
        BY <4>3, <4>4
    <3> QED
      BY <1>1, <3>1, <3>2
  <2> HIDE DEF half, rest, new
  <2>7. m.at \in Nat /\ m.size \in Nat /\ b.at \in Nat /\ b.size \in Nat /\ BlockEnd(m) = m.at + m.size /\ BlockEnd(b) = b.at + b.size
    BY <1>2
  <2> QED
    BY <2>2, <2>3, <2>4, <2>5, <2>6, <2>7
<1> HIDE DEF rest
<1>9. InsertAndCoalesceLocked(free, b) = new
  BY <1>1 DEF rest
<1> HIDE DEF new
<1> QED
  BY <1>3, <1>5, <1>6, <1>7, <1>8, <1>9

(***************************************************************************)
(* The calls.                                                              *)
(***************************************************************************)
LEMMA Division ==
  ASSUME NEW x \in Int, NEW a \in Nat \ {0}
  PROVE  x \div a \in Int /\ x % a \in 0 .. a - 1 /\ x = a * (x \div a) + (x % a) /\ (a * x) % a = 0
OBVIOUS

LEMMA BlockPaddingIs ==
  ASSUME NEW x \in Int, NEW a \in Nat \ {0}
  PROVE  BlockPadding(x, a) \in Nat /\ (x + BlockPadding(x, a)) % a = 0
<1> DEFINE pad == (-x) % a
           q == (-x) \div a
<1>1. pad \in Nat /\ q \in Int /\ -x = a * q + pad
  BY Division
<1>2. x + pad = a * (-q)
  BY <1>1
<1>3. \A k \in Int : (a * k) % a = 0
  BY Division
<1>4. (a * (-q)) % a = 0
  <2>1. -q \in Int
    BY <1>1
  <2> QED
    BY <1>3, <2>1
<1> QED
  BY <1>1, <1>2, <1>4 DEF BlockPadding

LEMMA DivisorsOfFour ==
  ASSUME NEW n \in Nat \ {0}, 4 % n = 0
  PROVE  n \in {1, 2, 4}
<1> DEFINE k == 4 \div n
<1>1. 4 = n * k /\ k \in Int
  <2>1. \A x \in Int : x \div n \in Int /\ x = n * (x \div n) + (x % n)
    BY Division
  <2> QED
    BY <2>1
<1> HIDE DEF k
<1>2. k > 0
  BY <1>1
<1>3. n <= 4
  BY <1>1, <1>2
<1>4. n # 3
  OBVIOUS
<1> QED
  BY <1>3, <1>4

LEMMA PaddingServes ==
  ASSUME NEW b \in BlockSet, NEW r \in AllocateRequests
  PROVE  PaddingOf(b, r) \in Nat /\ PaddingOf(b, r) >= AllocationHeader /\ (b.at + PaddingOf(b, r)) % r.alignment = 0
<1>1. /\ r.alignment \in Nat \ {0} /\ b.at \in Nat
      /\ r.alignment % 4 = 0 \/ 4 % r.alignment = 0
  BY FreeListAssumption, BlockFacts DEF MinAlignment
<1> DEFINE a == Alignment(r)
           n == r.alignment
<1>2. a \in Nat \ {0} /\ \A x \in Int : x % a = 0 => x % n = 0
  <2>1. CASE n % 4 = 0
    <3>1. n >= 4
      BY <1>1, <2>1
    <3>2. a = n
      BY <1>1, <3>1 DEF Alignment, Max, MinAlignment
    <3> QED
      BY <1>1, <3>2
  <2>2. CASE 4 % n = 0
    <3>1. n \in {1, 2, 4}
      BY <1>1, <2>2, DivisorsOfFour
    <3>2. a = 4
      BY <3>1 DEF Alignment, Max, MinAlignment
    <3>3. \A x \in Int : x % 4 = 0 => x % 1 = 0 /\ x % 2 = 0
      OBVIOUS
    <3> HIDE DEF a, n
    <3> QED
      BY <3>1, <3>2, <3>3
  <2> QED
    BY <1>1, <2>1, <2>2
<1> DEFINE p == BlockPadding(b.at, a)
           m == 4 - p
           q == BlockPadding(m, a)
<1> HIDE DEF a, n
<1>3. p \in Nat /\ (b.at + p) % a = 0
  <2>1. b.at \in Int /\ a \in Nat \ {0}
    BY <1>1, <1>2
  <2>2. \A x \in Int : BlockPadding(x, a) \in Nat /\ (x + BlockPadding(x, a)) % a = 0
    BY <2>1, BlockPaddingIs
  <2> QED
    BY <2>1, <2>2
<1>4. m \in Int /\ q \in Nat /\ (m + q) % a = 0
  <2>1. m \in Int
    BY <1>3
  <2> HIDE DEF m
  <2> QED
    BY <1>2, <2>1, BlockPaddingIs
<1>5. PaddingOf(b, r) = IF m > 0 THEN p + m + q ELSE p
  BY DEF PaddingOf, HeaderPadding, AllocationHeader, a
<1>6. m = 4 - p
  OBVIOUS
<1>7. m > 0 => (b.at + (p + m + q)) % a = 0
  <2> DEFINE x == b.at + p
             y == m + q
  <2>1. x \in Int /\ y \in Int /\ x % a = 0 /\ y % a = 0
    BY <1>1, <1>3, <1>4
  <2>2. b.at + (p + m + q) = x + y
    BY <1>1, <1>3, <1>4
  <2> HIDE DEF x, y
  <2>3. x = a * (x \div a) /\ y = a * (y \div a) /\ x \div a \in Int /\ y \div a \in Int
    BY <1>2, <2>1, Division
  <2>4. x + y = a * ((x \div a) + (y \div a)) /\ (x \div a) + (y \div a) \in Int
    BY <1>2, <2>3
  <2> QED
    BY <1>2, <2>2, <2>4, Division
<1> HIDE DEF p, m, q
<1>8. /\ PaddingOf(b, r) \in Nat /\ PaddingOf(b, r) >= 4 /\ (b.at + PaddingOf(b, r)) % a = 0
      /\ b.at + PaddingOf(b, r) \in Int
  <2>1. CASE m > 0
    BY <1>1, <1>3, <1>4, <1>5, <1>6, <1>7, <2>1
  <2>2. CASE ~(m > 0)
    BY <1>1, <1>3, <1>4, <1>5, <1>6, <2>2
  <2> QED
    BY <2>1, <2>2
<1> QED
  BY <1>2, <1>8 DEF AllocationHeader, n

\* What is split off is the end of the block.
LEMMA SplitIs ==
  ASSUME NEW b \in BlockSet, NEW needed \in Nat, needed <= b.size
  PROVE  \/ Split(b, needed) = {}
         \/ \E m \in BlockSet : /\ Split(b, needed) = {m} /\ b.at + needed <= m.at
                                /\ BlockEnd(m) = BlockEnd(b) /\ m.size <= b.size - needed
<1> DEFINE pad == BlockPadding(b.at + needed, BlockAlignment)
           rest == b.size - needed
           m == Extent(b.at + needed + pad, rest - pad)
<1>1. b.at \in Nat /\ b.size \in Nat /\ BlockEnd(b) = b.at + b.size
  BY BlockFacts
<1>2. pad \in Nat
  <2>1. b.at + needed \in Int /\ BlockAlignment \in Nat \ {0}
    BY <1>1 DEF BlockAlignment
  <2> QED
    BY <2>1, BlockPaddingIs
<1>3. Split(b, needed) = IF rest >= MinSplit /\ rest - pad > FreeBlockHeader THEN {m} ELSE {}
  BY DEF Split
<1> SUFFICES ASSUME rest - pad > 4
             PROVE  m \in BlockSet /\ b.at + needed <= m.at /\ BlockEnd(m) = BlockEnd(b) /\ m.size <= b.size - needed
  BY <1>3 DEF FreeBlockHeader
<1> HIDE DEF pad
<1>4. b.at + needed + pad \in Nat /\ rest - pad \in Nat /\ rest - pad > 0
  BY <1>1, <1>2
<1>5. /\ m \in BlockSet /\ m.at = b.at + needed + pad /\ m.size = rest - pad
      /\ BlockEnd(m) = (b.at + needed + pad) + (rest - pad)
  BY <1>4, ExtentFacts
<1> HIDE DEF m
<1> QED
  BY <1>1, <1>2, <1>5

LEMMA BestIs ==
  ASSUME NEW free, NEW r, NEW b \in Best(free, r)
  PROVE  b \in free /\ b.size >= Needed(b, r)
BY DEF Best

LEMMA TakeKeeps ==
  ASSUME Books, NEW free, NEW S, Remaining(free, S), NEW r \in AllocateRequests, NEW b \in Best(free, r),
         TakeFrom(free, b, r), regions_' = S
  PROVE  FreeListInv'
<1> DEFINE needed == Needed(b, r)
           padding == PaddingOf(b, r)
           a == [at |-> b.at, size |-> needed, padding |-> padding, alignment |-> r.alignment]
           left == Split(b, needed)
           others == free \ {b}
<1>1. /\ b \in free /\ b \in BlockSet /\ free \in SUBSET BlockSet /\ b.size >= needed
      /\ r.size \in Nat \ {0} /\ r.alignment \in Nat \ {0}
  BY BestIs, FreeListAssumption DEF Remaining
<1>2. padding \in Nat /\ padding >= AllocationHeader /\ (b.at + padding) % r.alignment = 0
  BY <1>1, PaddingServes
<1>3. needed = padding + r.size
  BY DEF Needed
<1>4. needed \in Nat /\ needed > 0
  BY <1>1, <1>2, <1>3
<1>5. free_list_' = others \cup left /\ allocated' = allocated \cup {a} /\ used_memory_' = used_memory_ + needed
  BY DEF TakeFrom
<1>6. b.at \in Nat /\ b.size \in Nat /\ BlockEnd(b) = b.at + b.size
  BY <1>1, BlockFacts
<1> HIDE DEF needed, padding
<1>7. a \in AllocationSet /\ a.at = b.at /\ a.size = needed /\ a.padding = padding /\ a.alignment = r.alignment
  BY <1>1, <1>2, <1>4, <1>6 DEF AllocationSet
<1>8. BlockEnd(a) = b.at + needed /\ BlockEnd(a) <= BlockEnd(b)
  BY <1>1, <1>4, <1>6, <1>7 DEF BlockEnd
<1> HIDE DEF a
<1>9. \A f \in free \cup allocated : f.at \in Nat /\ f.size \in Nat /\ BlockEnd(f) \in Nat /\ BlockEnd(f) = f.at + f.size /\ f.at < BlockEnd(f)
  BY <1>1, BlockFacts DEF Books
<1>10. \A c \in allocated : Beside(c, a) /\ Beside(a, c) /\ c # a
  <2> SUFFICES ASSUME NEW c \in allocated PROVE Beside(c, a) /\ Beside(a, c) /\ c # a
    OBVIOUS
  <2>1. BlockEnd(c) <= b.at \/ BlockEnd(b) <= c.at
    BY <1>1 DEF Remaining, Beside
  <2>2. BlockEnd(c) <= a.at \/ BlockEnd(a) <= c.at
    BY <1>4, <1>6, <1>7, <1>8, <1>9, <2>1
  <2>3. c # a
    BY <1>4, <1>6, <1>7, <1>8, <1>9, <2>1
  <2> QED
    BY <2>2, <2>3 DEF Beside
<1>11. Books'
  <2>1. allocated' \in SUBSET AllocationSet /\ IsFiniteSet(allocated')
    BY <1>5, <1>7, FS_AddElement DEF Books
  <2>2. \A c, d \in allocated' : c = d \/ Beside(c, d)
    BY <1>5, <1>10 DEF Books
  <2>3. \A c \in allocated' : (c.at + c.padding) % c.alignment = 0 /\ c.padding >= AllocationHeader
    BY <1>2, <1>5, <1>7 DEF Books
  <2>4. used_memory_' = SizeOf(allocated')
    <3>1. SizeOf(allocated \cup {a}) = SizeOf(allocated) + a.size
      <4>1. IsFiniteSet(allocated) /\ a \notin allocated /\ a.size \in Nat /\ \A c \in allocated : c.size \in Nat
        BY <1>4, <1>7, <1>9, <1>10 DEF Books
      <4> QED
        BY <4>1, SizeAdd
    <3> QED
      BY <1>5, <1>7, <3>1 DEF Books
  <2> QED
    BY <2>1, <2>2, <2>3, <2>4 DEF Books, Beside
<1>12. /\ IsFiniteSet(others) /\ others \in SUBSET BlockSet /\ SizeOf(others) \in Nat
       /\ SizeOf(free) = SizeOf(others) + b.size
  BY <1>1, <1>9, SizeRemove DEF Remaining
<1>13. \A f \in others : BlockEnd(f) < b.at \/ BlockEnd(b) < f.at
  <2> SUFFICES ASSUME NEW f \in others PROVE BlockEnd(f) < b.at \/ BlockEnd(b) < f.at
    OBVIOUS
  <2>1. BlockEnd(f) + 1 <= b.at \/ BlockEnd(b) + 1 <= f.at
    BY <1>1 DEF Remaining, Separate
  <2> QED
    BY <1>1, <1>6, <1>9, <2>1
<1>14. /\ left \in SUBSET BlockSet /\ IsFiniteSet(others \cup left)
       /\ SizeOf(others \cup left) <= SizeOf(free) - needed
       /\ \A m \in left : b.at + needed <= m.at /\ BlockEnd(m) = BlockEnd(b) /\ \A n \in left : n = m
  <2>1. CASE left = {}
    <3>1. others \cup left = others
      BY <2>1
    <3> QED
      BY <1>1, <1>4, <1>6, <1>12, <2>1, <3>1
  <2>2. CASE \E m \in BlockSet : left = {m} /\ b.at + needed <= m.at /\ BlockEnd(m) = BlockEnd(b) /\ m.size <= b.size - needed
    <3>1. PICK m \in BlockSet : left = {m} /\ b.at + needed <= m.at /\ BlockEnd(m) = BlockEnd(b) /\ m.size <= b.size - needed
      BY <2>2
    <3>2. m.at \in Nat /\ m.size \in Nat /\ m.at < BlockEnd(m)
      BY BlockFacts
    <3>3. m \notin others
      BY <1>4, <1>6, <1>9, <1>13, <3>1, <3>2
    <3>4. SizeOf(others \cup {m}) = SizeOf(others) + m.size /\ IsFiniteSet(others \cup {m})
      BY <1>9, <1>12, <3>2, <3>3, SizeAdd
    <3> QED
      BY <1>4, <1>6, <1>12, <3>1, <3>2, <3>4
  <2> QED
    BY <1>1, <1>4, <2>1, <2>2, SplitIs
<1> HIDE DEF left
<1>15. \A m \in left : m.at \in Nat /\ BlockEnd(m) \in Nat /\ m.at < BlockEnd(m)
  BY <1>14, BlockFacts
<1>16. Separate(others \cup left, 1)
  <2> SUFFICES ASSUME NEW x \in others \cup left, NEW y \in others \cup left, x # y
               PROVE  BlockEnd(x) + 1 <= y.at \/ BlockEnd(y) + 1 <= x.at
    BY DEF Separate
  <2>1. CASE x \in others /\ y \in others
    BY <2>1 DEF Remaining, Separate
  <2>2. CASE x \in others /\ y \in left
    BY <1>4, <1>6, <1>9, <1>13, <1>14, <1>15, <2>2
  <2>3. CASE x \in left /\ y \in others
    BY <1>4, <1>6, <1>9, <1>13, <1>14, <1>15, <2>3
  <2>4. CASE x \in left /\ y \in left
    BY <1>14, <2>4
  <2> QED
    BY <2>1, <2>2, <2>3, <2>4
<1>17. \A c \in allocated \cup {a} : \A f \in others \cup left : Beside(c, f)
  <2> SUFFICES ASSUME NEW c \in allocated \cup {a}, NEW f \in others \cup left PROVE BlockEnd(c) <= f.at \/ BlockEnd(f) <= c.at
    BY DEF Beside
  <2>1. CASE c \in allocated /\ f \in others
    BY <2>1 DEF Remaining, Beside
  <2>2. CASE c \in allocated /\ f \in left
    <3>1. BlockEnd(c) <= b.at \/ BlockEnd(b) <= c.at
      BY <1>1, <2>2 DEF Remaining, Beside
    <3> QED
      BY <1>4, <1>6, <1>9, <1>14, <1>15, <2>2, <3>1
  <2>3. CASE c = a /\ f \in others
    BY <1>4, <1>6, <1>7, <1>8, <1>9, <1>13, <2>3
  <2>4. CASE c = a /\ f \in left
    BY <1>8, <1>14, <2>4
  <2> QED
    BY <2>1, <2>2, <2>3, <2>4
<1>18. \A x \in (allocated \cup {a}) \cup (others \cup left) : Within(x, S)
  <2>1. \A x \in allocated \cup others : Within(x, S)
    BY DEF Remaining
  <2>2. PICK s \in S : s.at <= b.at /\ BlockEnd(b) <= BlockEnd(s)
    BY <1>1 DEF Remaining, Within
  <2>3. s.at \in Nat /\ BlockEnd(s) \in Nat
    BY BlockFacts DEF Remaining
  <2>4. Within(a, S)
    BY <1>4, <1>6, <1>7, <1>8, <2>2, <2>3 DEF Within
  <2>5. \A m \in left : Within(m, S)
    BY <1>4, <1>6, <1>14, <1>15, <2>2, <2>3 DEF Within
  <2> QED
    BY <2>1, <2>4, <2>5
<1>19. SizeOf(others \cup left) + (used_memory_ + needed) <= SizeOf(S)
  <2>1. SizeOf(free) \in Nat /\ used_memory_ \in Nat /\ SizeOf(S) \in Nat /\ SizeOf(others \cup left) \in Nat
    <3>1. SizeOf(free) \in Nat
      BY <1>9, SizeIs DEF Remaining
    <3>2. used_memory_ \in Nat
      BY <1>9, SizeIs DEF Books
    <3>3. SizeOf(S) \in Nat
      <4>1. \A s \in S : s.size \in Nat
        BY BlockFacts DEF Remaining
      <4> QED
        BY <4>1, SizeIs DEF Remaining
    <3>4. SizeOf(others \cup left) \in Nat
      <4>1. \A s \in others \cup left : s.size \in Nat
        BY <1>9, <1>14, BlockFacts
      <4> QED
        BY <1>14, <4>1, SizeIs
    <3> QED
      BY <3>1, <3>2, <3>3, <3>4
  <2>2. SizeOf(free) + used_memory_ <= SizeOf(S)
    BY DEF Remaining
  <2> QED
    BY <1>4, <1>14, <2>1, <2>2
<1> HIDE DEF others
<1>20. /\ S \in SUBSET BlockSet /\ IsFiniteSet(S) /\ Separate(S, RegionHeader) /\ SizeOf(S) <= MaxCapacity
  BY DEF Remaining
<1>21. Remaining(free_list_, regions_)'
  BY <1>5, <1>12, <1>14, <1>16, <1>17, <1>18, <1>19, <1>20 DEF Remaining, Beside, Within, Separate, SizeOf, BlockEnd
<1> QED
  BY <1>11, <1>21 DEF FreeListInv

\* A region, its header included, is apart from all there is.
LEMMA RegionBeside ==
  ASSUME Books, Remaining(free_list_, regions_), NEW capacity \in Nat, capacity > 0, NEW region \in CreateRegion(capacity)
  PROVE  /\ region \in BlockSet /\ region.size = capacity /\ region \notin regions_
         /\ Separate(regions_ \cup {region}, RegionHeader)
         /\ \A x \in allocated \cup free_list_ : Beside(region, x) /\ Beside(x, region)
<1>1. region \in BlockSet /\ region.size = capacity
  <2>1. PICK base \in RegionBases : region = Extent(base, capacity)
    BY DEF CreateRegion
  <2>2. base \in Nat
    BY FreeListAssumption
  <2> QED
    BY <2>1, <2>2, ExtentFacts
<1>2. \A other \in regions_ : BlockEnd(other) + 16 <= region.at \/ BlockEnd(region) + 16 <= other.at
  BY DEF CreateRegion, RegionHeader
<1>3. \A x \in regions_ \cup {region} \cup allocated \cup free_list_ : x.at \in Nat /\ BlockEnd(x) \in Nat /\ x.at < BlockEnd(x)
  BY <1>1, BlockFacts DEF Books, Remaining
<1>4. region \notin regions_
  BY <1>2, <1>3
<1>5. Separate(regions_ \cup {region}, RegionHeader)
  BY <1>2 DEF Separate, Remaining, RegionHeader
<1>6. ASSUME NEW x \in allocated \cup free_list_
      PROVE  Beside(region, x) /\ Beside(x, region)
  <2>1. PICK s \in regions_ : s.at <= x.at /\ BlockEnd(x) <= BlockEnd(s)
    BY <1>6 DEF Remaining, Within
  <2> QED
    BY <1>2, <1>3, <1>6, <2>1 DEF Beside
<1> QED
  BY <1>1, <1>4, <1>5, <1>6

LEMMA GrownRemains ==
  ASSUME Books, Remaining(free_list_, regions_), NEW capacity \in Nat, capacity > 0, SizeOf(regions_) + capacity <= MaxCapacity,
         NEW region \in CreateRegion(capacity)
  PROVE  Remaining(InsertAndCoalesceLocked(free_list_, region), regions_ \cup {region})
<1> DEFINE free == InsertAndCoalesceLocked(free_list_, region)
           S == regions_ \cup {region}
<1>1. /\ region \in BlockSet /\ region.size = capacity /\ region \notin regions_
      /\ Separate(S, RegionHeader)
      /\ \A x \in allocated \cup free_list_ : Beside(region, x) /\ Beside(x, region)
  BY RegionBeside
<1>2. /\ SizeOf(S) = SizeOf(regions_) + capacity /\ IsFiniteSet(S) /\ S \in SUBSET BlockSet
      /\ SizeOf(regions_) \in Nat
  <2>1. IsFiniteSet(regions_) /\ \A x \in regions_ : x.size \in Nat
    BY BlockFacts DEF Remaining
  <2> QED
    BY <1>1, <2>1, SizeAdd, SizeIs DEF Remaining
<1>3. \A x \in allocated \cup free_list_ \cup {region} : Within(x, S)
  <2>1. \A x \in allocated \cup free_list_ : Within(x, S)
    BY DEF Remaining, Within
  <2>2. Within(region, S)
    <3>1. region.at \in Nat /\ BlockEnd(region) \in Nat
      BY <1>1, BlockFacts
    <3> QED
      BY <3>1 DEF Within
  <2> QED
    BY <2>1, <2>2
<1>4. free_list_ \in SUBSET BlockSet /\ IsFiniteSet(free_list_) /\ Separate(free_list_, 1)
  BY DEF Remaining
<1>5. /\ free \in SUBSET BlockSet /\ IsFiniteSet(free) /\ Separate(free, 1)
      /\ \A f \in free : Within(f, S)
      /\ \A c \in BlockSet \cup AllocationSet : Beside(c, region) /\ (\A f \in free_list_ : Beside(c, f)) => \A f \in free : Beside(c, f)
      /\ SizeOf(free) = SizeOf(free_list_) + region.size
  <2> HIDE DEF S
  <2> QED
    BY <1>1, <1>2, <1>3, <1>4, InsertKeeps
<1>6. \A a \in allocated : \A f \in free : Beside(a, f)
  BY <1>1, <1>5 DEF Remaining, Books
<1>7. SizeOf(free) + used_memory_ <= SizeOf(S)
  <2>1. SizeOf(free_list_) \in Nat
    <3>1. \A f \in free_list_ : f.size \in Nat
      BY BlockFacts DEF Remaining
    <3> QED
      BY <1>4, <3>1, SizeIs
  <2>2. used_memory_ \in Nat
    <3>1. \A f \in allocated : f.size \in Nat
      BY BlockFacts DEF Books
    <3> QED
      BY <3>1, SizeIs DEF Books
  <2>3. SizeOf(free_list_) + used_memory_ <= SizeOf(regions_)
    BY DEF Remaining
  <2> QED
    BY <1>1, <1>2, <1>5, <2>1, <2>2, <2>3
<1> HIDE DEF free, S
<1>8. Remaining(free, S)
  BY <1>1, <1>2, <1>3, <1>5, <1>6, <1>7 DEF Remaining
<1> QED
  BY <1>8 DEF free, S

LEMMA SameBooks ==
  ASSUME Books, allocated' = allocated, used_memory_' = used_memory_
  PROVE  Books'
BY DEF Books, Beside, SizeOf, BlockEnd

LEMMA SameRemaining ==
  ASSUME NEW free, NEW S, Remaining(free, S), allocated' = allocated, used_memory_' = used_memory_,
         free_list_' = free, regions_' = S
  PROVE  Remaining(free_list_, regions_)'
BY DEF Remaining, Separate, Beside, Within, SizeOf, BlockEnd

LEMMA ListAllocateKeeps ==
  ASSUME FreeListInv, NEW r \in AllocateRequests, do_allocate(r)
  PROVE  FreeListInv'
<1>1. Books /\ Remaining(free_list_, regions_)
  BY DEF FreeListInv
<1>2. CASE AllocateLocked(r)
  <2>1. PICK b \in Best(free_list_, r) : TakeFrom(free_list_, b, r)
    BY <1>2 DEF AllocateLocked
  <2>2. regions_' = regions_
    BY <1>2 DEF AllocateLocked
  <2> QED
    BY <1>1, <2>1, <2>2, TakeKeeps
<1>3. CASE PmrFailFast
  <2>1. UNCHANGED <<regions_, free_list_, used_memory_, allocated>>
    BY <1>3 DEF PmrFailFast
  <2> QED
    BY <1>1, <2>1, SameBooks, SameRemaining DEF FreeListInv
<1>4. CASE GrowLocked(r)
  <2> DEFINE current == SizeOf(regions_)
             capacity == NextRegionCapacity(current, current + r.size + r.alignment) - current
  <2>1. \/ PmrFailFast
        \/ /\ ~(capacity <= 0)
           /\ \E region \in CreateRegion(capacity) :
                LET free == InsertAndCoalesceLocked(free_list_, region) IN
                /\ regions_' = regions_ \cup {region}
                /\ \/ free_list_' = free /\ UNCHANGED <<used_memory_, allocated>>
                   \/ \E b \in Best(free, r) : TakeFrom(free, b, r)
    BY <1>4 DEF GrowLocked, ListCapacity
  <2>2. CASE PmrFailFast
    BY <1>3, <2>2
  <2>3. ASSUME ~(capacity <= 0), NEW region \in CreateRegion(capacity), regions_' = regions_ \cup {region},
               \/ free_list_' = InsertAndCoalesceLocked(free_list_, region) /\ UNCHANGED <<used_memory_, allocated>>
               \/ \E b \in Best(InsertAndCoalesceLocked(free_list_, region), r) :
                    TakeFrom(InsertAndCoalesceLocked(free_list_, region), b, r)
        PROVE  FreeListInv'
    <3>1. current \in Nat /\ current <= MaxCapacity /\ MaxCapacity \in Nat
      <4>1. \A x \in regions_ : x.size \in Nat
        BY <1>1, BlockFacts DEF Remaining
      <4> QED
        BY <1>1, <4>1, SizeIs, FreeListAssumption DEF Remaining
    <3>2. NextRegionCapacity(current, current + r.size + r.alignment) \in 0 .. MaxCapacity
      <4>1. current \in 0 .. MaxCapacity
        BY <3>1
      <4> HIDE DEF current
      <4> QED
        BY <4>1, FreeListAssumption
    <3>3. capacity \in Nat /\ capacity > 0 /\ current + capacity <= MaxCapacity
      <4> DEFINE n == NextRegionCapacity(current, current + r.size + r.alignment)
      <4>1. n \in Nat /\ n <= MaxCapacity /\ ~(n - current <= 0)
        BY <2>3, <3>1, <3>2
      <4>2. capacity = n - current
        OBVIOUS
      <4> HIDE DEF n, current, capacity
      <4> QED
        BY <3>1, <4>1, <4>2
    <3> HIDE DEF capacity
    <3> DEFINE free == InsertAndCoalesceLocked(free_list_, region)
               S == regions_ \cup {region}
    <3>4. Remaining(free, S)
      BY <1>1, <2>3, <3>3, GrownRemains
    <3> HIDE DEF current
    <3>5. CASE free_list_' = free /\ UNCHANGED <<used_memory_, allocated>>
      <4> HIDE DEF free, S
      <4>1. regions_' = S
        BY <2>3 DEF S
      <4>2. Remaining(free_list_, regions_)'
        BY <3>4, <3>5, <4>1, SameRemaining
      <4> QED
        BY <1>1, <3>5, <4>2, SameBooks DEF FreeListInv
    <3>6. CASE \E b \in Best(free, r) : TakeFrom(free, b, r)
      <4>1. regions_' = S
        BY <2>3
      <4> HIDE DEF free, S
      <4>2. PICK b \in Best(free, r) : TakeFrom(free, b, r)
        BY <3>6
      <4> QED
        BY <1>1, <3>4, <4>1, <4>2, TakeKeeps
    <3> QED
      BY <2>3, <3>5, <3>6
  <2> HIDE DEF capacity, current
  <2> QED
    BY <2>1, <2>2, <2>3
<1> QED
  BY <1>2, <1>3, <1>4 DEF do_allocate

LEMMA ListDeallocateKeeps ==
  ASSUME FreeListInv, NEW a \in allocated, do_deallocate(a)
  PROVE  FreeListInv'
<1> DEFINE b == Extent(a.at, a.size)
           free == InsertAndCoalesceLocked(free_list_, b)
           kept == allocated \ {a}
<1>1. Books /\ Remaining(free_list_, regions_)
  BY DEF FreeListInv
<1>2. a \in AllocationSet
  BY <1>1 DEF Books
<1>3. b \in BlockSet /\ b.at = a.at /\ b.size = a.size /\ BlockEnd(b) = BlockEnd(a)
  BY <1>2, BlockFacts, ExtentFacts
<1>4. free_list_' = free /\ allocated' = kept /\ used_memory_' = used_memory_ - a.size /\ regions_' = regions_
  BY DEF do_deallocate
<1> HIDE DEF b
<1>5. /\ \A f \in free_list_ : Beside(b, f)
      /\ \A f \in free_list_ \cup {b} : Within(f, regions_)
      /\ \A c \in kept : Beside(c, b)
  <2>1. \A f \in free_list_ : Beside(b, f)
    BY <1>1, <1>3 DEF Remaining, Beside
  <2>2. \A c \in kept : Beside(c, b)
    BY <1>1, <1>3 DEF Books, Beside
  <2>3. \A f \in free_list_ \cup {b} : Within(f, regions_)
    BY <1>1, <1>3 DEF Remaining, Within
  <2> QED
    BY <2>1, <2>2, <2>3
<1>6. /\ regions_ \in SUBSET BlockSet /\ IsFiniteSet(regions_) /\ Separate(regions_, RegionHeader) /\ SizeOf(regions_) <= MaxCapacity
      /\ free_list_ \in SUBSET BlockSet /\ IsFiniteSet(free_list_) /\ Separate(free_list_, 1)
      /\ SizeOf(free_list_) + used_memory_ <= SizeOf(regions_)
  BY <1>1 DEF Remaining
<1>7. /\ free \in SUBSET BlockSet /\ IsFiniteSet(free) /\ Separate(free, 1)
      /\ \A f \in free : Within(f, regions_)
      /\ \A c \in BlockSet \cup AllocationSet : Beside(c, b) /\ (\A f \in free_list_ : Beside(c, f)) => \A f \in free : Beside(c, f)
      /\ SizeOf(free) = SizeOf(free_list_) + b.size
  BY <1>3, <1>5, <1>6, InsertKeeps
<1>8. \A c \in kept : \A f \in free : Beside(c, f)
  BY <1>1, <1>5, <1>7 DEF Books, Remaining
<1>9. /\ SizeOf(allocated) = SizeOf(kept) + a.size /\ IsFiniteSet(kept) /\ SizeOf(kept) \in Nat /\ a.size \in Nat
  <2>1. \A x \in allocated : x.size \in Nat
    BY <1>1, BlockFacts DEF Books
  <2> QED
    BY <1>1, <2>1, SizeRemove DEF Books
<1>10. used_memory_ - a.size = SizeOf(kept)
  BY <1>1, <1>9 DEF Books
<1>11. SizeOf(free) + (used_memory_ - a.size) <= SizeOf(regions_)
  <2>1. SizeOf(free_list_) \in Nat
    <3>1. \A f \in free_list_ : f.size \in Nat
      BY <1>6, BlockFacts
    <3> QED
      BY <1>6, <3>1, SizeIs
  <2>2. used_memory_ \in Int
    BY <1>1, <1>9 DEF Books
  <2> QED
    BY <1>3, <1>6, <1>7, <1>9, <2>1, <2>2
<1>12. Books'
  <2>1. kept \in SUBSET AllocationSet
    BY <1>1 DEF Books
  <2>2. /\ \A x, y \in kept : x = y \/ Beside(x, y)
        /\ \A x \in kept : (x.at + x.padding) % x.alignment = 0 /\ x.padding >= AllocationHeader
    BY <1>1 DEF Books
  <2> HIDE DEF kept
  <2> QED
    BY <1>4, <1>9, <1>10, <2>1, <2>2 DEF Books, Beside, SizeOf, BlockEnd
<1>13. \A x \in kept \cup free : Within(x, regions_)
  BY <1>1, <1>7 DEF Remaining
<1>14. Remaining(free_list_, regions_)'
  <2> HIDE DEF kept, free
  <2> QED
    BY <1>4, <1>6, <1>7, <1>8, <1>11, <1>13 DEF Remaining, Separate, Beside, Within, SizeOf, BlockEnd
<1> QED
  BY <1>12, <1>14 DEF FreeListInv

\* Nothing is allocated and the free list is the regions.
LEMMA AllFree ==
  ASSUME NEW S, S \in SUBSET BlockSet, IsFiniteSet(S), Separate(S, RegionHeader), SizeOf(S) <= MaxCapacity,
         allocated = {}, used_memory_ = 0, free_list_ = S, regions_ = S
  PROVE  FreeListInv
<1>1. Books
  BY SizeOfNone, FS_EmptySet DEF Books
<1>2. \A x \in S : x.at \in Nat /\ x.size \in Nat /\ BlockEnd(x) \in Nat
  BY BlockFacts
<1>3. Separate(S, 1)
  BY <1>2 DEF Separate, RegionHeader
<1>4. SizeOf(S) \in Nat
  BY <1>2, SizeIs
<1>5. \A x \in S : Within(x, S)
  BY <1>2 DEF Within
<1>6. Remaining(free_list_, regions_)
  BY <1>3, <1>4, <1>5 DEF Remaining
<1> QED
  BY <1>1, <1>6 DEF FreeListInv

LEMMA ListInitInv == ListInit => FreeListInv
<1> SUFFICES ASSUME ListInit PROVE FreeListInv
  OBVIOUS
<1>1. PICK base \in RegionBases : regions_ = {Extent(base, FirstCapacity)}
  BY DEF ListInit
<1> DEFINE b == Extent(base, FirstCapacity)
<1>2. FirstCapacity \in Nat /\ FirstCapacity > 0 /\ FirstCapacity <= MaxCapacity /\ base \in Nat
  BY FreeListAssumption DEF FreeBlockHeader
<1>3. b \in BlockSet /\ b.size = FirstCapacity
  BY <1>2, ExtentFacts
<1> HIDE DEF b
<1>4. SizeOf({b}) = FirstCapacity
  <2>1. SizeOf({} \cup {b}) = SizeOf({}) + b.size
    BY <1>2, <1>3, SizeAdd, FS_EmptySet
  <2>2. {} \cup {b} = {b}
    OBVIOUS
  <2> QED
    BY <1>2, <1>3, <2>1, <2>2, SizeOfNone
<1>5. /\ {b} \in SUBSET BlockSet /\ IsFiniteSet({b}) /\ Separate({b}, RegionHeader)
  BY <1>3, FS_Singleton DEF Separate
<1>6. regions_ = {b} /\ free_list_ = {b} /\ used_memory_ = 0 /\ allocated = {}
  BY <1>1 DEF ListInit, b
<1>7. SizeOf({b}) <= MaxCapacity
  BY <1>2, <1>4
<1> QED
  BY <1>5, <1>6, <1>7, AllFree

LEMMA ListNextInv == FreeListInv /\ [ListNext]_list_vars => FreeListInv'
<1> SUFFICES ASSUME FreeListInv, [ListNext]_list_vars PROVE FreeListInv'
  OBVIOUS
<1>1. CASE ResetList
  <2>1. allocated' = {} /\ used_memory_' = 0 /\ free_list_' = regions_ /\ regions_' = regions_
    BY <1>1 DEF ResetList
  <2>2. /\ regions_ \in SUBSET BlockSet /\ IsFiniteSet(regions_) /\ Separate(regions_, RegionHeader) /\ SizeOf(regions_) <= MaxCapacity
    BY DEF FreeListInv, Remaining
  <2>3. Books'
    BY <2>1, SizeOfNone, FS_EmptySet DEF Books, Beside, SizeOf, BlockEnd
  <2>4. \A x \in regions_ : x.at \in Nat /\ x.size \in Nat /\ BlockEnd(x) \in Nat
    BY <2>2, BlockFacts
  <2>5. Separate(regions_, 1) /\ \A x \in regions_ : Within(x, regions_)
    BY <2>2, <2>4 DEF Separate, RegionHeader, Within
  <2>6. SizeOf(regions_) \in Nat
    BY <2>2, <2>4, SizeIs
  <2>7. SizeOf(regions_) + 0 <= SizeOf(regions_)
    BY <2>6
  <2>8. Remaining(free_list_, regions_)'
    BY <2>1, <2>2, <2>5, <2>7 DEF Remaining, Separate, Beside, Within, SizeOf, BlockEnd
  <2> QED
    BY <2>3, <2>8 DEF FreeListInv
<1>2. CASE UNCHANGED list_vars
  <2>1. allocated' = allocated /\ used_memory_' = used_memory_ /\ free_list_' = free_list_ /\ regions_' = regions_
    BY <1>2 DEF list_vars
  <2> QED
    BY <2>1, SameBooks, SameRemaining DEF FreeListInv
<1> QED
  BY <1>1, <1>2, ListAllocateKeeps, ListDeallocateKeeps DEF ListNext

LEMMA InvAllocations == FreeListInv => FreeListAllocations
<1> SUFFICES ASSUME FreeListInv PROVE FreeListAllocations
  OBVIOUS
<1>1. Books /\ Remaining(free_list_, regions_)
  BY DEF FreeListInv
<1>2. \A x \in allocated \cup free_list_ : x.at \in Nat /\ x.size \in Nat /\ BlockEnd(x) \in Nat /\ x.size > 0 /\ BlockEnd(x) = x.at + x.size
  BY <1>1, BlockFacts DEF Books, Remaining
<1>3. \A a, b \in {Extent(x.at, x.size) : x \in allocated} \cup free_list_ : a = b \/ BlockEnd(a) <= b.at \/ BlockEnd(b) <= a.at
  <2> SUFFICES ASSUME NEW a \in {Extent(x.at, x.size) : x \in allocated} \cup free_list_,
                      NEW b \in {Extent(x.at, x.size) : x \in allocated} \cup free_list_, a # b
               PROVE  BlockEnd(a) <= b.at \/ BlockEnd(b) <= a.at
    OBVIOUS
  <2>1. \A x \in allocated : Extent(x.at, x.size).at = x.at /\ BlockEnd(Extent(x.at, x.size)) = BlockEnd(x)
    BY <1>2, ExtentFacts
  <2>2. CASE a \in free_list_ /\ b \in free_list_
    BY <1>1, <1>2, <2>2 DEF Remaining, Separate
  <2>3. CASE \E x \in allocated : a = Extent(x.at, x.size) /\ b \in free_list_
    BY <1>1, <2>1, <2>3 DEF Remaining, Beside
  <2>4. CASE \E y \in allocated : b = Extent(y.at, y.size) /\ a \in free_list_
    BY <1>1, <2>1, <2>4 DEF Remaining, Beside
  <2>5. CASE \E x, y \in allocated : a = Extent(x.at, x.size) /\ b = Extent(y.at, y.size)
    <3>1. PICK x \in allocated, y \in allocated : a = Extent(x.at, x.size) /\ b = Extent(y.at, y.size)
      BY <2>5
    <3>2. x # y
      BY <3>1
    <3>3. BlockEnd(x) <= y.at \/ BlockEnd(y) <= x.at
      BY <1>1, <3>2 DEF Books, Beside
    <3> QED
      BY <2>1, <3>1, <3>3
  <2> QED
    BY <2>2, <2>3, <2>4, <2>5
<1>4. Cardinality({x.at : x \in allocated}) = Cardinality(allocated)
  <2> DEFINE f == [x \in allocated |-> x.at]
             T == {x.at : x \in allocated}
  <2>1. \A x, y \in allocated : x.at = y.at => x = y
    BY <1>1, <1>2 DEF Books, Beside
  <2>2. f \in Bijection(allocated, T)
    BY <2>1 DEF Bijection, Injection, Surjection, IsInjective
  <2>3. IsFiniteSet(allocated)
    BY <1>1 DEF Books
  <2> QED
    BY <2>2, <2>3, FS_Bijection DEF ExistsBijection
<1>5. \A b \in allocated \cup free_list_ : \E r \in regions_ : r.at <= b.at /\ BlockEnd(b) <= BlockEnd(r)
  BY <1>1 DEF Remaining, Within
<1>6. MemoryHasOneOwner
  BY <1>1, <1>3, <1>4, <1>5 DEF MemoryHasOneOwner, Books
<1>7. FreeBlocksAreApart
  BY <1>1, <1>2 DEF FreeBlocksAreApart, Remaining, Separate
<1>8. UsedIsAccounted
  <2>1. SizeOf(free_list_) \in Nat /\ SizeOf(allocated) \in Nat
    BY <1>1, <1>2, SizeIs DEF Books, Remaining
  <2>2. SizeOf(regions_) \in Nat
    <3>1. \A x \in regions_ : x.size \in Nat
      BY <1>1, BlockFacts DEF Remaining
    <3> QED
      BY <1>1, <3>1, SizeIs DEF Remaining
  <2>3. used_memory_ = SizeOf(allocated) /\ SizeOf(free_list_) + used_memory_ <= SizeOf(regions_)
    BY <1>1 DEF Books, Remaining
  <2> QED
    BY <2>1, <2>2, <2>3 DEF UsedIsAccounted, ListCapacity
<1> QED
  BY <1>6, <1>7, <1>8 DEF FreeListAllocations

\* FreeListAllocator: memory has one owner, freed neighbours are joined, and the
\* used memory is counted, wherever the system puts the regions and however the
\* allocator grows.
THEOREM FreeListSafety == ListSpec => []FreeListAllocations
<1> QED
  BY ListInitInv, ListNextInv, InvAllocations, PTL DEF ListSpec
===============================================================================
