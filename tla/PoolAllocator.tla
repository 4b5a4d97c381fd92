---------------------------- MODULE PoolAllocator ----------------------------
(***************************************************************************)
(* PoolAllocator: blocks of one size in a stack linked through the free    *)
(* blocks themselves, pushed and popped by compare-and-swap of its head;   *)
(* an empty pool grows by a chunk, one thread at a time.                   *)
(***************************************************************************)
EXTENDS Integers, FiniteSets

CONSTANTS Allocating, Freeing, \* the threads that call allocate / deallocate
          InitialBlocks,       \* blocks of the first chunk: 1 .. InitialBlocks
          Grown(_),            \* growth_.NextCapacity for one block more; 0: no growth
          MaxBlocks            \* bound: blocks of all chunks

ASSUME PoolAssumption ==
  /\ IsFiniteSet(Allocating \cup Freeing)
  /\ MaxBlocks \in Nat /\ InitialBlocks \in 1 .. MaxBlocks
  /\ \A n \in 0 .. MaxBlocks : Grown(n) \in Nat

VARIABLES free_head_, link,    \* head of the free list; the word in each block
          grow_state_, total_blocks_, free_blocks_, peak_used_blocks_,
          chunks_,             \* the chunks: sets of blocks
          held,                \* blocks that callers have
          call                 \* per thread: where its call is

pool_vars == <<free_head_, link, grow_state_, total_blocks_, free_blocks_, peak_used_blocks_, chunks_, held, call>>

PoolThreads == Allocating \cup Freeing
Null == 0
Blocks == 1 .. MaxBlocks

PoolIdle == [at |-> "idle"]
Goes(t, c) == call' = [call EXCEPT ![t] = c]
PoolAt(t, at) == call[t].at = at
Pushing(block, last, observed, then) ==
  [at |-> "push", block |-> block, last |-> last, observed |-> observed, then |-> then]

(* PushChunkBlocks in a constructor or in Reset, with no other thread.     *)
Chained(n) == [b \in Blocks |-> IF b \in 2 .. n THEN b - 1 ELSE Null]

PoolInit ==
  /\ free_head_ = InitialBlocks /\ link = Chained(InitialBlocks)
  /\ grow_state_ = "idle" /\ chunks_ = {1 .. InitialBlocks}
  /\ total_blocks_ = InitialBlocks /\ free_blocks_ = InitialBlocks
  /\ peak_used_blocks_ = 0
  /\ held = {} /\ call = [t \in PoolThreads |-> PoolIdle]

(* PopBlock: load the head, load its link, swing the head; a failed swing  *)
(* has loaded the head anew.                                               *)
BeginAllocate(t) ==
  /\ t \in Allocating /\ call[t] = PoolIdle
  /\ Goes(t, [at |-> "pop", observed |-> free_head_, grown |-> FALSE])
  /\ UNCHANGED <<free_head_, link, grow_state_, total_blocks_, free_blocks_, peak_used_blocks_, chunks_, held>>

ReadNext(t) ==
  /\ PoolAt(t, "pop") /\ call[t].observed # Null
  /\ Goes(t, [at |-> "swing", observed |-> call[t].observed, next |-> link[call[t].observed], grown |-> call[t].grown])
  /\ UNCHANGED <<free_head_, link, grow_state_, total_blocks_, free_blocks_, peak_used_blocks_, chunks_, held>>

Swing(t) ==
  /\ PoolAt(t, "swing")
  /\ IF free_head_ = call[t].observed
     THEN /\ free_head_' = call[t].next /\ held' = held \cup {call[t].observed}
          /\ Goes(t, [at |-> "count"])
     ELSE /\ Goes(t, [at |-> "pop", observed |-> free_head_, grown |-> call[t].grown])
          /\ UNCHANGED <<free_head_, held>>
  /\ UNCHANGED <<link, grow_state_, total_blocks_, free_blocks_, peak_used_blocks_, chunks_>>

CountPoolAllocation(t) ==
  /\ PoolAt(t, "count")
  /\ free_blocks_' = free_blocks_ - 1
  /\ Goes(t, [at |-> "peak", free_now |-> free_blocks_ - 1])
  /\ UNCHANGED <<free_head_, link, grow_state_, total_blocks_, peak_used_blocks_, chunks_, held>>

AccumulatePoolPeak(t) ==
  /\ PoolAt(t, "peak")
  /\ LET used == total_blocks_ - call[t].free_now IN
     peak_used_blocks_' = IF used > peak_used_blocks_ THEN used ELSE peak_used_blocks_
  /\ Goes(t, PoolIdle)
  /\ UNCHANGED <<free_head_, link, grow_state_, total_blocks_, free_blocks_, chunks_, held>>

(* PmrFailFast ends the process.                                           *)
PoolFailFast(t) == Goes(t, [at |-> "aborted"]) /\ UNCHANGED <<free_head_, link, grow_state_, total_blocks_, chunks_>>

(* GrowIfNeeded of a thread that found the pool empty: the total is loaded *)
(* before the growth is claimed, so that another thread may have grown the *)
(* pool in between.                                                        *)
BeginPoolGrow(t) ==
  /\ PoolAt(t, "pop") /\ call[t].observed = Null
  /\ IF call[t].grown \/ Grown(total_blocks_) <= total_blocks_ THEN PoolFailFast(t)
     ELSE /\ Goes(t, [at |-> "claim", blocks |-> total_blocks_])
          /\ UNCHANGED <<free_head_, link, grow_state_, total_blocks_, chunks_>>
  /\ UNCHANGED <<free_blocks_, peak_used_blocks_, held>>

ClaimPoolGrowth(t) ==
  /\ PoolAt(t, "claim")
  /\ IF grow_state_ = "idle"
     THEN grow_state_' = "growing" /\ Goes(t, [at |-> "create", blocks |-> call[t].blocks])
     ELSE Goes(t, [at |-> "wait"]) /\ UNCHANGED grow_state_
  /\ UNCHANGED <<free_head_, link, total_blocks_, free_blocks_, peak_used_blocks_, chunks_, held>>

(* A thread that waited tests the head and, if there is something, pops.   *)
Waited(t) ==
  /\ PoolAt(t, "wait") /\ grow_state_ = "idle"
  /\ IF free_head_ = Null THEN PoolFailFast(t)
     ELSE Goes(t, [at |-> "pop", observed |-> free_head_, grown |-> TRUE])
          /\ UNCHANGED <<grow_state_, free_head_, link, total_blocks_, chunks_>>
  /\ UNCHANGED <<free_blocks_, peak_used_blocks_, held>>

GrownCapacity(blocks) == IF Grown(blocks) < MaxBlocks THEN Grown(blocks) ELSE MaxBlocks

(* The chunk is counted, then its blocks are pushed one by one.            *)
CreateChunk(t) ==
  /\ PoolAt(t, "create")
  /\ \/ LET first == Cardinality(UNION chunks_) + 1
            fresh == first .. first + (GrownCapacity(call[t].blocks) - call[t].blocks) - 1 IN
        /\ fresh # {} /\ fresh \subseteq Blocks
        /\ chunks_' = chunks_ \cup {fresh}
        /\ total_blocks_' = total_blocks_ + Cardinality(fresh)
        /\ free_blocks_' = free_blocks_ + Cardinality(fresh)
        /\ Goes(t, Pushing(first, first + Cardinality(fresh) - 1, free_head_, "grown"))
        /\ UNCHANGED grow_state_
     \/ /\ grow_state_' = "idle"  \* no memory
        /\ Goes(t, [at |-> "aborted"])
        /\ UNCHANGED <<chunks_, total_blocks_, free_blocks_>>
  /\ UNCHANGED <<free_head_, link, peak_used_blocks_, held>>

GrowEnds(t) ==
  /\ PoolAt(t, "grown")
  /\ grow_state_' = "idle"
  /\ Goes(t, [at |-> "pop", observed |-> free_head_, grown |-> TRUE])
  /\ UNCHANGED <<free_head_, link, total_blocks_, free_blocks_, peak_used_blocks_, chunks_, held>>

(* A caller gives a block back that it, or another thread, was given.      *)
BeginDeallocate(t, b) ==
  /\ t \in Freeing /\ call[t] = PoolIdle /\ b \in held
  /\ held' = held \ {b}
  /\ Goes(t, Pushing(b, b, free_head_, "freed"))
  /\ UNCHANGED <<free_head_, link, grow_state_, total_blocks_, free_blocks_, peak_used_blocks_, chunks_>>

(* PushBlock: link the block to the head that was seen, swing the head.    *)
LinkBefore(t) == link' = [link EXCEPT ![call[t].block] = call[t].observed]

Push(t) ==
  /\ PoolAt(t, "push")
  /\ LinkBefore(t)
  /\ Goes(t, [call[t] EXCEPT !.at = "pushed"])
  /\ UNCHANGED <<free_head_, grow_state_, total_blocks_, free_blocks_, peak_used_blocks_, chunks_, held>>

\* Mutant: the head is stored without comparing it.
PushSwingsAlways(t) == TRUE
PushSwings(t) == free_head_ = call[t].observed

PushSwing(t) ==
  /\ PoolAt(t, "pushed")
  /\ IF PushSwings(t)
     THEN /\ free_head_' = call[t].block
          /\ Goes(t, IF call[t].block = call[t].last THEN [at |-> call[t].then]
                     ELSE Pushing(call[t].block + 1, call[t].last, call[t].block, call[t].then))
     ELSE /\ Goes(t, Pushing(call[t].block, call[t].last, free_head_, call[t].then))
          /\ UNCHANGED free_head_
  /\ UNCHANGED <<link, grow_state_, total_blocks_, free_blocks_, peak_used_blocks_, chunks_, held>>

CountDeallocation(t) ==
  /\ PoolAt(t, "freed")
  /\ free_blocks_' = free_blocks_ + 1
  /\ Goes(t, PoolIdle)
  /\ UNCHANGED <<free_head_, link, grow_state_, total_blocks_, peak_used_blocks_, chunks_, held>>

(* Reset, with no other call under way: every block is free again.         *)
ResetPool ==
  /\ \A t \in PoolThreads : call[t] = PoolIdle
  /\ LET n == Cardinality(UNION chunks_) IN
     free_head_' = n /\ link' = Chained(n) /\ total_blocks_' = n /\ free_blocks_' = n
  /\ held' = {}
  /\ UNCHANGED <<grow_state_, peak_used_blocks_, chunks_, call>>

PoolNext ==
  \/ \E t \in PoolThreads :
       \/ BeginAllocate(t) \/ ReadNext(t) \/ Swing(t) \/ CountPoolAllocation(t) \/ AccumulatePoolPeak(t)
       \/ BeginPoolGrow(t) \/ ClaimPoolGrowth(t) \/ Waited(t) \/ CreateChunk(t) \/ GrowEnds(t)
       \/ \E b \in Blocks : BeginDeallocate(t, b)
       \/ Push(t) \/ PushSwing(t) \/ CountDeallocation(t)
  \/ ResetPool

PoolSpec == PoolInit /\ [][PoolNext]_pool_vars
----------------------------------------------------------------------------
(* The blocks a pop can reach: those in every set that has the head and,   *)
(* with a block, the one that it links to.                                 *)
Linked(first, next, S) ==
  /\ first = Null \/ first \in S
  /\ \A b \in S : next[b] = Null \/ next[b] \in S
Reached(first, next) == {b \in Blocks : \A S \in SUBSET Blocks : Linked(first, next, S) => b \in S}
Free == Reached(free_head_, link)

(* A pop that succeeds although the list is another than the one it read:  *)
(* its block was taken, and given back before a different one, since.      *)
StalePop(t) ==
  /\ Swing(t)
  /\ free_head_ = call[t].observed /\ call[t].next # link[call[t].observed]

(* A block that a caller has is not on the free list, where the next       *)
(* allocation would hand it out again.                                     *)
HeldIsNotFree == held \cap Free = {}

(* No block is lost or given out twice: when no call is under way each     *)
(* block of the chunks is held or free, and the counter of free blocks is  *)
(* right.                                                                  *)
BlocksAccounted ==
  /\ HeldIsNotFree
  /\ (\A t \in PoolThreads : call[t] = PoolIdle) =>
       /\ held \cup Free = UNION chunks_
       /\ free_blocks_ = Cardinality(Free)
       /\ total_blocks_ = Cardinality(UNION chunks_)
=============================================================================
