------------------------------ MODULE ArenaAlloc ------------------------------
(***************************************************************************)
(* ArenaAllocator: several threads allocate from one arena, atomic step by *)
(* atomic step.                                                            *)
(*                                                                         *)
(* A thread reserves space in the head block by a compare-and-swap of the  *)
(* block's offset.  When the block is full it enters the slow path: one    *)
(* thread creates and publishes a new block, the others wait for it, and   *)
(* each tries a second and last time.  A failure aborts the process.       *)
(*                                                                         *)
(* Sizes count units of kMinAlignment bytes.  A block is an index into the *)
(* sequence of the blocks created since the last Reset, 0 is nullptr.  A   *)
(* load that is followed by a compare-and-swap of the same variable is one *)
(* step with what precedes it: a value that is old by then only makes the  *)
(* compare-and-swap fail and load again.                                   *)
(***************************************************************************)
EXTENDS Counting

CONSTANTS
  Threads,          \* threads that allocate
  Requests,         \* allocations that occur: [bytes, alignment]
  InitialCapacity,  \* ArenaOptions::initial_capacity
  Growths,          \* growth policies that occur: [mode, step, max_capacity]
  Bases,            \* addresses of buffers, modulo the largest alignment
  MaxAllocations    \* bound: allocations between two resets

ASSUME ArenaAssumption ==
  /\ Threads # {} /\ IsFiniteSet(Threads)
  /\ Requests # {} /\ Requests \subseteq [bytes : Nat \ {0}, alignment : Nat \ {0}]
  /\ InitialCapacity \in Nat \ {0}
  /\ Growths \subseteq [mode : {"fixed", "linear", "geometric"}, step : Nat \ {0},
                        max_capacity : Nat]
  /\ \A g \in Growths : g.max_capacity >= InitialCapacity
  /\ Bases # {} /\ Bases \subseteq Nat
  /\ MaxAllocations \in Nat

NoBlock == 0
Failures == {"policy", "memory", "small", "full"}
NoFailure == "none"
PCs == {"idle", "first", "ensure", "grow", "create", "publish", "count", "release",
        "wait", "check", "reload", "again", "reserved", "peak"}

VARIABLES
  growth,          \* growth_, fixed by the constructor
  blocks,          \* the blocks: capacity, offset, next, and the address of the buffer
  head,            \* head_
  grow_state,      \* grow_state_
  total_capacity,  \* total_capacity_
  block_count,     \* block_count_
  stats,           \* total_allocated_, allocation_count_, alignment_waste_, peak_usage_
  failure,         \* why the process was aborted, if it was
  pc,              \* where each thread is in do_allocate
  request,         \* the arguments of its call
  block,           \* the block it works on
  observed,        \* the offset or the peak it loaded last
  value,           \* its desired_capacity, then its padding, then its total
  ranges           \* history: the space reserved since the last Reset

chainVars == <<head, grow_state, total_capacity, block_count>>
callVars == <<request, block, observed, value>>
vars == <<growth, blocks, chainVars, stats, failure, pc, callVars, ranges>>

Block == [capacity : Nat, offset : Nat, next : Nat, base : Bases]
Space == [thread : Threads, block : Nat, from : Nat, to : Nat]

TypeOK ==
  /\ growth \in Growths
  /\ blocks \in Seq(Block)
  /\ head \in 1 .. Len(blocks)
  /\ grow_state \in {"idle", "growing"}
  /\ total_capacity \in Nat
  /\ block_count \in Nat
  /\ stats \in [allocated : Nat, count : Nat, waste : Nat, peak : Nat]
  /\ failure \in Failures \cup {NoFailure}
  /\ pc \in [Threads -> PCs]
  /\ request \in [Threads -> Requests]
  /\ block \in [Threads -> 0 .. Len(blocks)]
  /\ observed \in [Threads -> Nat]
  /\ value \in [Threads -> Nat]
  /\ ranges \subseteq Space

NewBlock(capacity, base) == [capacity |-> capacity, offset |-> 0, next |-> NoBlock, base |-> base]
NoRequest == CHOOSE r \in Requests : TRUE
NoStats == [allocated |-> 0, count |-> 0, waste |-> 0, peak |-> 0]

Init ==
  /\ growth \in Growths
  /\ \E base \in Bases : blocks = <<NewBlock(InitialCapacity, base)>>
  /\ head = 1
  /\ grow_state = "idle"
  /\ total_capacity = InitialCapacity
  /\ block_count = 1
  /\ stats = NoStats
  /\ failure = NoFailure
  /\ pc = [t \in Threads |-> "idle"]
  /\ request = [t \in Threads |-> NoRequest]
  /\ block = [t \in Threads |-> NoBlock]
  /\ observed = [t \in Threads |-> 0]
  /\ value = [t \in Threads |-> 0]
  /\ ranges = {}

-------------------------------------------------------------------------------
IsPowerOfTwo(n) == \A d \in 2 .. n : n % d = 0 => d % 2 = 0

\* The capacities the loops of GrowthPolicy::NextCapacity run through.  Sizes
\* stay far below the saturation of size_t; the geometric ratio is the
\* default, two.
Reachable(current, min) ==
  IF growth.mode = "linear" THEN {current + k * growth.step : k \in 0 .. min}
  ELSE {current * m : m \in {n \in 1 .. 2 * min : IsPowerOfTwo(n)}}

Smaller(m, n) == IF m < n THEN m ELSE n

\* GrowthPolicy::NextCapacity, and the test of its result in EnsureCapacity:
\* the one capacity that is enough, or none.
NextCapacity(current, min) ==
  LET enough == {c \in Reachable(current, min) : c >= min}
      least == {c \in enough : \A d \in enough : c <= d}
  IN IF current >= min THEN {current}
     ELSE IF growth.mode = "fixed" THEN {}
     ELSE {c \in {Smaller(n, growth.max_capacity) : n \in least} : c >= min}

\* SaturatingAdd(bytes, effective_alignment).
MinCapacity(t) == request[t].bytes + request[t].alignment

\* CalculatePadding, for the offset that thread t has loaded.
Padding(t) ==
  LET r == request[t]
  IN (r.alignment - ((blocks[block[t]].base + observed[t]) % r.alignment)) % r.alignment

Aligned(t) == observed[t] + Padding(t)
End(t) == Aligned(t) + request[t].bytes
Fits(t) == End(t) <= blocks[block[t]].capacity

Running == failure = NoFailure
At(t, label) == Running /\ pc[t] = label
Goto(t, label) == pc' = [pc EXCEPT ![t] = label]

\* Loads head_ and, in TryReserve, the offset of that block.
LoadHead(t) ==
  /\ block' = [block EXCEPT ![t] = head]
  /\ observed' = [observed EXCEPT ![t] = blocks[head].offset]

\* PmrFailFast: the process is aborted.
FailFast(reason) ==
  /\ failure' = reason
  /\ UNCHANGED <<growth, blocks, chainVars, stats, pc, callVars, ranges>>

-------------------------------------------------------------------------------
Active == {t \in Threads : pc[t] # "idle"}

\* do_allocate is entered.  (With no bytes it returns nullptr and does nothing.)
Allocate(t, r) ==
  /\ At(t, "idle")
  /\ stats.count + Cardinality(Active) < MaxAllocations
  /\ Goto(t, "first")
  /\ request' = [request EXCEPT ![t] = r]
  /\ LoadHead(t)
  /\ UNCHANGED <<growth, blocks, chainVars, stats, failure, value, ranges>>

Trying(t) == Running /\ pc[t] \in {"first", "again"}

\* The space from the padding on is the thread's.
TakeSpace(t) ==
  /\ blocks' = [blocks EXCEPT ![block[t]].offset = End(t)]
  /\ ranges' = ranges \cup {[thread |-> t, block |-> block[t], from |-> Aligned(t), to |-> End(t)]}
  /\ value' = [value EXCEPT ![t] = Padding(t)]
  /\ Goto(t, "reserved")
  /\ UNCHANGED <<growth, chainVars, stats, failure, request, block, observed>>

\* Mutant: the offset is stored without comparing it.
ReserveBlindly(t) ==
  /\ Trying(t)
  /\ Fits(t)
  /\ TakeSpace(t)

\* TryReserve: the compare-and-swap succeeds.
Reserve(t) ==
  /\ Trying(t)
  /\ Fits(t)
  /\ blocks[block[t]].offset = observed[t]
  /\ TakeSpace(t)

\* TryReserve: it fails, which loads the offset anew.
Reload(t) ==
  /\ Trying(t)
  /\ Fits(t)
  /\ blocks[block[t]].offset # observed[t]
  /\ observed' = [observed EXCEPT ![t] = blocks[block[t]].offset]
  /\ UNCHANGED <<growth, blocks, chainVars, stats, failure, pc, request, block, value, ranges>>

\* TryReserve: the block is full.  The first time the thread grows the chain.
FirstFails(t) ==
  /\ At(t, "first")
  /\ ~Fits(t)
  /\ Goto(t, "ensure")
  /\ UNCHANGED <<growth, blocks, chainVars, stats, failure, callVars, ranges>>

SecondFails(t) ==
  /\ At(t, "again")
  /\ ~Fits(t)
  /\ FailFast("full")

-------------------------------------------------------------------------------
\* EnsureCapacity: the capacity to create follows from the head of the moment.
EnsureCapacity(t) ==
  LET desired == NextCapacity(blocks[head].capacity, MinCapacity(t))
  IN /\ At(t, "ensure")
     /\ \/ desired = {} /\ FailFast("policy")
        \/ /\ \E c \in desired : value' = [value EXCEPT ![t] = c]
           /\ Goto(t, "grow")
           /\ UNCHANGED <<growth, blocks, chainVars, stats, failure,
                          request, block, observed, ranges>>

\* Mutant: the state is tested, but not swapped.
BeginGrowUnmarked(t) ==
  /\ At(t, "grow")
  /\ Goto(t, IF grow_state = "idle" THEN "create" ELSE "wait")
  /\ UNCHANGED <<growth, blocks, chainVars, stats, failure, callVars, ranges>>

\* The compare-and-swap of grow_state_: one thread grows, the others wait.
BeginGrow(t) ==
  /\ At(t, "grow")
  /\ Goto(t, IF grow_state = "idle" THEN "create" ELSE "wait")
  /\ grow_state' = "growing"
  /\ UNCHANGED <<growth, blocks, head, total_capacity, block_count, stats, failure,
                 callVars, ranges>>

CreateBlock(t) ==
  /\ At(t, "create")
  /\ \E base \in Bases : blocks' = Append(blocks, NewBlock(value[t], base))
  /\ block' = [block EXCEPT ![t] = Len(blocks) + 1]
  /\ Goto(t, "publish")
  /\ UNCHANGED <<growth, chainVars, stats, failure, request, observed, value, ranges>>

\* There is no memory: the state is idle again before the process is aborted.
CreateFails(t) ==
  /\ At(t, "create")
  /\ grow_state' = "idle"
  /\ failure' = "memory"
  /\ UNCHANGED <<growth, blocks, head, total_capacity, block_count, stats, pc,
                 callVars, ranges>>

\* Mutant: the new block does not lead to the old ones.
PublishUnlinked(t) ==
  /\ At(t, "publish")
  /\ head' = block[t]
  /\ Goto(t, "count")
  /\ UNCHANGED <<growth, blocks, grow_state, total_capacity, block_count, stats, failure,
                 callVars, ranges>>

\* PublishBlock: the block is pushed onto the chain ...
PublishBlock(t) ==
  /\ At(t, "publish")
  /\ blocks' = [blocks EXCEPT ![block[t]].next = head]
  /\ head' = block[t]
  /\ Goto(t, "count")
  /\ UNCHANGED <<growth, grow_state, total_capacity, block_count, stats, failure,
                 callVars, ranges>>

\* ... and counted.
CountBlock(t) ==
  /\ At(t, "count")
  /\ total_capacity' = total_capacity + blocks[block[t]].capacity
  /\ block_count' = block_count + 1
  /\ Goto(t, "release")
  /\ UNCHANGED <<growth, blocks, head, grow_state, stats, failure, callVars, ranges>>

EndGrow(t) ==
  /\ At(t, "release")
  /\ grow_state' = "idle"
  /\ Goto(t, "reload")
  /\ UNCHANGED <<growth, blocks, head, total_capacity, block_count, stats, failure,
                 callVars, ranges>>

WaitForGrow(t) ==
  /\ At(t, "wait")
  /\ grow_state # "growing"
  /\ Goto(t, "check")
  /\ UNCHANGED <<growth, blocks, chainVars, stats, failure, callVars, ranges>>

\* Who waited is content with a head that could hold its request.
CheckHead(t) ==
  /\ At(t, "check")
  /\ IF blocks[head].capacity >= MinCapacity(t)
     THEN /\ Goto(t, "reload")
          /\ UNCHANGED <<growth, blocks, chainVars, stats, failure, callVars, ranges>>
     ELSE FailFast("small")

ReloadHead(t) ==
  /\ At(t, "reload")
  /\ LoadHead(t)
  /\ Goto(t, "again")
  /\ UNCHANGED <<growth, blocks, chainVars, stats, failure, request, value, ranges>>

-------------------------------------------------------------------------------
CountAllocation(t) ==
  /\ At(t, "reserved")
  /\ stats' = [allocated |-> stats.allocated + request[t].bytes, count |-> stats.count + 1,
               waste |-> stats.waste + value[t], peak |-> stats.peak]
  /\ value' = [value EXCEPT ![t] = stats.allocated + request[t].bytes]
  /\ observed' = [observed EXCEPT ![t] = stats.peak]
  /\ Goto(t, "peak")
  /\ UNCHANGED <<growth, blocks, chainVars, failure, request, block, ranges>>

\* do_allocate returns, and its locals are gone.
Return(t) ==
  /\ Goto(t, "idle")
  /\ request' = [request EXCEPT ![t] = NoRequest]
  /\ block' = [block EXCEPT ![t] = NoBlock]
  /\ observed' = [observed EXCEPT ![t] = 0]
  /\ value' = [value EXCEPT ![t] = 0]

WithPeak(peak) ==
  [allocated |-> stats.allocated, count |-> stats.count, waste |-> stats.waste, peak |-> peak]

\* The loop of AccumulatePeak: its compare-and-swap fails, or nothing is left
\* to do.
AccumulatePeak(t) ==
  /\ At(t, "peak")
  /\ IF value[t] > observed[t] /\ stats.peak # observed[t]
     THEN /\ observed' = [observed EXCEPT ![t] = stats.peak]
          /\ UNCHANGED <<stats, pc, request, block, value>>
     ELSE /\ stats' = IF value[t] > observed[t] THEN WithPeak(value[t]) ELSE stats
          /\ Return(t)
  /\ UNCHANGED <<growth, blocks, chainVars, failure, ranges>>

\* Mutant: the head still leads to a freed block.
ResetKeepingHead ==
  /\ Running
  /\ Active = {}
  /\ \E base \in Bases : blocks' = <<NewBlock(InitialCapacity, base)>>
  /\ total_capacity' = InitialCapacity
  /\ block_count' = 1
  /\ stats' = [allocated |-> 0, count |-> 0, waste |-> 0, peak |-> stats.peak]
  /\ ranges' = {}
  /\ UNCHANGED <<growth, head, grow_state, failure, pc, callVars>>

\* Reset, which must not run beside an allocation.  It keeps the peak.
Reset ==
  /\ Running
  /\ Active = {}
  /\ \E base \in Bases : blocks' = <<NewBlock(InitialCapacity, base)>>
  /\ head' = 1
  /\ total_capacity' = InitialCapacity
  /\ block_count' = 1
  /\ stats' = [allocated |-> 0, count |-> 0, waste |-> 0, peak |-> stats.peak]
  /\ ranges' = {}
  /\ UNCHANGED <<growth, grow_state, failure, pc, callVars>>

\* There is no memory for the new first block (ROSCRAFT_VERIFY).
ResetFails ==
  /\ Running
  /\ Active = {}
  /\ FailFast("memory")

\* Nothing runs in a process that was aborted.
Aborted == ~Running /\ UNCHANGED vars

Step(t) ==
  \/ Reserve(t) \/ Reload(t) \/ FirstFails(t) \/ SecondFails(t)
  \/ EnsureCapacity(t) \/ BeginGrow(t) \/ CreateBlock(t) \/ CreateFails(t)
  \/ PublishBlock(t) \/ CountBlock(t) \/ EndGrow(t)
  \/ WaitForGrow(t) \/ CheckHead(t) \/ ReloadHead(t)
  \/ CountAllocation(t) \/ AccumulatePeak(t)

Next ==
  \/ \E t \in Threads : Step(t) \/ \E r \in Requests : Allocate(t, r)
  \/ Reset \/ ResetFails
  \/ Aborted

\* The threads run; nobody has to allocate or to reset.
Spec == Init /\ [][Next]_vars /\ \A t \in Threads : WF_vars(Step(t))

-------------------------------------------------------------------------------
\* No two threads are given the same memory, and nobody memory beyond the end
\* of a block, whoever stores the offset between a load and its
\* compare-and-swap.
NoOverlap ==
  /\ \A r \in ranges : r.to <= blocks[r.block].capacity
  /\ \A r, s \in ranges : r # s /\ r.block = s.block => r.to <= s.from \/ s.to <= r.from

Growing == {"create", "publish", "count", "release"}

\* "A single thread allocates and publishes a new block" (the class comment):
\* also when several find the block full at once, or one after the other.
SingleGrower ==
  Running => \A t, u \in Threads : pc[t] \in Growing /\ pc[u] \in Growing => t = u

\* The blocks that Reset and the destructor free: those in every set that has
\* the head and, with a block, the one that it leads to.
Leads(S) == head \in S /\ \A b \in S : blocks[b].next = NoBlock \/ blocks[b].next \in S
Chain == {b \in DOMAIN blocks : \A S \in SUBSET DOMAIN blocks : Leads(S) => b \in S}

\* No block is leaked, and TotalCapacity and BlockCount describe the chain
\* whenever nobody is growing it.
ChainCounted ==
  Running /\ grow_state = "idle" =>
    /\ Chain = DOMAIN blocks
    /\ block_count = Cardinality(Chain)
    /\ total_capacity = Cardinality(Units([b \in DOMAIN blocks |-> blocks[b].capacity]))

\* When no allocation is under way the statistics explain every unit of space
\* that is gone from the blocks.
SpaceAccounted ==
  Active = {} =>
    stats.allocated + stats.waste = Cardinality(Units([b \in DOMAIN blocks |-> blocks[b].offset]))

\* The peak is never below what is allocated, however the threads that raise
\* it overtake one another.
PeakCovers == Active = {} => stats.peak >= stats.allocated

\* A thread that allocates alone is never refused after a growth: if it is,
\* another thread was allocating or took space of the new block.
RefusedByOthers ==
  failure \in {"small", "full"} =>
    \E t, u \in Threads :
      /\ t # u
      /\ pc[t] \in {"check", "again"}
      /\ pc[u] # "idle" \/ \E r \in ranges : r.thread = u /\ r.block = head

\* The books of the arena balance, and nobody is refused without a cause.
ArenaAccounts == ChainCounted /\ SpaceAccounted /\ PeakCovers /\ RefusedByOthers

\* Every allocation ends, as there are MaxAllocations of them: nobody waits for
\* ever for a growth, or is overtaken for ever.
Settled == Running => Active = {}

\* "Growing arena so threads never exhaust capacity" (the test of concurrent
\* allocations): an arena that can grow refuses nobody.
NeverExhausted == failure \notin {"small", "full"}
===============================================================================
