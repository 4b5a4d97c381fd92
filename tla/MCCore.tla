-------------------------------- MODULE MCCore --------------------------------
(***************************************************************************)
(* The allocators, the containers and the queues of the core, on small     *)
(* instances, one of them per behaviour: `focus' names it, the others stay *)
(* as they began.  The allocators, references, queues, the set and the     *)
(* buffer of callables are extended, as theorems are stated with their     *)
(* names; the unit is half of kDefaultAlignment, so that a buffer begins   *)
(* at an even address, which an alignment of four may not accept.          *)
(***************************************************************************)
EXTENDS ArenaAlloc, PoolAllocator, StackAllocator, FreeListAllocator, RefCounted,
  CommandQueue, SparseSet, InlineCallableBuffer, TLC

CONSTANTS
  Foci,              \* the parts that are checked
  None, Raw, Lost,
  o1, o2             \* objects that are shared

VARIABLES
  focus,
  \* TypedBufferArray, StaticString, HandlerMap
  array, elements, data_, size_, string, heap, storage_, own, told

array_vars    == <<array, elements>>
string_vars   == <<data_, size_, string>>
map_vars      == <<heap, storage_, own, told>>
allocator_vars == <<pool_vars, stack_vars, list_vars, rc_vars>>
container_vars == <<set_vars, array_vars, string_vars, map_vars, callable_vars, queue_vars>>
CoreVars == <<focus, vars, allocator_vars, container_vars>>

ArenaRequests == {[bytes |-> 2, alignment |-> 1], [bytes |-> 2, alignment |-> 4]}
SmallRequests == {[bytes |-> 2, alignment |-> 1]}
AllGrowths ==
  {[mode |-> "fixed", step |-> 1, max_capacity |-> 64],
   [mode |-> "linear", step |-> 3, max_capacity |-> 64],
   [mode |-> "geometric", step |-> 1, max_capacity |-> 64]}
LinearGrowth == {[mode |-> "linear", step |-> 4, max_capacity |-> 64]}

TwoMore(n) == n + 2
Doubled(n) == 2 * n
NoMore(n) == 0
\* One thread that allocates and one that frees; here two that allocate, of which
\* the second may grow the pool by what the first left behind, and two that do both.
GrowingPool == INSTANCE PoolAllocator WITH
  Allocating <- {"a", "f"}, Freeing <- {}, InitialBlocks <- 1, Grown <- Doubled
SharedPool == INSTANCE PoolAllocator WITH
  Allocating <- {"a", "f"}, Freeing <- {"a", "f"}, InitialBlocks <- 3, Grown <- NoMore

Enough(c, n) == IF n <= c THEN c ELSE n
StackSizes == {[size |-> 1, alignment |-> 1], [size |-> 3, alignment |-> 2]}

Chunked(c, n) == Min({MaxCapacity, c + 16 * ((n - c + 15) \div 16)})
ListRequests == {[size |-> s, alignment |-> 2] : s \in {2, 5}} \cup {[size |-> 3, alignment |-> 8]}

MakerOf(o) == IF o = o1 THEN "a" ELSE "b"
NoMember(o) == {}
MemberOf(o) == IF o = o1 THEN {o2} ELSE {}
Itself(a) == a
\* What std::pmr::polymorphic_allocator selects for a copy.
Default(a) == "default"
\* Three handles of one object; two handles of two objects, of which one has a
\* handle of the other.
ThreeHandles == {<<"t1", 1>>, <<"t1", 2>>, <<"t2", 1>>}
LinkedRefs == INSTANCE RefCounted WITH
  Locals <- {<<"t1", 1>>, <<"t2", 1>>}, Objects <- {o1, o2}, After <- MemberOf

Sizes == "a" :> 2 @@ "b" :> 3
Array == INSTANCE TypedBufferArray WITH
  Types <- {"a", "b"}, NoType <- None, ElementSize <- Sizes, Trivial <- {"a"}, Values <- {"v", "w"}, MaxSize <- 3
Text == INSTANCE StaticString WITH
  StrCapacity <- 4, Chars <- {"a", "b"}, CharT <- "null", Texts <- {<<>>, <<"a">>, <<"b", "a">>, <<"a", "b", "b">>},
  OwnViews <- {"append"}

\* The map of a registry, and one whose callers use all that it offers.
Handlers == INSTANCE HandlerMap WITH
  Types <- {"a", "b", "c"}, NoType <- None, ElementSize <- Sizes @@ "c" :> 3, Copyable <- {}, Values <- {"v", "w"},
  NoValue <- None, IsRegistry <- TRUE, MaxBlocks <- 4
Map == INSTANCE HandlerMap WITH
  Types <- {"a", "b"}, NoType <- None, ElementSize <- Sizes, Copyable <- {"b"}, Values <- {"v"},
  NoValue <- None, IsRegistry <- FALSE, MaxBlocks <- 3

Callable(s, a, t) == [size |-> s, alignment |-> a, trivial |-> t]
CallableKinds == {Callable(1, 1, TRUE), Callable(5, 4, FALSE), Callable(3, 2, FALSE)}

-----------------------------------------------------------------------------
\* The choices of Init are left to the part in focus.
CoreInit ==
  /\ focus \in Foci
  /\ Init
  /\ \/ focus = "arena"
     \/ growth = (CHOOSE g \in Growths : TRUE) /\ blocks[1].base = (CHOOSE b \in Bases : TRUE)
  /\ CASE focus = "growing pool" -> GrowingPool!PoolInit
       [] focus = "shared pool" -> SharedPool!PoolInit
       [] OTHER -> PoolInit
  /\ ListInit /\ (focus = "free list" \/ \E r \in regions_ : r.at = 0)
  /\ Text!StringInit /\ (focus = "string" \/ string = <<>>)
  /\ StackInit /\ (IF focus = "linked references" THEN LinkedRefs!RefInit ELSE RefInit)
  /\ IF focus = "handlers" THEN Handlers!Init ELSE Map!Init
  /\ SetInit /\ Array!Init /\ CallablesInit /\ QueuesInit

CoreNext ==
  /\ UNCHANGED focus
  /\ \/ focus = "arena" /\ Next /\ UNCHANGED <<allocator_vars, container_vars>>
     \/ /\ UNCHANGED <<vars, container_vars>>
        /\ \/ focus = "pool" /\ PoolNext /\ UNCHANGED <<stack_vars, list_vars, rc_vars>>
           \/ focus = "growing pool" /\ GrowingPool!PoolNext /\ UNCHANGED <<stack_vars, list_vars, rc_vars>>
           \/ focus = "shared pool" /\ SharedPool!PoolNext /\ UNCHANGED <<stack_vars, list_vars, rc_vars>>
           \/ focus = "stack" /\ StackNext /\ UNCHANGED <<pool_vars, list_vars, rc_vars>>
           \/ focus = "free list" /\ ListNext /\ UNCHANGED <<pool_vars, stack_vars, rc_vars>>
           \/ focus = "references" /\ RefNext /\ UNCHANGED <<pool_vars, stack_vars, list_vars>>
           \/ focus = "linked references" /\ LinkedRefs!RefNext /\ UNCHANGED <<pool_vars, stack_vars, list_vars>>
     \/ /\ UNCHANGED <<vars, allocator_vars>>
        /\ \/ /\ UNCHANGED map_vars
              /\ \/ focus = "set" /\ SetNext /\ UNCHANGED <<array_vars, string_vars, callable_vars, queue_vars>>
                 \/ focus = "array" /\ Array!Next /\ UNCHANGED <<set_vars, string_vars, callable_vars, queue_vars>>
                 \/ focus = "string" /\ Text!StringNext /\ UNCHANGED <<set_vars, array_vars, callable_vars, queue_vars>>
                 \/ focus = "callables" /\ CallablesNext /\ UNCHANGED <<set_vars, array_vars, string_vars, queue_vars>>
                 \/ focus = "queue" /\ QueuesNext /\ UNCHANGED <<set_vars, array_vars, string_vars, callable_vars>>
           \/ /\ UNCHANGED <<set_vars, array_vars, string_vars, callable_vars, queue_vars>>
              /\ \/ focus = "handlers" /\ Handlers!MapsNext
                 \/ focus = "map" /\ Map!MapsNext

CoreSpec == CoreInit /\ [][CoreNext]_CoreVars

-----------------------------------------------------------------------------
(* The properties of the parts; those that are extended have their own.    *)

\* TypedBufferArray and StaticString hold what a sequence and a string would hold;
\* a map of typed buffers keeps its objects, where they are, and the handlers of a
\* registry can be used.
ContainersTell ==
  /\ Array!ArrayIsSequence /\ Text!TextIsString
  /\ IF focus = "handlers" THEN Handlers!MapHoldsObjects /\ Handlers!RegisteredHandlersAnswer
     ELSE Map!MapHoldsObjects
===============================================================================
