----------------------------- MODULE RefCounted -----------------------------
(***************************************************************************)
(* AtomicRefCounted and ArcFromThis (RefCounted and RcFromThis are the     *)
(* same code with a plain counter): handles that share an object whose     *)
(* count is inside it, and free it through the allocator of the last       *)
(* handle.  Every thread works on handles of its own; what a call does is  *)
(* queued in todo as the steps another thread can come between.            *)
(***************************************************************************)
EXTENDS Naturals, Sequences, FiniteSets

CONSTANTS RefThreads,
          Locals,          \* handles of the threads: pairs <<thread, number>>
          Objects, NoObject,
          Maker(_),        \* the allocator an object is made with
          After(_),        \* the objects the member handle of an object may point to
          Allocators, DefaultAllocator, NoAllocator,
          Selected(_),     \* select_on_container_copy_construction
          Propagates,      \* propagate_on_container_copy/move_assignment
          FromMember       \* a handle may be assigned from a member of the
                           \* object that it alone keeps alive

ASSUME RefAssumption ==
  /\ IsFiniteSet(Locals) /\ IsFiniteSet(Objects) /\ Locals \cap Objects = {} /\ NoObject \notin Objects
  /\ \A h \in Locals : h[1] \in RefThreads
  /\ {DefaultAllocator, NoAllocator} \subseteq Allocators
  /\ \A o \in Objects : Maker(o) \in Allocators
  /\ \A a \in Allocators : Selected(a) \in Allocators

VARIABLES handles, \* of threads (<<thread, slot>>) and of objects (their member)
          objects, \* count and fate of each object
          raw,     \* pointers handed out by Release()
          todo     \* per thread: the steps left of its call

rc_vars == <<handles, objects, raw, todo>>

Places == Locals \cup Objects

Absent == [ptr |-> NoObject, alloc |-> NoAllocator]  \* not constructed
NullHandle(a) == [ptr |-> NoObject, alloc |-> a]

RefInit ==
  /\ handles = [h \in Places |-> Absent]
  /\ objects = [o \in Objects |-> [fate |-> "unmade", count |-> 0, freed_by |-> NoAllocator]]
  /\ raw = {} /\ todo = [t \in RefThreads |-> <<>>]

RefStep(op, at, from, arg) == [op |-> op, at |-> at, from |-> from, arg |-> arg]
Dec(h) == RefStep("dec", h, h, NoObject)
Share(h, from, alloc) == RefStep("share", h, from, alloc)  \* pointer, allocator, AddRef
MovePtr(h, from) == RefStep("move", h, from, NoObject)
Become(h, alloc) == RefStep("become", h, h, alloc)
Destroy(h, o)    == RefStep("destroy", h, h, o)
DeallocateObject(h, o) == RefStep("deallocate", h, h, o)

(* A thread uses its own handles and the members of objects these point to. *)
Own(t) == {h \in Locals : h[1] = t}
Mine(t) == Own(t) \cup ({handles[h].ptr : h \in Own(t)} \ {NoObject})
Idle(t) == todo[t] = <<>>
InUse(h) == \E t \in RefThreads : \E i \in DOMAIN todo[t] : h \in {todo[t][i].at, todo[t][i].from}
Constructed(h) == handles[h].alloc # NoAllocator

(* The members of an object are shared with whoever shares the object: as  *)
(* for any data, the users have to keep out of one another's way.          *)
Usable(t, h) == h \in Mine(t) /\ Constructed(h) /\ ~InUse(h)

Begin(t, steps) == todo' = [todo EXCEPT ![t] = steps] /\ UNCHANGED <<handles, objects, raw>>

MakeArcWith(t, h, o) ==
  /\ Idle(t) /\ h \in Own(t) /\ handles[h] = Absent /\ ~InUse(h)
  /\ objects[o].fate = "unmade"
  /\ objects' = [objects EXCEPT ![o] = [fate |-> "alive", count |-> 1, freed_by |-> NoAllocator]]
  /\ handles' = [handles EXCEPT ![h] = [ptr |-> o, alloc |-> Maker(o)], ![o] = NullHandle(DefaultAllocator)]
  /\ UNCHANGED <<raw, todo>>

(* A new handle, perhaps for another thread that does not run with it yet. *)
CopyConstruct(t, h, from) ==
  /\ Idle(t) /\ h \in Locals /\ handles[h] = Absent /\ ~InUse(h) /\ Usable(t, from)
  /\ Begin(t, <<Share(h, from, Selected(handles[from].alloc))>>)

MoveConstruct(t, h, from) ==
  /\ Idle(t) /\ h \in Own(t) /\ handles[h] = Absent /\ ~InUse(h) /\ Usable(t, from)
  /\ handles' = [handles EXCEPT ![h] = handles[from], ![from].ptr = NoObject]
  /\ UNCHANGED <<objects, raw, todo>>

(* What a member may hold keeps the objects free of cycles, which no       *)
(* reference count frees.                                                  *)
FitsMember(h, from) == h \in Objects => handles[from].ptr \in After(h) \cup {NoObject}

Assigned(h, from) == IF Propagates THEN handles[from].alloc ELSE handles[h].alloc

(* A place inside the object that only `h` keeps alive goes with it; the    *)
(* thread needs another handle of that object.                             *)
SourceKept(t, h, from) ==
  from \notin Objects \/ from # handles[h].ptr \/ \E other \in Own(t) \ {h} : handles[other].ptr = from
SafeSource(t, h, from) == FromMember \/ SourceKept(t, h, from)

\* Mutant: without the test for the handle itself.
CopyAssignAlways(t, h, from) ==
  /\ Idle(t) /\ Usable(t, h) /\ Usable(t, from) /\ FitsMember(h, from) /\ SafeSource(t, h, from)
  /\ Begin(t, <<Dec(h), Share(h, from, Assigned(h, from))>>)

CopyAssign(t, h, from) ==
  /\ Idle(t) /\ Usable(t, h) /\ Usable(t, from) /\ FitsMember(h, from) /\ SafeSource(t, h, from)
  /\ h # from
  /\ Begin(t, <<Dec(h), Share(h, from, Assigned(h, from))>>)

MoveAssign(t, h, from) ==
  /\ Idle(t) /\ Usable(t, h) /\ Usable(t, from) /\ FitsMember(h, from) /\ SafeSource(t, h, from)
  /\ h # from
  /\ Begin(t, <<Dec(h), MovePtr(h, from)>>)

ResetHandle(t, h) == Idle(t) /\ Usable(t, h) /\ handles[h].ptr # NoObject /\ Begin(t, <<Dec(h), Become(h, handles[h].alloc)>>)

EndOfScope(t, h) == Idle(t) /\ Usable(t, h) /\ h \in Locals /\ Begin(t, <<Dec(h), Become(h, NoAllocator)>>)

(* The pointer leaves the handle with its count: its new owner is the      *)
(* caller.                                                                 *)
Release(t, h) ==
  /\ Idle(t) /\ Usable(t, h) /\ handles[h].ptr # NoObject /\ handles[h].ptr \notin raw
  /\ raw' = raw \cup {handles[h].ptr}
  /\ handles' = [handles EXCEPT ![h].ptr = NoObject]
  /\ UNCHANGED <<objects, todo>>

Then(t, steps) == todo' = [todo EXCEPT ![t] = steps \o Tail(@)]

(* DecRef: fetch_sub, and the thread that brought the count to zero        *)
(* destroys the object, whose member handle does the same, and gives its   *)
(* memory back.                                                            *)
Decremented(t, h) ==
  LET o == handles[h].ptr IN
  IF o = NoObject THEN Then(t, <<>>) /\ UNCHANGED objects
  ELSE /\ objects' = [objects EXCEPT ![o].count = @ - 1]
       /\ Then(t, IF objects[o].count = 1 THEN <<Destroy(h, o)>> ELSE <<>>)

AllocatorOf(h) == handles[h].alloc

Moved(h, from) == [handles EXCEPT ![h] = [ptr |-> handles[from].ptr, alloc |-> Assigned(h, from)],
                                 ![from].ptr = NoObject]

Continue(t) ==
  /\ ~Idle(t)
  /\ UNCHANGED raw
  /\ LET now == Head(todo[t]) h == now.at p == handles[now.from].ptr IN
     \/ now.op = "dec" /\ Decremented(t, h) /\ UNCHANGED handles
     \/ /\ now.op = "destroy"
        /\ objects' = [objects EXCEPT ![now.arg].fate = "destroyed"]
        /\ Then(t, <<Dec(now.arg), DeallocateObject(h, now.arg)>>)
        /\ UNCHANGED handles
     \/ /\ now.op = "deallocate"
        /\ objects' = [objects EXCEPT ![now.arg].fate = "freed", ![now.arg].freed_by = AllocatorOf(h)]
        /\ handles' = [handles EXCEPT ![h].ptr = NoObject, ![now.arg] = Absent]
        /\ Then(t, <<>>)
     \/ /\ now.op = "share"
        /\ handles' = [handles EXCEPT ![h] = [ptr |-> p, alloc |-> now.arg]]
        /\ objects' = IF p = NoObject THEN objects ELSE [objects EXCEPT ![p].count = @ + 1]
        /\ Then(t, <<>>)
     \/ now.op = "move" /\ handles' = Moved(h, now.from) /\ Then(t, <<>>) /\ UNCHANGED objects
     \/ now.op = "become" /\ handles' = [handles EXCEPT ![h] = NullHandle(now.arg)] /\ Then(t, <<>>) /\ UNCHANGED objects

RefNext ==
  \E t \in RefThreads :
    \/ Continue(t)
    \/ \E h \in Places :
         \/ \E o \in Objects : MakeArcWith(t, h, o)
         \/ \E from \in Places : \/ CopyConstruct(t, h, from) \/ MoveConstruct(t, h, from)
                                 \/ CopyAssign(t, h, from) \/ MoveAssign(t, h, from)
         \/ ResetHandle(t, h) \/ EndOfScope(t, h) \/ Release(t, h)

RefSpec == RefInit /\ [][RefNext]_rc_vars
----------------------------------------------------------------------------
Fate(h) == IF h \in DOMAIN objects THEN objects[h].fate ELSE "alive"

(* No step works on a handle inside an object that is gone, and none       *)
(* counts, destroys or frees an object that is gone, whatever the threads  *)
(* do with their handles of it at the same time.                           *)
NoUseAfterFree ==
  \A t \in DOMAIN todo : ~Idle(t) =>
    LET now == Head(todo[t]) o == handles[now.from].ptr IN
    /\ Fate(now.from) # "freed" /\ Fate(now.at) # "freed"
    /\ now.op \in {"dec", "share", "move", "destroy"} /\ o # NoObject => objects[o].fate = "alive"

Owners(o) == Cardinality({h \in DOMAIN handles : handles[h].ptr = o}) + Cardinality({o} \cap raw)

(* When no call is under way, an object lives exactly if something owns it *)
(* and its count is the number of its owners.                              *)
LivesWhileOwned ==
  (\A t \in DOMAIN todo : Idle(t)) =>
    \A o \in DOMAIN objects : objects[o].fate # "unmade" =>
      /\ objects[o].count = Owners(o)
      /\ objects[o].fate = IF Owners(o) > 0 THEN "alive" ELSE "freed"

(* An object lives as long as it has owners.                               *)
SharedObjectsLive == NoUseAfterFree /\ LivesWhileOwned

(* The memory of an object goes back to the allocator it came from.        *)
FreedByMaker == \A o \in DOMAIN objects : objects[o].freed_by \in {NoAllocator, Maker(o)}

(* What a step has to keep to for the one and for the other: an assignment *)
(* takes from a place that outlives what the handle gives up, and a copy   *)
(* or an assignment leaves the handle with the allocator that its pointer  *)
(* came with, which the traits of the allocator decide.                    *)
SourcesKept ==
  \A t \in RefThreads, h \in Places, from \in Places :
    CopyAssign(t, h, from) \/ MoveAssign(t, h, from) => SourceKept(t, h, from)

AllocatorsKept ==
  \A t \in RefThreads, h \in Places, from \in Places : handles[from].ptr # NoObject =>
    /\ CopyConstruct(t, h, from) => Selected(handles[from].alloc) = handles[from].alloc
    /\ CopyAssign(t, h, from) \/ MoveAssign(t, h, from) => Assigned(h, from) = handles[from].alloc
=============================================================================
