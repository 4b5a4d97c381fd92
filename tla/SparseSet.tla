-------------------------------- MODULE SparseSet ------------------------------
(***************************************************************************)
(* container::SparseSet (container/sparse_set.hpp): values packed in       *)
(* dense_, found through sparse_, which maps an index to its place there;  *)
(* reverse_map_ maps a place back.  Memory may run out at any growth of a  *)
(* vector.                                                                 *)
(***************************************************************************)
EXTENDS Integers, Sequences, FiniteSets

CONSTANTS
  Indices,       \* the indices used, 0 .. n
  SetValues,
  NoValue,
  kInvalidDenseIndex,
  MaxDense       \* bound on dense_, which failing insertions may lengthen

(* No place in dense_ has the number that says there is none.              *)
ASSUME SparseAssumption ==
  /\ Indices \subseteq Nat
  /\ NoValue \notin SetValues /\ kInvalidDenseIndex \notin Nat

VARIABLES
  sparse_,       \* index + 1 -> place in dense_, or kInvalidDenseIndex
  dense_,
  reverse_map_,
  content        \* history: what a map from indices to values would hold

set_vars == <<sparse_, dense_, reverse_map_, content>>

SetInit == sparse_ = <<>> /\ dense_ = <<>> /\ reverse_map_ = <<>>
        /\ content = [i \in Indices |-> NoValue]

\* A stale entry of sparse_ is told by its way back.
HasIndex(i) ==
  /\ i < Len(sparse_)
  /\ LET d == sparse_[i + 1]
     IN /\ d # kInvalidDenseIndex
        /\ d < Len(dense_) /\ d < Len(reverse_map_)
        /\ reverse_map_[d + 1] = i

Resized(n) == [j \in 1 .. n |-> IF j <= Len(sparse_) THEN sparse_[j] ELSE kInvalidDenseIndex]

\* sparse_ when it has room for an index.
ReserveSparse(i) == IF i < Len(sparse_) THEN sparse_ ELSE Resized(i + 1)

ReplaceValue(i, v) ==
  /\ HasIndex(i)
  /\ dense_' = [dense_ EXCEPT ![sparse_[i + 1] + 1] = v]
  /\ content' = [content EXCEPT ![i] = v]
  /\ UNCHANGED <<sparse_, reverse_map_>>

InsertValue(i, v) ==
  /\ ~HasIndex(i) /\ Len(dense_) < MaxDense
  /\ sparse_' = [ReserveSparse(i) EXCEPT ![i + 1] = Len(dense_)]
  /\ dense_' = Append(dense_, v)
  /\ reverse_map_' = Append(reverse_map_, i)
  /\ content' = [content EXCEPT ![i] = v]

\* The growth that fails is that of dense_, or that of reverse_map_ after it.
GrownUpTo(v) == {dense_} \cup (IF Len(dense_) < MaxDense THEN {Append(dense_, v)} ELSE {})

\* The version that copies writes sparse_ last: what is left of it when a
\* growth fails is its size.
InsertCopyFails(i, v) ==
  /\ ~HasIndex(i)
  /\ sparse_' = ReserveSparse(i)
  /\ dense_' \in GrownUpTo(v)
  /\ UNCHANGED <<reverse_map_, content>>

\* Those that move or construct write it first, and leave an entry without a
\* value.
EmplaceFails(i, v) ==
  /\ ~HasIndex(i)
  /\ sparse_' = [ReserveSparse(i) EXCEPT ![i + 1] = Len(dense_)]
  /\ dense_' \in GrownUpTo(v)
  /\ UNCHANGED <<reverse_map_, content>>

\* Mutant: the value that moves is looked for where it was.
NotRelinked(i, last) == sparse_

\* sparse_ after the last value has taken the place of the one of i.
Relinked(i, last) == [sparse_ EXCEPT ![last + 1] = sparse_[i + 1]]

\* The index of the last value: where reverse_map_ is shorter than dense_ it is
\* read from behind its end.
LastIndices ==
  IF Len(dense_) <= Len(reverse_map_) THEN {reverse_map_[Len(dense_)]}
  ELSE {j \in Indices : j < Len(sparse_)}

\* The last value takes the place of the one that goes.
RemoveIndex(i) ==
  /\ HasIndex(i)
  /\ LET d == sparse_[i + 1]
         n == Len(dense_)
     IN \E last \in LastIndices :
        /\ dense_' = SubSeq([dense_ EXCEPT ![d + 1] = dense_[n]], 1, n - 1)
        /\ reverse_map_' = SubSeq([reverse_map_ EXCEPT ![d + 1] = last], 1, Len(reverse_map_) - 1)
        /\ sparse_' = [Relinked(i, last) EXCEPT ![i + 1] = kInvalidDenseIndex]
  /\ content' = [content EXCEPT ![i] = NoValue]

ClearSet ==
  /\ dense_' = <<>> /\ reverse_map_' = <<>>
  /\ sparse_' = [j \in 1 .. Len(sparse_) |-> kInvalidDenseIndex]
  /\ content' = [i \in Indices |-> NoValue]

ShrinkToFit ==
  /\ sparse_' = IF reverse_map_ = <<>> THEN <<>>
                ELSE Resized(1 + CHOOSE m \in Indices :
                       /\ \E j \in DOMAIN reverse_map_ : reverse_map_[j] = m
                       /\ \A j \in DOMAIN reverse_map_ : reverse_map_[j] <= m)
  /\ UNCHANGED <<dense_, reverse_map_, content>>

SetNext ==
  \/ \E i \in Indices, v \in SetValues :
       ReplaceValue(i, v) \/ InsertValue(i, v) \/ InsertCopyFails(i, v) \/ EmplaceFails(i, v)
  \/ \E i \in Indices : RemoveIndex(i)
  \/ ClearSet \/ ShrinkToFit

SetSpec == SetInit /\ [][SetNext]_set_vars

-----------------------------------------------------------------------------
\* What TryGet of an index gives.
TryGet(i) == IF HasIndex(i) THEN dense_[sparse_[i + 1] + 1] ELSE NoValue

\* The three vectors are a map: each index has the value last inserted for it
\* and not removed since, and the values that iteration sees (dense_) are those
\* of the indices, once each, however often values changed their places, and
\* also after insertions that ran out of memory.
SetIsMap ==
  /\ \A i \in Indices : TryGet(i) = content[i]
  /\ Len(dense_) = Cardinality({i \in Indices : content[i] # NoValue})
  /\ Len(reverse_map_) = Len(dense_)

\* Whatever insertions failed, dense_ and reverse_map_ of one length are a map:
\* what a failed growth leaves in sparse_ is told from the entries of values,
\* and a set that has lost the growth of reverse_map_ shows it by its lengths,
\* whatever is inserted and removed then.
SetSurvives ==
  /\ Len(reverse_map_) <= Len(dense_)
  /\ Len(reverse_map_) = Len(dense_) => SetIsMap

===============================================================================
