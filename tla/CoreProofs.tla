------------------------------ MODULE CoreProofs ------------------------------
(***************************************************************************)
(* Shared handles, sparse sets and buffers of callables: an object lives   *)
(* as long as it has owners, for any threads, handles and objects, members *)
(* that point to other objects included; a sparse set is a map; callables  *)
(* survive what happens to their buffer.                                   *)
(***************************************************************************)
EXTENDS RefCounted, SparseSet, InlineCallableBuffer, FiniteSetTheorems, SequenceTheorems, NaturalsInduction, TLAPS

(***************************************************************************)
(* Calls.  The last step of a call writes the handle it is about; the ones *)
(* before it give up what that handle had, object after object: each       *)
(* object that is to be freed stands in a step of its own, behind the step *)
(* that works on its member.                                               *)
(***************************************************************************)
RefOps == {"dec", "share", "move", "become", "destroy", "deallocate"}
RefSteps == [op : RefOps, at : Places, from : Places, arg : Objects \cup {NoObject} \cup Allocators]

EndOf(q) == q[Len(q)]
StepsOf(q) == {q[i] : i \in DOMAIN q}
DoomedIn(q) == {s.arg : s \in {r \in StepsOf(q) : r.op = "deallocate"}}
DyingIn(q) == IF q # <<>> /\ q[1].op = "destroy" THEN {q[1].arg} ELSE {}
UndecidedIn(q) == IF q # <<>> /\ q[1].op = "dec" THEN {q[1].at} ELSE {}

\* The places whose pointer is given up already, though it is still there.
SpentIn(q) == IF q = <<>> THEN {} ELSE ({EndOf(q).at} \cup DoomedIn(q)) \ UndecidedIn(q)

WellShaped(q) ==
  q # <<>> =>
    /\ EndOf(q).op \in {"share", "move", "become"}
    /\ EndOf(q).op = "become" <=> EndOf(q).from = EndOf(q).at
    /\ EndOf(q).op # "move" => EndOf(q).arg \in Allocators
    /\ \A i \in 1 .. Len(q) - 1 :
         /\ q[i].op = "deallocate" \/ (i = 1 /\ q[i].op \in {"dec", "destroy"})
         /\ q[i].from = q[i].at
         /\ q[i].at = IF i + 1 = Len(q) THEN EndOf(q).at ELSE q[i + 1].arg
    /\ \A i, j \in 1 .. Len(q) :
         q[i].op = "deallocate" /\ q[j].op = "deallocate" /\ q[i].arg = q[j].arg => i = j

LEMMA SeqTail ==
  ASSUME NEW S, NEW q \in Seq(S), q # <<>>
  PROVE  /\ Len(q) \in Nat \ {0} /\ DOMAIN q = 1 .. Len(q) /\ q[1] \in S /\ Head(q) = q[1] /\ q[Len(q)] \in S
         /\ Tail(q) \in Seq(S) /\ Len(Tail(q)) = Len(q) - 1 /\ <<>> \o Tail(q) = Tail(q)
         /\ \A i \in 1 .. Len(q) - 1 : Tail(q)[i] = q[i + 1]
<1>1. Len(q) \in Nat \ {0} /\ DOMAIN q = 1 .. Len(q) /\ Head(q) = q[1]
  BY EmptySeq, LenProperties, HeadTailProperties
<1>2. q[1] \in S /\ q[Len(q)] \in S
  BY <1>1, ElementOfSeq
<1>3. Tail(q) \in Seq(S) /\ Len(Tail(q)) = Len(q) - 1 /\ \A i \in 1 .. Len(Tail(q)) : Tail(q)[i] = q[i + 1]
  BY HeadTailProperties
<1> QED
  BY <1>1, <1>2, <1>3, ConcatEmptySeq

\* A step, or two, instead of the first one.
LEMMA SeqInstead ==
  ASSUME NEW S, NEW q \in Seq(S), q # <<>>, NEW x \in S, NEW y \in S
  PROVE  /\ <<x>> \o Tail(q) \in Seq(S) /\ Len(<<x>> \o Tail(q)) = Len(q)
         /\ \A i \in 1 .. Len(q) : (<<x>> \o Tail(q))[i] = IF i = 1 THEN x ELSE q[i]
         /\ <<x, y>> \o Tail(q) \in Seq(S) /\ Len(<<x, y>> \o Tail(q)) = Len(q) + 1
         /\ \A i \in 1 .. Len(q) + 1 : (<<x, y>> \o Tail(q))[i] = IF i = 1 THEN x ELSE IF i = 2 THEN y ELSE q[i - 1]
<1>1. Len(q) \in Nat \ {0} /\ Tail(q) \in Seq(S) /\ Len(Tail(q)) = Len(q) - 1 /\ \A i \in 1 .. Len(q) - 1 : Tail(q)[i] = q[i + 1]
  BY SeqTail
<1>2. <<x>> \in Seq(S) /\ Len(<<x>>) = 1 /\ <<x>>[1] = x /\ <<x, y>> \in Seq(S) /\ Len(<<x, y>>) = 2 /\ <<x, y>>[1] = x /\ <<x, y>>[2] = y
  OBVIOUS
<1>3. /\ <<x>> \o Tail(q) \in Seq(S) /\ Len(<<x>> \o Tail(q)) = 1 + Len(Tail(q))
      /\ \A i \in 1 .. 1 + Len(Tail(q)) : (<<x>> \o Tail(q))[i] = IF i <= 1 THEN <<x>>[i] ELSE Tail(q)[i - 1]
  BY <1>1, <1>2, ConcatProperties
<1>4. /\ <<x, y>> \o Tail(q) \in Seq(S) /\ Len(<<x, y>> \o Tail(q)) = 2 + Len(Tail(q))
      /\ \A i \in 1 .. 2 + Len(Tail(q)) : (<<x, y>> \o Tail(q))[i] = IF i <= 2 THEN <<x, y>>[i] ELSE Tail(q)[i - 2]
  BY <1>1, <1>2, ConcatProperties
<1> DEFINE p == <<x>> \o Tail(q)  r == <<x, y>> \o Tail(q)
<1>5. \A i \in 1 .. Len(q) : p[i] = IF i = 1 THEN x ELSE q[i]
  <2> SUFFICES ASSUME NEW i \in 1 .. Len(q) PROVE p[i] = IF i = 1 THEN x ELSE q[i]
    OBVIOUS
  <2> HIDE DEF p
  <2>1. p[i] = IF i <= 1 THEN <<x>>[i] ELSE Tail(q)[i - 1]
    BY <1>1, <1>3 DEF p
  <2>2. i # 1 => i - 1 \in 1 .. Len(q) - 1 /\ i - 1 + 1 = i
    BY <1>1
  <2> QED
    BY <1>1, <1>2, <2>1, <2>2
<1>6. \A i \in 1 .. Len(q) + 1 : r[i] = IF i = 1 THEN x ELSE IF i = 2 THEN y ELSE q[i - 1]
  <2> SUFFICES ASSUME NEW i \in 1 .. Len(q) + 1 PROVE r[i] = IF i = 1 THEN x ELSE IF i = 2 THEN y ELSE q[i - 1]
    OBVIOUS
  <2> HIDE DEF r
  <2>1. r[i] = IF i <= 2 THEN <<x, y>>[i] ELSE Tail(q)[i - 2]
    BY <1>1, <1>4 DEF r
  <2>2. i \notin {1, 2} => i - 2 \in 1 .. Len(q) - 1 /\ i - 2 + 1 = i - 1
    BY <1>1
  <2> QED
    BY <1>1, <1>2, <2>1, <2>2
<1> QED
  BY <1>1, <1>3, <1>4, <1>5, <1>6

LEMMA Between ==
  ASSUME NEW n \in Nat, NEW i \in 1 .. n, i # n
  PROVE  i \in 1 .. n - 1 /\ i + 1 \in 1 .. n /\ i + 1 # 1 /\ (i + 1 # n => i + 1 \in 1 .. n - 1)
OBVIOUS

LEMMA ShapeAt ==
  ASSUME NEW q, WellShaped(q), q # <<>>, NEW i \in 1 .. Len(q) - 1
  PROVE  /\ q[i].op = "deallocate" \/ (i = 1 /\ q[i].op \in {"dec", "destroy"})
         /\ q[i].from = q[i].at
         /\ q[i].at = IF i + 1 = Len(q) THEN EndOf(q).at ELSE q[i + 1].arg
BY Zenon DEF WellShaped

LEMMA ShapeOnce ==
  ASSUME NEW q, WellShaped(q), q # <<>>, NEW i \in 1 .. Len(q), NEW j \in 1 .. Len(q),
         q[i].op = "deallocate", q[j].op = "deallocate", q[i].arg = q[j].arg
  PROVE  i = j
BY Zenon DEF WellShaped

LEMMA ShapeEnd ==
  ASSUME NEW q, WellShaped(q), q # <<>>
  PROVE  /\ EndOf(q).op \in {"share", "move", "become"} /\ (EndOf(q).op = "become" <=> EndOf(q).from = EndOf(q).at)
         /\ EndOf(q).op # "move" => EndOf(q).arg \in Allocators
BY Zenon DEF WellShaped

LEMMA StepsAre ==
  ASSUME NEW q, Len(q) \in Nat \ {0}, DOMAIN q = 1 .. Len(q)
  PROVE  StepsOf(q) = {q[1]} \cup {q[i] : i \in 2 .. Len(q)}
<1>1. 1 .. Len(q) = {1} \cup (2 .. Len(q))
  OBVIOUS
<1> QED
  BY <1>1, Zenon DEF StepsOf

LEMMA CallFacts ==
  ASSUME NEW q \in Seq(RefSteps), q # <<>>, WellShaped(q)
  PROVE  /\ EndOf(q) \in RefSteps /\ q[1] \in RefSteps /\ q[1] \in StepsOf(q) /\ EndOf(q) \in StepsOf(q)
         /\ StepsOf(q) \subseteq RefSteps
         /\ q[1].op \in {"share", "move", "become"} =>
              Len(q) = 1 /\ EndOf(q) = q[1] /\ DoomedIn(q) = {} /\ SpentIn(q) = {q[1].at}
         /\ q[1].op \in {"dec", "destroy", "deallocate"} =>
              Len(q) >= 2 /\ q[1].from = q[1].at /\ q[1].at \in {EndOf(q).at} \cup DoomedIn(q)
         /\ SpentIn(q) = IF q[1].op = "dec" THEN ({EndOf(q).at} \cup DoomedIn(q)) \ {q[1].at}
                         ELSE {EndOf(q).at} \cup DoomedIn(q)
         /\ q[1].op = "deallocate" => q[1].arg \in DoomedIn(q)
<1>1. Len(q) \in Nat \ {0} /\ DOMAIN q = 1 .. Len(q) /\ q[1] \in RefSteps /\ EndOf(q) \in RefSteps
  BY SeqTail DEF EndOf
<1>2. StepsOf(q) \subseteq RefSteps
  BY <1>1, ElementOfSeq DEF StepsOf
<1>3. q[1] \in StepsOf(q) /\ EndOf(q) \in StepsOf(q)
  BY <1>1 DEF StepsOf, EndOf
<1>4. SpentIn(q) = IF q[1].op = "dec" THEN ({EndOf(q).at} \cup DoomedIn(q)) \ {q[1].at} ELSE {EndOf(q).at} \cup DoomedIn(q)
  BY DEF SpentIn, UndecidedIn
<1>5. ASSUME q[1].op \in {"share", "move", "become"}
      PROVE  Len(q) = 1 /\ EndOf(q) = q[1] /\ DoomedIn(q) = {} /\ SpentIn(q) = {q[1].at}
  <2>1. Len(q) = 1
    <3> SUFFICES ASSUME Len(q) # 1 PROVE FALSE
      OBVIOUS
    <3>1. 1 \in 1 .. Len(q) - 1
      BY <1>1
    <3> QED
      BY <3>1, <1>5, ShapeAt
  <2>2. StepsOf(q) = {q[1]} /\ EndOf(q) = q[1]
    BY <1>1, <2>1 DEF StepsOf, EndOf
  <2>3. DoomedIn(q) = {}
    BY <1>5, <2>2 DEF DoomedIn
  <2> QED
    BY <1>4, <1>5, <2>1, <2>2, <2>3
<1>6. ASSUME q[1].op \in {"dec", "destroy", "deallocate"}
      PROVE  Len(q) >= 2 /\ q[1].from = q[1].at /\ q[1].at \in {EndOf(q).at} \cup DoomedIn(q)
  <2>1. Len(q) >= 2
    <3>1. q[Len(q)].op \in {"share", "move", "become"}
      BY ShapeEnd DEF EndOf
    <3> QED
      BY <1>1, <1>6, <3>1
  <2>2. 1 \in 1 .. Len(q) - 1
    BY <1>1, <2>1
  <2>3. q[1].from = q[1].at /\ q[1].at = IF 1 + 1 = Len(q) THEN EndOf(q).at ELSE q[1 + 1].arg
    BY <2>2, ShapeAt
  <2>4. 2 # Len(q) => q[2].op = "deallocate" /\ q[2] \in StepsOf(q)
    <3> SUFFICES ASSUME 2 # Len(q) PROVE q[2].op = "deallocate" /\ q[2] \in StepsOf(q)
      OBVIOUS
    <3>1. 2 \in 1 .. Len(q) - 1 /\ 2 \in DOMAIN q
      BY <1>1, <2>1
    <3> QED
      BY <3>1, ShapeAt DEF StepsOf
  <2> QED
    BY <2>1, <2>3, <2>4 DEF DoomedIn
<1>7. q[1].op = "deallocate" => q[1].arg \in DoomedIn(q)
  BY <1>3 DEF DoomedIn
<1> QED
  BY <1>1, <1>2, <1>3, <1>4, <1>5, <1>6, <1>7

\* The rest of a call once its first step is taken.
LEMMA TailCall ==
  ASSUME NEW q \in Seq(RefSteps), q # <<>>, WellShaped(q), q[1].op \in {"dec", "destroy", "deallocate"}
  PROVE  /\ Tail(q) \in Seq(RefSteps) /\ Tail(q) # <<>> /\ WellShaped(Tail(q)) /\ EndOf(Tail(q)) = EndOf(q)
         /\ StepsOf(Tail(q)) \subseteq StepsOf(q)
         /\ DoomedIn(Tail(q)) = IF q[1].op = "deallocate" THEN DoomedIn(q) \ {q[1].arg} ELSE DoomedIn(q)
         /\ DyingIn(Tail(q)) = {} /\ SpentIn(Tail(q)) = {EndOf(q).at} \cup DoomedIn(Tail(q))
<1> DEFINE p == Tail(q)
<1>1. Len(q) \in Nat \ {0} /\ Len(q) >= 2 /\ DOMAIN q = 1 .. Len(q) /\ q[1] \in StepsOf(q)
  BY SeqTail, CallFacts
<1>2. /\ p \in Seq(RefSteps) /\ Len(p) = Len(q) - 1 /\ DOMAIN p = 1 .. Len(q) - 1
      /\ \A i \in 1 .. Len(q) - 1 : p[i] = q[i + 1]
  BY SeqTail, LenProperties
<1> HIDE DEF p
<1>3. p # <<>> /\ EndOf(p) = EndOf(q)
  BY <1>1, <1>2, EmptySeq DEF EndOf
<1>4. \A i \in 1 .. Len(q) - 1 : i + 1 \in 1 .. Len(q) /\ (i < Len(q) - 1 => i + 1 \in 1 .. Len(q) - 1)
  BY <1>1
<1>5. WellShaped(p)
  <2>1. /\ EndOf(p).op \in {"share", "move", "become"} /\ (EndOf(p).op = "become" <=> EndOf(p).from = EndOf(p).at)
        /\ EndOf(p).op # "move" => EndOf(p).arg \in Allocators
    BY <1>3, ShapeEnd
  <2>2. ASSUME NEW i \in 1 .. Len(p) - 1
        PROVE  /\ p[i].op = "deallocate" /\ p[i].from = p[i].at
               /\ p[i].at = IF i + 1 = Len(p) THEN EndOf(p).at ELSE p[i + 1].arg
    <3>1. i \in 1 .. Len(q) - 1 /\ i + 1 \in 1 .. Len(q) - 1 /\ i + 1 # 1 /\ (i + 1 = Len(p) <=> (i + 1) + 1 = Len(q))
      BY <1>1, <1>2
    <3>2. p[i] = q[i + 1] /\ p[i + 1] = q[(i + 1) + 1]
      BY <1>2, <3>1
    <3>3. /\ q[i + 1].op = "deallocate" /\ q[i + 1].from = q[i + 1].at
          /\ q[i + 1].at = IF (i + 1) + 1 = Len(q) THEN EndOf(q).at ELSE q[(i + 1) + 1].arg
      BY <3>1, ShapeAt
    <3> QED
      BY <1>3, <3>1, <3>2, <3>3
  <2>3. ASSUME NEW i \in 1 .. Len(p), NEW j \in 1 .. Len(p), p[i].op = "deallocate", p[j].op = "deallocate", p[i].arg = p[j].arg
        PROVE  i = j
    <3>1. i + 1 \in 1 .. Len(q) /\ j + 1 \in 1 .. Len(q) /\ p[i] = q[i + 1] /\ p[j] = q[j + 1]
      BY <1>2, <1>4
    <3>2. i + 1 = j + 1
      BY <2>3, <3>1, ShapeOnce
    <3> QED
      BY <3>2
  <2> QED
    BY <2>1, <2>2, <2>3 DEF WellShaped
<1>6. StepsOf(p) = {q[i] : i \in 2 .. Len(q)}
  <2>1. \A i \in 2 .. Len(q) : i - 1 \in 1 .. Len(q) - 1 /\ p[i - 1] = q[i]
    BY <1>1, <1>2
  <2> QED
    BY <1>1, <1>2, <2>1 DEF StepsOf
<1>7. StepsOf(q) = {q[1]} \cup StepsOf(p) /\ StepsOf(p) \subseteq StepsOf(q)
  BY <1>1, <1>6, StepsAre
<1>8. DoomedIn(p) = IF q[1].op = "deallocate" THEN DoomedIn(q) \ {q[1].arg} ELSE DoomedIn(q)
  <2>1. CASE q[1].op # "deallocate"
    BY <1>7, <2>1 DEF DoomedIn
  <2>2. CASE q[1].op = "deallocate"
    <3>1. DoomedIn(q) = {q[1].arg} \cup DoomedIn(p)
      BY <1>7, <2>2 DEF DoomedIn
    <3>2. q[1].arg \notin DoomedIn(p)
      <4> SUFFICES ASSUME q[1].arg \in DoomedIn(p) PROVE FALSE
        OBVIOUS
      <4>1. PICK i \in 2 .. Len(q) : q[i].op = "deallocate" /\ q[i].arg = q[1].arg
        BY <1>6 DEF DoomedIn
      <4>2. i \in 1 .. Len(q) /\ 1 \in 1 .. Len(q) /\ i # 1
        BY <1>1
      <4> QED
        BY <2>2, <4>1, <4>2, ShapeOnce
    <3> QED
      BY <2>2, <3>1, <3>2
  <2> QED
    BY <2>1, <2>2
<1>9. p[1].op \notin {"dec", "destroy"}
  <2>1. p[1] = q[2]
    BY <1>1, <1>2
  <2>2. Len(q) = 2 => q[2].op \in {"share", "move", "become"}
    BY ShapeEnd DEF EndOf
  <2>3. Len(q) # 2 => q[2].op = "deallocate"
    <3>1. Len(q) # 2 => 2 \in 1 .. Len(q) - 1
      BY <1>1
    <3> QED
      BY <3>1, ShapeAt
  <2> QED
    BY <2>1, <2>2, <2>3
<1>10. DyingIn(p) = {} /\ SpentIn(p) = {EndOf(q).at} \cup DoomedIn(p)
  BY <1>3, <1>9 DEF DyingIn, SpentIn, UndecidedIn
<1> QED
  BY <1>2, <1>3, <1>5, <1>7, <1>8, <1>10 DEF p

\* The count of the object has become zero.
LEMMA DestroyCall ==
  ASSUME NEW q \in Seq(RefSteps), q # <<>>, WellShaped(q), q[1].op = "dec", NEW o \in Objects,
         NEW p, p = <<Destroy(q[1].at, o)>> \o Tail(q)
  PROVE  /\ p \in Seq(RefSteps) /\ p # <<>> /\ WellShaped(p) /\ EndOf(p) = EndOf(q)
         /\ StepsOf(p) \subseteq StepsOf(q) \cup {Destroy(q[1].at, o)}
         /\ DoomedIn(p) = DoomedIn(q) /\ DyingIn(p) = {o} /\ SpentIn(p) = {EndOf(q).at} \cup DoomedIn(q)
<1> DEFINE x == Destroy(q[1].at, o)
<1>1. Len(q) \in Nat \ {0} /\ Len(q) >= 2 /\ DOMAIN q = 1 .. Len(q) /\ q[1] \in RefSteps /\ q[1].from = q[1].at
  BY SeqTail, CallFacts
<1>2. x \in RefSteps /\ x.op = "destroy" /\ x.at = q[1].at /\ x.from = q[1].at /\ x.arg = o
  BY <1>1 DEF RefSteps, RefOps, Destroy, RefStep
<1> HIDE DEF x
<1>3. p \in Seq(RefSteps) /\ Len(p) = Len(q) /\ DOMAIN p = 1 .. Len(q) /\ \A i \in 1 .. Len(q) : p[i] = IF i = 1 THEN x ELSE q[i]
  BY <1>2, SeqInstead, LenProperties DEF x
<1>4. p # <<>> /\ EndOf(p) = EndOf(q) /\ p[1] = x
  BY <1>1, <1>3, EmptySeq DEF EndOf
<1>5. WellShaped(p)
  <2>1. /\ EndOf(p).op \in {"share", "move", "become"} /\ (EndOf(p).op = "become" <=> EndOf(p).from = EndOf(p).at)
        /\ EndOf(p).op # "move" => EndOf(p).arg \in Allocators
    BY <1>4, ShapeEnd
  <2>2. ASSUME NEW i \in 1 .. Len(p) - 1
        PROVE  /\ p[i].op = "deallocate" \/ (i = 1 /\ p[i].op \in {"dec", "destroy"})
               /\ p[i].from = p[i].at
               /\ p[i].at = IF i + 1 = Len(p) THEN EndOf(p).at ELSE p[i + 1].arg
    <3>1. i \in 1 .. Len(q) - 1 /\ i \in 1 .. Len(q) /\ i + 1 \in 1 .. Len(q) /\ i + 1 # 1
      BY <1>1, <1>3
    <3>2. p[i + 1] = q[i + 1] /\ p[i] = IF i = 1 THEN x ELSE q[i]
      BY <1>3, <3>1
    <3>3. /\ q[i].op = "deallocate" \/ (i = 1 /\ q[i].op \in {"dec", "destroy"})
          /\ q[i].from = q[i].at
          /\ q[i].at = IF i + 1 = Len(q) THEN EndOf(q).at ELSE q[i + 1].arg
      BY <3>1, ShapeAt
    <3> QED
      BY <1>2, <1>3, <1>4, <3>2, <3>3
  <2>3. \A i, j \in 1 .. Len(p) : p[i].op = "deallocate" /\ p[j].op = "deallocate" /\ p[i].arg = p[j].arg => i = j
    <3>1. \A i \in 1 .. Len(p) : p[i].op = "deallocate" => p[i] = q[i]
      BY <1>2, <1>3
    <3>2. ASSUME NEW i \in 1 .. Len(p), NEW j \in 1 .. Len(p), p[i].op = "deallocate", p[j].op = "deallocate", p[i].arg = p[j].arg
          PROVE  i = j
      <4>1. i \in 1 .. Len(q) /\ j \in 1 .. Len(q) /\ p[i] = q[i] /\ p[j] = q[j]
        BY <1>3, <3>1, <3>2
      <4> QED
        BY <3>2, <4>1, ShapeOnce
    <3> QED
      BY <3>2
  <2> QED
    BY <2>1, <2>2, <2>3 DEF WellShaped
<1>6. StepsOf(p) \subseteq StepsOf(q) \cup {x}
  BY <1>1, <1>3 DEF StepsOf
<1>7. DoomedIn(p) = DoomedIn(q)
  <2>1. \A s : s \in StepsOf(p) /\ s.op = "deallocate" => s \in StepsOf(q)
    BY <1>2, <1>6
  <2>2. \A s : s \in StepsOf(q) /\ s.op = "deallocate" => s \in StepsOf(p)
    BY <1>1, <1>3 DEF StepsOf
  <2> QED
    BY <2>1, <2>2 DEF DoomedIn
<1>8. DyingIn(p) = {o} /\ SpentIn(p) = {EndOf(q).at} \cup DoomedIn(q)
  BY <1>2, <1>4, <1>7 DEF DyingIn, SpentIn, UndecidedIn
<1> QED
  BY <1>3, <1>4, <1>5, <1>6, <1>7, <1>8 DEF x

\* The object is destroyed: its member is next, then its memory.
LEMMA DestroyedCall ==
  ASSUME NEW q \in Seq(RefSteps), q # <<>>, WellShaped(q), q[1].op = "destroy", q[1].arg \in Objects,
         q[1].arg \notin DoomedIn(q), q[1].arg # EndOf(q).at,
         NEW p, p = <<Dec(q[1].arg), DeallocateObject(q[1].at, q[1].arg)>> \o Tail(q)
  PROVE  /\ p \in Seq(RefSteps) /\ p # <<>> /\ WellShaped(p) /\ EndOf(p) = EndOf(q)
         /\ \A s \in StepsOf(p) : s \in {Dec(q[1].arg), DeallocateObject(q[1].at, q[1].arg)} \/ (s \in StepsOf(q) /\ s.op # "destroy")
         /\ DoomedIn(p) = DoomedIn(q) \cup {q[1].arg} /\ DyingIn(p) = {} /\ SpentIn(p) = SpentIn(q)
<1> DEFINE o == q[1].arg  x == Dec(o)  y == DeallocateObject(q[1].at, o)
<1>1. Len(q) \in Nat \ {0} /\ Len(q) >= 2 /\ DOMAIN q = 1 .. Len(q) /\ q[1] \in RefSteps /\ q[1].from = q[1].at
  BY SeqTail, CallFacts
<1>2. /\ x \in RefSteps /\ x.op = "dec" /\ x.at = o /\ x.from = o
      /\ y \in RefSteps /\ y.op = "deallocate" /\ y.at = q[1].at /\ y.from = q[1].at /\ y.arg = o
  BY <1>1 DEF RefSteps, RefOps, Dec, DeallocateObject, RefStep, Places
<1> HIDE DEF x, y
<1>3. /\ p \in Seq(RefSteps) /\ Len(p) = Len(q) + 1 /\ DOMAIN p = 1 .. Len(q) + 1
      /\ \A i \in 1 .. Len(q) + 1 : p[i] = IF i = 1 THEN x ELSE IF i = 2 THEN y ELSE q[i - 1]
  BY <1>2, SeqInstead, LenProperties DEF x, y
<1>4. p # <<>> /\ EndOf(p) = EndOf(q) /\ p[1] = x /\ p[2] = y
  BY <1>1, <1>3, EmptySeq DEF EndOf
<1>5. StepsOf(p) = {x, y} \cup {q[i] : i \in 2 .. Len(q)}
  <2>1. \A i \in 2 .. Len(q) : i + 1 \in 1 .. Len(q) + 1 /\ p[i + 1] = q[i]
    BY <1>1, <1>3
  <2>2. \A i \in 3 .. Len(q) + 1 : i - 1 \in 2 .. Len(q) /\ p[i] = q[i - 1]
    BY <1>1, <1>3
  <2>3. \A i \in 1 .. Len(q) + 1 : i = 1 \/ i = 2 \/ i \in 3 .. Len(q) + 1
    BY <1>1
  <2>4. DOMAIN p = 1 .. Len(q) + 1 /\ 1 \in 1 .. Len(q) + 1 /\ 2 \in 1 .. Len(q) + 1
    BY <1>1, <1>3
  <2>5. ASSUME NEW s \in StepsOf(p) PROVE s \in {x, y} \cup {q[i] : i \in 2 .. Len(q)}
    <3>1. PICK i \in 1 .. Len(q) + 1 : s = p[i]
      BY <2>4, Zenon DEF StepsOf
    <3> QED
      BY <1>4, <2>2, <2>3, <3>1, Zenon
  <2>6. ASSUME NEW s \in {x, y} \cup {q[i] : i \in 2 .. Len(q)} PROVE s \in StepsOf(p)
    <3>1. \A i \in 1 .. Len(q) + 1 : p[i] \in StepsOf(p)
      BY <2>4, Zenon DEF StepsOf
    <3>2. CASE s \in {x, y}
      BY <1>4, <2>4, <3>1, <3>2
    <3>3. CASE s \in {q[i] : i \in 2 .. Len(q)}
      BY <2>1, <3>1, <3>3
    <3> QED
      BY <3>2, <3>3
  <2> QED
    BY <2>5, <2>6
<1>6. StepsOf(q) = {q[1]} \cup {q[i] : i \in 2 .. Len(q)}
  BY <1>1, StepsAre
<1>7. DoomedIn(p) = DoomedIn(q) \cup {o}
  BY <1>2, <1>5, <1>6 DEF DoomedIn
<1>11. \A s \in StepsOf(p) : s \in {x, y} \/ (s \in StepsOf(q) /\ s.op # "destroy")
  <2> SUFFICES ASSUME NEW i \in 2 .. Len(q) PROVE q[i].op # "destroy" /\ q[i] \in StepsOf(q)
    BY <1>5
  <2>1. i \in 1 .. Len(q) /\ (i # Len(q) => i \in 1 .. Len(q) - 1) /\ i # 1
    <3>1. Len(q) \in Nat /\ i \in 1 .. Len(q) /\ i # 1
      BY <1>1
    <3> QED
      BY <3>1, Between
  <2>2. q[Len(q)].op # "destroy"
    BY ShapeEnd DEF EndOf
  <2> QED
    BY <1>1, <2>1, <2>2, ShapeAt DEF StepsOf
<1>8. WellShaped(p)
  <2>1. /\ EndOf(p).op \in {"share", "move", "become"} /\ (EndOf(p).op = "become" <=> EndOf(p).from = EndOf(p).at)
        /\ EndOf(p).op # "move" => EndOf(p).arg \in Allocators
    BY <1>4, ShapeEnd
  <2>2. ASSUME NEW i \in 1 .. Len(p) - 1
        PROVE  /\ p[i].op = "deallocate" \/ (i = 1 /\ p[i].op \in {"dec", "destroy"})
               /\ p[i].from = p[i].at
               /\ p[i].at = IF i + 1 = Len(p) THEN EndOf(p).at ELSE p[i + 1].arg
    <3>1. CASE i = 1
      BY <1>1, <1>2, <1>3, <1>4, <3>1
    <3>2. CASE i = 2
      <4>1. 1 \in 1 .. Len(q) - 1 /\ (3 = Len(q) + 1 <=> 2 = Len(q)) /\ 3 \in 1 .. Len(q) + 1
        BY <1>1
      <4>2. q[1].at = IF 1 + 1 = Len(q) THEN EndOf(q).at ELSE q[1 + 1].arg
        BY <4>1, ShapeAt
      <4>3. p[3] = q[2]
        BY <1>3, <4>1
      <4> QED
        BY <1>2, <1>3, <1>4, <3>2, <4>1, <4>2, <4>3
    <3>3. CASE i > 2
      <4>1. i - 1 \in 1 .. Len(q) - 1 /\ i - 1 # 1 /\ i \in 1 .. Len(q) + 1 /\ i + 1 \in 1 .. Len(q) + 1 /\ (i + 1 = Len(p) <=> (i - 1) + 1 = Len(q))
        <5>1. Len(p) = Len(q) + 1 /\ Len(q) \in Nat \ {0} /\ i \in 1 .. Len(q)
          BY <1>1, <1>3
        <5> QED
          BY <3>3, <5>1
      <4>2. p[i] = q[i - 1] /\ p[i + 1] = q[(i - 1) + 1]
        BY <1>3, <3>3, <4>1
      <4>3. /\ q[i - 1].op = "deallocate" /\ q[i - 1].from = q[i - 1].at
            /\ q[i - 1].at = IF (i - 1) + 1 = Len(q) THEN EndOf(q).at ELSE q[(i - 1) + 1].arg
        BY <4>1, ShapeAt
      <4> QED
        BY <1>4, <4>1, <4>2, <4>3
    <3> QED
      BY <1>3, <3>1, <3>2, <3>3
  <2>3. ASSUME NEW i \in 1 .. Len(p), NEW j \in 1 .. Len(p), p[i].op = "deallocate", p[j].op = "deallocate", p[i].arg = p[j].arg
        PROVE  i = j
    <3>1. ASSUME NEW k \in 1 .. Len(p), p[k].op = "deallocate", k # 2
          PROVE  k - 1 \in 1 .. Len(q) /\ p[k] = q[k - 1] /\ p[k].arg # o
      <4>1. k \notin {1, 2}
        BY <1>2, <1>4, <3>1
      <4>2. k - 1 \in 1 .. Len(q) /\ p[k] = q[k - 1] /\ k - 1 \in DOMAIN q
        BY <1>1, <1>3, <4>1
      <4>3. p[k].arg \in DoomedIn(q)
        BY <3>1, <4>2 DEF DoomedIn, StepsOf
      <4> QED
        BY <4>2, <4>3
    <3>2. CASE i = 2 \/ j = 2
      BY <1>2, <1>4, <2>3, <3>1, <3>2
    <3>3. CASE i # 2 /\ j # 2
      <4>1. i - 1 \in 1 .. Len(q) /\ p[i] = q[i - 1] /\ j - 1 \in 1 .. Len(q) /\ p[j] = q[j - 1]
        BY <2>3, <3>1, <3>3
      <4>2. i - 1 = j - 1
        BY <2>3, <4>1, ShapeOnce
      <4> QED
        BY <1>3, <4>2
    <3> QED
      BY <3>2, <3>3
  <2> QED
    BY <2>1, <2>2, <2>3 DEF WellShaped
<1>9. DyingIn(p) = {}
  BY <1>2, <1>4 DEF DyingIn
<1>10. SpentIn(p) = SpentIn(q)
  <2>1. SpentIn(p) = ({EndOf(q).at} \cup (DoomedIn(q) \cup {o})) \ {o}
    BY <1>2, <1>4, <1>7 DEF SpentIn, UndecidedIn
  <2>2. SpentIn(q) = {EndOf(q).at} \cup DoomedIn(q)
    BY CallFacts
  <2> QED
    BY <2>1, <2>2
<1> QED
  BY <1>3, <1>4, <1>5, <1>7, <1>8, <1>9, <1>10, <1>11 DEF x, y

\* Where the steps of a call work.
LEMMA StepFacts ==
  ASSUME NEW q \in Seq(RefSteps), WellShaped(q), NEW s \in StepsOf(q), s.op \in {"destroy", "deallocate"}
  PROVE  /\ s \in RefSteps /\ q # <<>> /\ s.at \in {EndOf(q).at} \cup DoomedIn(q)
         /\ s.op = "destroy" => s = q[1] /\ DyingIn(q) = {s.arg}
         /\ s.op = "deallocate" => s.arg \in DoomedIn(q)
<1>1. q # <<>>
  BY DEF StepsOf
<1>2. Len(q) \in Nat \ {0} /\ DOMAIN q = 1 .. Len(q)
  BY <1>1, SeqTail
<1>3. PICK i \in 1 .. Len(q) : s = q[i]
  BY <1>2 DEF StepsOf
<1>4. i # Len(q)
  BY <1>1, <1>3, ShapeEnd DEF EndOf
<1>5. i \in 1 .. Len(q) - 1 /\ i + 1 \in 1 .. Len(q) /\ i + 1 # 1
  BY <1>2, <1>4, Between
<1>6. s.at = IF i + 1 = Len(q) THEN EndOf(q).at ELSE q[i + 1].arg
  BY <1>1, <1>3, <1>5, ShapeAt
<1>7. i + 1 # Len(q) => q[i + 1].op = "deallocate" /\ q[i + 1] \in StepsOf(q)
  <2> SUFFICES ASSUME i + 1 # Len(q) PROVE q[i + 1].op = "deallocate" /\ q[i + 1] \in StepsOf(q)
    OBVIOUS
  <2>1. i + 1 \in 1 .. Len(q) - 1
    BY <1>2, <1>4, Between
  <2>2. q[i + 1].op = "deallocate"
    BY <1>1, <1>5, <2>1, ShapeAt
  <2> QED
    BY <1>2, <1>5, <2>2 DEF StepsOf
<1>8. s.at \in {EndOf(q).at} \cup DoomedIn(q)
  BY <1>6, <1>7 DEF DoomedIn
<1>9. s.op = "destroy" => s = q[1] /\ DyingIn(q) = {s.arg}
  BY <1>1, <1>3, <1>5, ShapeAt DEF DyingIn
<1>10. s \in RefSteps
  BY <1>2, <1>3, ElementOfSeq
<1> QED
  BY <1>1, <1>8, <1>9, <1>10 DEF DoomedIn

\* A call that begins.
LEMMA NewCall ==
  ASSUME NEW h \in Places, NEW last \in RefSteps, last.at = h, last.op \in {"share", "move", "become"},
         last.op = "become" <=> last.from = h, last.op # "move" => last.arg \in Allocators
  PROVE  /\ <<Dec(h), last>> \in Seq(RefSteps) /\ <<last>> \in Seq(RefSteps)
         /\ <<Dec(h), last>> # <<>> /\ <<last>> # <<>> /\ Len(<<last>>) = 1
         /\ WellShaped(<<Dec(h), last>>) /\ EndOf(<<Dec(h), last>>) = last /\ StepsOf(<<Dec(h), last>>) = {Dec(h), last}
         /\ WellShaped(<<last>>) /\ EndOf(<<last>>) = last /\ StepsOf(<<last>>) = {last}
         /\ DoomedIn(<<Dec(h), last>>) = {} /\ DyingIn(<<Dec(h), last>>) = {} /\ SpentIn(<<Dec(h), last>>) = {}
         /\ DoomedIn(<<last>>) = {} /\ DyingIn(<<last>>) = {} /\ SpentIn(<<last>>) = {h}
<1> DEFINE d == Dec(h)  p == <<d, last>>  r == <<last>>
<1>1. d \in RefSteps /\ d.op = "dec" /\ d.at = h /\ d.from = h
  BY DEF RefSteps, RefOps, Dec, RefStep
<1> HIDE DEF d
<1>2. /\ p \in Seq(RefSteps) /\ Len(p) = 2 /\ DOMAIN p = 1 .. 2 /\ p[1] = d /\ p[2] = last
      /\ r \in Seq(RefSteps) /\ Len(r) = 1 /\ DOMAIN r = 1 .. 1 /\ r[1] = last /\ p # <<>> /\ r # <<>>
  BY <1>1
<1> HIDE DEF p, r
<1>3. EndOf(p) = last /\ EndOf(r) = last /\ StepsOf(p) = {d, last} /\ StepsOf(r) = {last}
  BY <1>2 DEF EndOf, StepsOf
<1>4. DoomedIn(p) = {} /\ DoomedIn(r) = {} /\ DyingIn(p) = {} /\ DyingIn(r) = {} /\ SpentIn(p) = {} /\ SpentIn(r) = {h}
  BY <1>1, <1>2, <1>3 DEF DoomedIn, DyingIn, SpentIn, UndecidedIn
<1>5. WellShaped(p)
  BY <1>1, <1>2, <1>3 DEF WellShaped
<1>6. WellShaped(r)
  BY <1>2, <1>3 DEF WellShaped
<1> QED
  BY <1>2, <1>3, <1>4, <1>5, <1>6 DEF p, r, d

-----------------------------------------------------------------------------
(***************************************************************************)
(* What the threads hold.  A handle counts for its object until its own    *)
(* decrement; an object whose count is zero is in the hands of one thread, *)
(* first to be destroyed, then to be freed.                                *)
(***************************************************************************)
Busy(t) == todo[t] # <<>>
Used(t) == IF Busy(t) THEN {EndOf(todo[t]).at, EndOf(todo[t]).from} ELSE {}
Doomed(t) == DoomedIn(todo[t])
Dying(t) == DyingIn(todo[t])
SpentOthers(t) == UNION {SpentIn(todo[u]) : u \in RefThreads \ {t}}
Spent == UNION {SpentIn(todo[u]) : u \in RefThreads}
Holders(o) == {h \in Places \ Spent : handles[h].ptr = o}

RefTypeOK ==
  /\ handles \in [Places -> [ptr : Objects \cup {NoObject}, alloc : Allocators]]
  /\ objects \in [Objects -> [fate : {"unmade", "alive", "destroyed", "freed"}, count : Nat, freed_by : Allocators]]
  /\ raw \in SUBSET Objects
  /\ todo \in [RefThreads -> Seq(RefSteps)]

\* A thread works on its own handles, and on members of objects that another
\* handle of its own keeps alive.
Anchored(t, x) == x \in Own(t) \/ (x \in Objects /\ \E g \in Own(t) \ {EndOf(todo[t]).at} : handles[g].ptr = x)
WorksOnItsOwn(t) ==
  Busy(t) =>
    /\ Anchored(t, EndOf(todo[t]).from)
    /\ \/ Anchored(t, EndOf(todo[t]).at)
       \/ EndOf(todo[t]).at \in Locals /\ handles[EndOf(todo[t]).at].ptr = NoObject

DoomIs(s) ==
  /\ s.op = "destroy" =>
       s.arg \in Objects /\ objects[s.arg].fate = "alive" /\ objects[s.arg].count = 0 /\ handles[s.at].ptr = s.arg
  /\ s.op = "deallocate" =>
       s.arg \in Objects /\ objects[s.arg].fate = "destroyed" /\ objects[s.arg].count = 0 /\ handles[s.at].ptr = s.arg

CallHolds(t) == WellShaped(todo[t]) /\ WorksOnItsOwn(t) /\ \A s \in StepsOf(todo[t]) : DoomIs(s)
CallsHold == \A t \in RefThreads : CallHolds(t)

CallsApart ==
  \A t, u \in RefThreads : t # u =>
    Used(t) \cap Used(u) = {} /\ Doomed(t) \cap Doomed(u) = {} /\ Dying(t) \cap Dying(u) = {}

FatesHold ==
  \A o \in Objects :
    /\ objects[o].fate = "alive" /\ objects[o].count = 0 => \E t \in RefThreads : o \in Dying(t)
    /\ objects[o].fate = "destroyed" => \E t \in RefThreads : o \in Doomed(t)
    /\ objects[o].fate # "alive" => objects[o].count = 0
    /\ objects[o].fate = "unmade" => handles[o].ptr = NoObject

Counted == \A o \in Objects : objects[o].count = Cardinality(Holders(o)) + Cardinality({o} \cap raw)

RefInv == RefTypeOK /\ CallsHold /\ CallsApart /\ FatesHold /\ Counted

LEMMA HandleFacts ==
  ASSUME RefAssumption, RefTypeOK
  PROVE  /\ IsFiniteSet(Places) /\ Locals \subseteq Places /\ Objects \subseteq Places /\ NoObject \notin Objects
         /\ \A t \in RefThreads : todo[t] \in Seq(RefSteps) /\ Own(t) \subseteq Locals /\ Own(t) \cap Objects = {}
         /\ \A t, u \in RefThreads : t # u => Own(t) \cap Own(u) = {}
         /\ \A h \in Places : handles[h].ptr \in Objects \cup {NoObject} /\ handles[h].alloc \in Allocators
         /\ \A o \in Objects : objects[o].count \in Nat /\ IsFiniteSet(Holders(o)) /\ Cardinality(Holders(o)) \in Nat
         /\ \A o \in Objects : Cardinality({o} \cap raw) = IF o \in raw THEN 1 ELSE 0
<1>1. IsFiniteSet(Places)
  BY FS_Union DEF RefAssumption, Places
<1>2. \A o : IsFiniteSet(Holders(o)) /\ Cardinality(Holders(o)) \in Nat
  <2> SUFFICES ASSUME NEW o PROVE IsFiniteSet(Holders(o)) /\ Cardinality(Holders(o)) \in Nat
    OBVIOUS
  <2>1. Holders(o) \subseteq Places
    BY DEF Holders
  <2> QED
    BY <1>1, <2>1, FS_Subset, FS_CardinalityType
<1>3. \A o \in Objects : Cardinality({o} \cap raw) = IF o \in raw THEN 1 ELSE 0
  <2> SUFFICES ASSUME NEW o \in Objects PROVE Cardinality({o} \cap raw) = IF o \in raw THEN 1 ELSE 0
    OBVIOUS
  <2>1. {o} \cap raw = IF o \in raw THEN {o} ELSE {}
    OBVIOUS
  <2> QED
    BY <2>1, FS_Singleton, FS_EmptySet
<1>4. \A o \in Objects : objects[o].count \in Nat
  BY DEF RefTypeOK
<1>5. \A h \in Places : handles[h].ptr \in Objects \cup {NoObject} /\ handles[h].alloc \in Allocators
  BY DEF RefTypeOK
<1>6. \A t \in RefThreads : todo[t] \in Seq(RefSteps) /\ Own(t) \subseteq Locals /\ Own(t) \cap Objects = {}
  BY DEF RefTypeOK, Own, RefAssumption
<1>7. \A t, u \in RefThreads : t # u => Own(t) \cap Own(u) = {}
  BY DEF Own
<1> QED
  BY <1>1, <1>2, <1>3, <1>4, <1>5, <1>6, <1>7 DEF Places, RefAssumption

\* A handle that counts has an object that is alive.
LEMMA HeldIsAlive ==
  ASSUME RefAssumption, RefInv, NEW h \in Places, h \notin Spent, NEW o \in Objects, handles[h].ptr = o
  PROVE  objects[o].count >= 1 /\ objects[o].fate = "alive" /\ h \in Holders(o)
<1>1. h \in Holders(o)
  BY DEF Holders
<1>2. Cardinality(Holders(o)) # 0
  BY <1>1, HandleFacts, FS_EmptySet DEF RefInv
<1>3. objects[o].count >= 1
  <2>1. Cardinality(Holders(o)) \in Nat /\ Cardinality({o} \cap raw) \in Nat
    BY HandleFacts DEF RefInv
  <2>2. objects[o].count = Cardinality(Holders(o)) + Cardinality({o} \cap raw)
    BY DEF RefInv, Counted
  <2> QED
    BY <1>2, <2>1, <2>2
<1> QED
  BY <1>1, <1>3 DEF RefInv, FatesHold

LEMMA SpentIsUsed ==
  ASSUME NEW t \in RefThreads
  PROVE  SpentIn(todo[t]) \subseteq Used(t) \cup Doomed(t)
BY DEF SpentIn, Used, Busy, Doomed

LEMMA DoomedIs ==
  ASSUME RefAssumption, RefInv, NEW t \in RefThreads
  PROVE  /\ \A o \in Doomed(t) : o \in Objects /\ objects[o].fate = "destroyed" /\ objects[o].count = 0
         /\ \A o \in Dying(t) : o \in Objects /\ objects[o].fate = "alive" /\ objects[o].count = 0
<1>1. \A s \in StepsOf(todo[t]) : DoomIs(s)
  BY DEF RefInv, CallsHold, CallHolds
<1>2. \A o \in Doomed(t) : \E s \in StepsOf(todo[t]) : s.op = "deallocate" /\ s.arg = o
  BY DEF Doomed, DoomedIn
<1>3. \A o \in Dying(t) : \E s \in StepsOf(todo[t]) : s.op = "destroy" /\ s.arg = o
  <2>1. todo[t] # <<>> => todo[t][1] \in StepsOf(todo[t])
    BY HandleFacts, CallFacts DEF RefInv, CallsHold, CallHolds
  <2> QED
    BY <2>1 DEF Dying, DyingIn
<1> QED
  BY <1>1, <1>2, <1>3 DEF DoomIs

\* Nobody else works on a handle of a thread that points to an object.
LEMMA OwnApart ==
  ASSUME RefAssumption, RefInv, NEW t \in RefThreads, NEW u \in RefThreads, t # u, NEW g \in Own(u), handles[g].ptr # NoObject
  PROVE  g \notin Used(t) \cup Doomed(t)
<1>1. g \in Locals /\ g \notin Objects /\ g \notin Own(t)
  BY HandleFacts DEF RefInv
<1>2. g \notin Doomed(t)
  BY <1>1, DoomedIs
<1>3. ~Anchored(t, g)
  BY <1>1 DEF Anchored
<1>4. WorksOnItsOwn(t)
  BY DEF RefInv, CallsHold, CallHolds
<1> QED
  BY <1>2, <1>3, <1>4 DEF WorksOnItsOwn, Used

LEMMA OwnUnspent ==
  ASSUME RefAssumption, RefInv, NEW t \in RefThreads, NEW g \in Own(t), handles[g].ptr # NoObject,
         Busy(t) => g # EndOf(todo[t]).at
  PROVE  g \notin Spent
<1>1. g \notin Objects
  BY HandleFacts DEF RefInv
<1>2. g \notin SpentIn(todo[t])
  BY <1>1, DoomedIs DEF SpentIn, Busy, Doomed
<1>3. \A u \in RefThreads : u # t => g \notin SpentIn(todo[u])
  BY OwnApart, SpentIsUsed
<1> QED
  BY <1>2, <1>3 DEF Spent

\* An object whose member a thread works on lives.
LEMMA AnchoredLives ==
  ASSUME RefAssumption, RefInv, NEW t \in RefThreads, Busy(t), NEW x \in Objects, Anchored(t, x)
  PROVE  objects[x].count >= 1 /\ objects[x].fate = "alive"
<1>1. PICK g \in Own(t) : g # EndOf(todo[t]).at /\ handles[g].ptr = x
  BY HandleFacts DEF Anchored, RefInv
<1>2. g \in Places /\ x # NoObject
  BY HandleFacts DEF RefInv
<1> QED
  BY <1>1, <1>2, OwnUnspent, HeldIsAlive

LEMMA UsedLives ==
  ASSUME RefAssumption, RefInv, NEW t \in RefThreads, NEW x \in Used(t), x \in Objects
  PROVE  objects[x].count >= 1 /\ objects[x].fate = "alive"
<1>1. Busy(t)
  BY DEF Used
<1>2. Anchored(t, x)
  <2>1. x \notin Locals
    BY DEF RefAssumption
  <2> QED
    BY <1>1, <2>1 DEF Used, RefInv, CallsHold, CallHolds, WorksOnItsOwn
<1> QED
  BY <1>1, <1>2, AnchoredLives

LEMMA UsedApart ==
  ASSUME RefAssumption, RefInv, NEW t \in RefThreads, NEW u \in RefThreads
  PROVE  /\ t # u => (Used(t) \cup Doomed(t)) \cap (Used(u) \cup Doomed(u)) = {}
         /\ Used(t) \cap Doomed(u) = {} /\ Dying(t) \cap (Used(u) \cup Doomed(u)) = {}
<1>1. \A x \in Used(t) \cup Used(u) : x \in Objects => objects[x].count # 0
  BY UsedLives
<1>2. Used(t) \cap Doomed(u) = {} /\ Used(u) \cap Doomed(t) = {} /\ Dying(t) \cap Used(u) = {}
  BY <1>1, DoomedIs
<1>3. Dying(t) \cap Doomed(u) = {}
  BY DoomedIs
<1>4. t # u => Used(t) \cap Used(u) = {} /\ Doomed(t) \cap Doomed(u) = {}
  BY DEF RefInv, CallsApart
<1> QED
  BY <1>2, <1>3, <1>4

\* A handle that a thread may begin a call with.
LEMMA UsableFacts ==
  ASSUME RefAssumption, RefInv, NEW t \in RefThreads, Idle(t), NEW h, Usable(t, h)
  PROVE  /\ h \in Places /\ h \notin Spent
         /\ \A u \in RefThreads : h \notin Used(u) \cup Doomed(u) \cup Dying(u)
         /\ h \in Own(t) \/ (h \in Objects /\ \E g \in Own(t) : handles[g].ptr = h)
         /\ h \in Objects => objects[h].count >= 1 /\ objects[h].fate = "alive"
<1>1. h \in Own(t) \/ (h \in Objects /\ \E g \in Own(t) : handles[g].ptr = h)
  BY HandleFacts DEF Usable, Mine, RefInv
<1>2. h \in Places
  BY <1>1, HandleFacts DEF RefInv
<1>3. h \in Objects => objects[h].count >= 1 /\ objects[h].fate = "alive"
  <2> SUFFICES ASSUME h \in Objects PROVE objects[h].count >= 1 /\ objects[h].fate = "alive"
    OBVIOUS
  <2>1. PICK g \in Own(t) : handles[g].ptr = h
    BY <1>1, HandleFacts DEF RefInv
  <2>2. g \in Places /\ h # NoObject
    BY HandleFacts DEF RefInv
  <2> QED
    BY <2>1, <2>2, OwnUnspent, HeldIsAlive DEF Busy, Idle
<1>4. ASSUME NEW u \in RefThreads PROVE h \notin Used(u) \cup Doomed(u) \cup Dying(u)
  <2>1. h \notin Doomed(u) \cup Dying(u)
    BY <1>3, DoomedIs
  <2>2. h \notin Used(u)
    <3>1. Busy(u) => Len(todo[u]) \in DOMAIN todo[u]
      BY SeqTail, HandleFacts DEF Busy, RefInv
    <3> QED
      BY <3>1 DEF Usable, InUse, Used, EndOf
  <2> QED
    BY <2>1, <2>2
<1>5. h \notin Spent
  BY <1>4, SpentIsUsed DEF Spent
<1> QED
  BY <1>1, <1>2, <1>3, <1>4, <1>5

\* What a step of one thread leaves to the others.
LEMMA OthersHold ==
  ASSUME RefAssumption, RefInv, NEW t \in RefThreads, NEW W,
         \A u \in RefThreads : u # t => todo'[u] = todo[u],
         \A h \in Places : h \notin W => handles'[h] = handles[h],
         \A u \in RefThreads : u # t => W \cap (Used(u) \cup Doomed(u)) = {},
         \A u \in RefThreads : u # t => \A g \in Own(u) : handles[g].ptr # NoObject => g \notin W,
         \A u \in RefThreads : u # t => \A o \in Doomed(u) \cup Dying(u) : objects'[o].fate = objects[o].fate /\ objects'[o].count = objects[o].count
  PROVE  \A u \in RefThreads : u # t => CallHolds(u)'
<1> SUFFICES ASSUME NEW u \in RefThreads, u # t PROVE CallHolds(u)'
  OBVIOUS
<1>1. todo'[u] = todo[u] /\ CallHolds(u) /\ todo[u] \in Seq(RefSteps)
  BY HandleFacts DEF RefInv, CallsHold
<1>2. CASE todo[u] = <<>>
  <2>1. StepsOf(todo[u]) = {}
    BY <1>2 DEF StepsOf
  <2> QED
    BY <1>1, <1>2, <2>1 DEF CallHolds, WellShaped, WorksOnItsOwn, Busy
<1>3. CASE todo[u] # <<>>
  <2> DEFINE e == EndOf(todo[u])
  <2>1. WellShaped(todo[u]) /\ e \in RefSteps /\ StepsOf(todo[u]) \subseteq RefSteps /\ Busy(u) /\ Busy(u)' /\ EndOf(todo'[u]) = e
    BY <1>1, <1>3, CallFacts DEF CallHolds, Busy
  <2>2. e.at \in Used(u) /\ e.from \in Used(u) /\ e.at \in Places /\ e.from \in Places
    BY <2>1 DEF Used, RefSteps
  <2> HIDE DEF e
  <2>3. \A x : Anchored(u, x) => Anchored(u, x)'
    <3> SUFFICES ASSUME NEW x, Anchored(u, x) PROVE Anchored(u, x)'
      OBVIOUS
    <3>1. CASE x \in Own(u)
      BY <3>1 DEF Anchored, Own
    <3>2. CASE x \notin Own(u)
      <4>1. PICK g \in Own(u) : x \in Objects /\ g # e.at /\ handles[g].ptr = x
        BY <3>2 DEF Anchored, e
      <4>2. g \in Places /\ handles[g].ptr # NoObject
        BY <4>1, HandleFacts DEF RefInv
      <4>3. handles'[g] = handles[g]
        BY <4>2
      <4> QED
        BY <2>1, <4>1, <4>3 DEF Anchored, Own
    <3> QED
      BY <3>1, <3>2
  <2>4. WorksOnItsOwn(u)'
    <3>1. handles'[e.at] = handles[e.at]
      BY <2>2
    <3>2. Anchored(u, e.from) /\ (Anchored(u, e.at) \/ (e.at \in Locals /\ handles[e.at].ptr = NoObject))
      BY <1>1, <2>1 DEF CallHolds, WorksOnItsOwn, e
    <3>3. PICK x, y : x = e.at /\ y = e.from
      OBVIOUS
    <3>4. Anchored(u, y)' /\ (Anchored(u, x)' \/ (x \in Locals /\ handles'[x].ptr = NoObject))
      BY <2>3, <3>1, <3>2, <3>3
    <3>5. EndOf(todo'[u]).at = x /\ EndOf(todo'[u]).from = y
      BY <2>1, <3>3
    <3> QED
      BY <3>4, <3>5 DEF WorksOnItsOwn
  <2>5. ASSUME NEW s \in StepsOf(todo[u]) PROVE DoomIs(s)'
    <3>1. DoomIs(s) /\ s \in RefSteps /\ s.at \in Places
      BY <1>1, <2>1 DEF CallHolds, RefSteps
    <3>2. s.op \in {"destroy", "deallocate"} => handles'[s.at] = handles[s.at]
      BY <1>1, <2>1, <2>2, <3>1, StepFacts DEF Doomed, e
    <3>3. (s.op = "deallocate" => s.arg \in Doomed(u)) /\ (s.op = "destroy" => s.arg \in Dying(u))
      BY <1>1, <2>1, StepFacts DEF Doomed, Dying
    <3> QED
      BY <3>1, <3>2, <3>3 DEF DoomIs
  <2> QED
    BY <1>1, <2>1, <2>4, <2>5 DEF CallHolds
<1> QED
  BY <1>2, <1>3

LEMMA SpentSplit ==
  ASSUME RefAssumption, RefInv, NEW t \in RefThreads
  PROVE  /\ Spent = SpentOthers(t) \cup SpentIn(todo[t])
         /\ SpentOthers(t) \cap (Used(t) \cup Doomed(t) \cup Dying(t)) = {}
<1>1. Spent = SpentOthers(t) \cup SpentIn(todo[t])
  BY DEF Spent, SpentOthers
<1>2. \A u \in RefThreads \ {t} : SpentIn(todo[u]) \cap (Used(t) \cup Doomed(t) \cup Dying(t)) = {}
  BY UsedApart, SpentIsUsed
<1> QED
  BY <1>1, <1>2 DEF SpentOthers

\* A step of a thread, after which its call is as it should be.
LEMMA StepKeeps ==
  ASSUME RefAssumption, RefInv, NEW t \in RefThreads, NEW W,
         \A u \in RefThreads : u # t => todo'[u] = todo[u],
         \A h \in Places : h \notin W => handles'[h] = handles[h],
         \A u \in RefThreads : u # t => W \cap (Used(u) \cup Doomed(u)) = {},
         \A u \in RefThreads : u # t => \A g \in Own(u) : handles[g].ptr # NoObject => g \notin W,
         \A u \in RefThreads : u # t => \A o \in Doomed(u) \cup Dying(u) : objects'[o].fate = objects[o].fate /\ objects'[o].count = objects[o].count,
         CallHolds(t)',
         \A u \in RefThreads : u # t =>
           Used(t)' \cap Used(u) = {} /\ Doomed(t)' \cap Doomed(u) = {} /\ Dying(t)' \cap Dying(u) = {}
  PROVE  CallsHold' /\ CallsApart' /\ Spent' = SpentOthers(t) \cup SpentIn(todo'[t])
<1>1. CallsHold'
  BY OthersHold DEF CallsHold
<1>2. \A u \in RefThreads : u # t => Used(u)' = Used(u) /\ Doomed(u)' = Doomed(u) /\ Dying(u)' = Dying(u)
  BY DEF Used, Busy, Doomed, Dying
<1>3. CallsApart'
  BY <1>2 DEF CallsApart, RefInv
<1>4. \A u \in RefThreads : SpentIn(todo'[u]) = IF u = t THEN SpentIn(todo'[t]) ELSE SpentIn(todo[u])
  OBVIOUS
<1>5. Spent' = SpentOthers(t) \cup SpentIn(todo'[t])
  <2>1. Spent' = UNION {SpentIn(todo'[u]) : u \in RefThreads}
    BY DEF Spent
  <2>2. ASSUME NEW x \in Spent' PROVE x \in SpentOthers(t) \cup SpentIn(todo'[t])
    <3>1. PICK u \in RefThreads : x \in SpentIn(todo'[u])
      BY <2>1, <2>2
    <3> QED
      BY <1>4, <3>1 DEF SpentOthers
  <2>3. ASSUME NEW x \in SpentOthers(t) PROVE x \in Spent'
    <3>1. PICK u \in RefThreads \ {t} : x \in SpentIn(todo[u])
      BY <2>3 DEF SpentOthers
    <3> QED
      BY <1>4, <2>1, <3>1
  <2> QED
    BY <2>1, <2>2, <2>3
<1> QED
  BY <1>1, <1>3, <1>5

LEMMA ContinueKeeps ==
  ASSUME RefAssumption, RefInv, NEW t \in RefThreads,
         \A u \in RefThreads : u # t => todo'[u] = todo[u],
         \A h \in Places : h \notin Used(t) \cup Doomed(t) => handles'[h] = handles[h],
         \A u \in RefThreads : u # t => \A o \in Doomed(u) \cup Dying(u) : objects'[o].fate = objects[o].fate /\ objects'[o].count = objects[o].count,
         CallHolds(t)', Used(t)' \subseteq Used(t), Doomed(t)' \subseteq Doomed(t) \cup Dying(t),
         \A u \in RefThreads : u # t => Dying(t)' \cap Dying(u) = {}
  PROVE  CallsHold' /\ CallsApart' /\ Spent' = SpentOthers(t) \cup SpentIn(todo'[t])
<1> DEFINE W == Used(t) \cup Doomed(t)
<1>1. \A u \in RefThreads : u # t => W \cap (Used(u) \cup Doomed(u)) = {} /\ Dying(t) \cap Doomed(u) = {}
  BY UsedApart
<1>2. \A u \in RefThreads : u # t => \A g \in Own(u) : handles[g].ptr # NoObject => g \notin W
  BY OwnApart
<1>3. \A u \in RefThreads : u # t => Used(t)' \cap Used(u) = {} /\ Doomed(t)' \cap Doomed(u) = {} /\ Dying(t)' \cap Dying(u) = {}
  BY <1>1
<1> HIDE DEF W
<1>4. \A h \in Places : h \notin W => handles'[h] = handles[h]
  BY DEF W
<1> QED
  BY <1>1, <1>2, <1>3, <1>4, StepKeeps

\* The position of a thread whose call goes on.
LEMMA ContinueFacts ==
  ASSUME RefAssumption, RefInv, NEW t \in RefThreads, Continue(t)
  PROVE  /\ todo[t] \in Seq(RefSteps) /\ todo[t] # <<>> /\ WellShaped(todo[t]) /\ Busy(t) /\ raw' = raw /\ Head(todo[t]) = todo[t][1]
         /\ todo[t][1] \in RefSteps /\ todo[t][1] \in StepsOf(todo[t]) /\ DoomIs(todo[t][1])
         /\ <<>> \o Tail(todo[t]) = Tail(todo[t]) /\ WorksOnItsOwn(t)
         /\ Used(t) = {EndOf(todo[t]).at, EndOf(todo[t]).from}
<1>1. todo[t] \in Seq(RefSteps) /\ todo[t] # <<>> /\ WellShaped(todo[t]) /\ Busy(t) /\ raw' = raw
  BY HandleFacts DEF RefInv, CallsHold, CallHolds, Continue, Idle, Busy
<1>2. Head(todo[t]) = todo[t][1] /\ <<>> \o Tail(todo[t]) = Tail(todo[t])
  BY <1>1, SeqTail
<1>3. todo[t][1] \in RefSteps /\ todo[t][1] \in StepsOf(todo[t])
  BY <1>1, CallFacts
<1>4. DoomIs(todo[t][1]) /\ WorksOnItsOwn(t)
  BY <1>3 DEF RefInv, CallsHold, CallHolds
<1> QED
  BY <1>1, <1>2, <1>3, <1>4 DEF Used

\* Decrementing: a handle that counted counts no longer.
LEMMA CountDown ==
  ASSUME RefAssumption, RefInv, NEW h \in Places, h \notin Spent, Spent' = Spent \cup {h}, handles' = handles, raw' = raw,
         NEW o \in Objects, handles[h].ptr = o, objects' = [objects EXCEPT ![o].count = @ - 1]
  PROVE  /\ Counted' /\ objects[o].fate = "alive" /\ objects[o].count \in Nat \ {0}
         /\ objects' \in [Objects -> [fate : {"unmade", "alive", "destroyed", "freed"}, count : Nat, freed_by : Allocators]]
         /\ \A x \in Objects : objects'[x].fate = objects[x].fate /\ objects'[x].freed_by = objects[x].freed_by
                                 /\ objects'[x].count = IF x = o THEN objects[o].count - 1 ELSE objects[x].count
<1>1. objects[o].count >= 1 /\ objects[o].fate = "alive" /\ h \in Holders(o)
  BY HeldIsAlive
<1>2. objects[o].count \in Nat \ {0}
  BY <1>1, HandleFacts DEF RefInv
<1>3. objects \in [Objects -> [fate : {"unmade", "alive", "destroyed", "freed"}, count : Nat, freed_by : Allocators]]
  BY DEF RefInv, RefTypeOK
<1>4. /\ objects' \in [Objects -> [fate : {"unmade", "alive", "destroyed", "freed"}, count : Nat, freed_by : Allocators]]
      /\ \A x \in Objects : objects'[x].fate = objects[x].fate /\ objects'[x].freed_by = objects[x].freed_by
                              /\ objects'[x].count = IF x = o THEN objects[o].count - 1 ELSE objects[x].count
  BY <1>2, <1>3
<1>5. \A x \in Objects : Holders(x)' = IF x = o THEN Holders(o) \ {h} ELSE Holders(x)
  BY DEF Holders
<1>6. Cardinality(Holders(o) \ {h}) = Cardinality(Holders(o)) - 1
  BY <1>1, HandleFacts, FS_RemoveElement DEF RefInv
<1>7. ASSUME NEW x \in Objects PROVE objects'[x].count = Cardinality(Holders(x)') + Cardinality({x} \cap raw')
  <2>1. objects[x].count = Cardinality(Holders(x)) + Cardinality({x} \cap raw) /\ Cardinality(Holders(x)) \in Nat /\ Cardinality({x} \cap raw) \in Nat
    BY HandleFacts DEF RefInv, Counted
  <2>2. CASE x # o
    BY <1>4, <1>5, <2>1, <2>2
  <2>3. CASE x = o
    <3>1. objects'[x].count = objects[x].count - 1 /\ Cardinality(Holders(x)') = Cardinality(Holders(x)) - 1
      BY <1>4, <1>5, <1>6, <2>3
    <3> QED
      BY <2>1, <3>1
  <2> QED
    BY <2>2, <2>3
<1> QED
  BY <1>1, <1>2, <1>4, <1>7 DEF Counted

\* A step that goes on with a call and leaves the handles alone.
LEMMA CallGoesOn ==
  ASSUME RefAssumption, RefInv, NEW t \in RefThreads, Busy(t), todo'[t] # <<>>, EndOf(todo'[t]) = EndOf(todo[t]), handles' = handles
  PROVE  WorksOnItsOwn(t)' /\ Used(t)' = Used(t)
<1>1. WorksOnItsOwn(t)
  BY DEF RefInv, CallsHold, CallHolds
<1>2. Used(t)' = Used(t)
  BY DEF Used, Busy
<1> QED
  BY <1>1, <1>2 DEF WorksOnItsOwn, Anchored, Own, Busy

\* The objects whose end a thread has begun are still in its hands.
LEMMA FatesKept ==
  ASSUME RefAssumption, RefInv, NEW t \in RefThreads,
         \A u \in RefThreads : u # t => todo'[u] = todo[u],
         NEW x \in Objects
  PROVE  /\ x \notin Dying(t) /\ objects[x].fate = "alive" /\ objects[x].count = 0 => \E u \in RefThreads : x \in Dying(u)'
         /\ x \notin Doomed(t) /\ objects[x].fate = "destroyed" => \E u \in RefThreads : x \in Doomed(u)'
<1>1. \A u \in RefThreads : u # t => Doomed(u)' = Doomed(u) /\ Dying(u)' = Dying(u)
  BY DEF Doomed, Dying
<1> QED
  BY <1>1 DEF RefInv, FatesHold

LEMMA DecKeeps ==
  ASSUME RefAssumption, RefInv, NEW t \in RefThreads, Continue(t), todo[t][1].op = "dec"
  PROVE  RefInv'
<1> DEFINE q == todo[t]
<1>1. PICK h : h = q[1].at
  OBVIOUS
<1>2. /\ q \in Seq(RefSteps) /\ q # <<>> /\ WellShaped(q) /\ Busy(t) /\ raw' = raw /\ q[1] \in RefSteps
      /\ <<>> \o Tail(q) = Tail(q) /\ Used(t) = {EndOf(q).at, EndOf(q).from}
  BY ContinueFacts
<1>3. /\ UNCHANGED handles
      /\ handles[h].ptr = NoObject => todo' = [todo EXCEPT ![t] = Tail(q)] /\ UNCHANGED objects
      /\ handles[h].ptr # NoObject =>
           /\ objects' = [objects EXCEPT ![handles[h].ptr].count = @ - 1]
           /\ todo' = [todo EXCEPT ![t] = IF objects[handles[h].ptr].count = 1 THEN <<Destroy(h, handles[h].ptr)>> \o Tail(q) ELSE Tail(q)]
  BY <1>1, <1>2, ContinueFacts DEF Continue, Decremented, Then
<1>4. /\ h \in Places /\ h \in {EndOf(q).at} \cup DoomedIn(q) /\ SpentIn(q) = ({EndOf(q).at} \cup DoomedIn(q)) \ {h}
      /\ DyingIn(q) = {}
  BY <1>1, <1>2, CallFacts DEF RefSteps, DyingIn
<1>5. h \notin Spent
  BY <1>2, <1>4, SpentSplit DEF Doomed
<1>6. todo \in [RefThreads -> Seq(RefSteps)] /\ RefTypeOK
  BY DEF RefInv, RefTypeOK
<1> HIDE DEF q
<1>7. /\ Tail(q) \in Seq(RefSteps) /\ Tail(q) # <<>> /\ WellShaped(Tail(q)) /\ EndOf(Tail(q)) = EndOf(q) /\ StepsOf(Tail(q)) \subseteq StepsOf(q)
      /\ DoomedIn(Tail(q)) = DoomedIn(q) /\ DyingIn(Tail(q)) = {} /\ SpentIn(Tail(q)) = {EndOf(q).at} \cup DoomedIn(q)
  BY <1>2, TailCall DEF q
<1>8. ASSUME NEW o \in Objects
      PROVE  LET p == <<Destroy(h, o)>> \o Tail(q) IN
             /\ p \in Seq(RefSteps) /\ p # <<>> /\ WellShaped(p) /\ EndOf(p) = EndOf(q) /\ StepsOf(p) \subseteq StepsOf(q) \cup {Destroy(h, o)}
             /\ DoomedIn(p) = DoomedIn(q) /\ DyingIn(p) = {o} /\ SpentIn(p) = {EndOf(q).at} \cup DoomedIn(q)
  BY <1>1, <1>2, DestroyCall DEF q
<1>9. PICK p, o : p = todo'[t] /\ o = handles[h].ptr
  OBVIOUS
<1>10. o \in Objects \cup {NoObject} /\ NoObject \notin Objects
  BY <1>4, <1>6, <1>9, HandleFacts
<1>11. /\ todo' = [todo EXCEPT ![t] = p] /\ p \in Seq(RefSteps) /\ p # <<>> /\ WellShaped(p) /\ EndOf(p) = EndOf(q)
       /\ StepsOf(p) \subseteq StepsOf(q) \cup {Destroy(h, o)} /\ DoomedIn(p) = DoomedIn(q)
       /\ DyingIn(p) = (IF o # NoObject /\ objects[o].count = 1 THEN {o} ELSE {})
       /\ (o # NoObject /\ objects[o].count = 1) \/ StepsOf(p) \subseteq StepsOf(q)
       /\ SpentIn(p) = {EndOf(q).at} \cup DoomedIn(q)
  <2>1. CASE o # NoObject /\ objects[o].count = 1
    <3>1. todo' = [todo EXCEPT ![t] = <<Destroy(h, o)>> \o Tail(q)] /\ o \in Objects
      BY <1>3, <1>9, <1>10, <2>1
    <3>2. p = <<Destroy(h, o)>> \o Tail(q)
      BY <1>6, <1>9, <3>1
    <3> QED
      BY <1>8, <2>1, <3>1, <3>2
  <2>2. CASE ~(o # NoObject /\ objects[o].count = 1)
    <3>1. todo' = [todo EXCEPT ![t] = Tail(q)]
      BY <1>3, <1>9, <2>2
    <3>2. p = Tail(q)
      BY <1>6, <1>9, <3>1
    <3> QED
      BY <1>7, <2>2, <3>1, <3>2
  <2> QED
    BY <2>1, <2>2
<1>12. /\ \A u \in RefThreads : u # t => todo'[u] = todo[u]
       /\ todo'[t] = p /\ todo' \in [RefThreads -> Seq(RefSteps)]
  BY <1>6, <1>11
<1>13. SpentOthers(t) \cup SpentIn(p) = Spent \cup {h}
  BY <1>4, <1>11, SpentSplit DEF q
<1>14. CASE o = NoObject
  <2>1. objects' = objects /\ handles' = handles
    BY <1>3, <1>9, <1>14
  <2>2. CallHolds(t)' /\ Used(t)' = Used(t)
    <3>1. \A s \in StepsOf(p) : DoomIs(s)
      BY <1>11, <1>14 DEF RefInv, CallsHold, CallHolds, q
    <3>2. \A s \in StepsOf(p) : DoomIs(s)'
      BY <2>1, <3>1 DEF DoomIs
    <3>3. WorksOnItsOwn(t)' /\ Used(t)' = Used(t)
      BY <1>2, <1>11, <1>12, <2>1, CallGoesOn DEF q
    <3> QED
      BY <1>11, <1>12, <3>2, <3>3 DEF CallHolds
  <2>3. CallsHold' /\ CallsApart' /\ Spent' = Spent \cup {h}
    <3>1. Doomed(t)' = Doomed(t) /\ Dying(t)' = {}
      BY <1>11, <1>12, <1>14 DEF Doomed, Dying, q
    <3> QED
      BY <1>12, <1>13, <2>1, <2>2, <3>1, ContinueKeeps
  <2>4. Counted'
    <3>1. \A x \in Objects : Holders(x)' = Holders(x)
      BY <1>9, <1>10, <1>14, <2>1, <2>3 DEF Holders
    <3> QED
      BY <1>2, <2>1, <3>1 DEF RefInv, Counted
  <2>5. FatesHold'
    <3>1. Dying(t) = {} /\ Doomed(t)' = Doomed(t)
      BY <1>4, <1>11, <1>12 DEF Dying, Doomed, q
    <3> QED
      BY <1>12, <2>1, <3>1, FatesKept DEF RefInv, FatesHold
  <2>6. RefTypeOK'
    BY <1>2, <1>6, <1>12, <2>1 DEF RefTypeOK
  <2> QED
    BY <2>3, <2>4, <2>5, <2>6 DEF RefInv
<1>15. CASE o # NoObject
  <2>1. o \in Objects /\ handles[h].ptr = o /\ objects' = [objects EXCEPT ![o].count = @ - 1] /\ handles' = handles
    BY <1>3, <1>9, <1>10, <1>15
  <2>2. objects[o].count >= 1 /\ objects[o].fate = "alive"
    BY <1>4, <1>5, <2>1, HeldIsAlive
  <2>3. \A x \in Objects : objects'[x].fate = objects[x].fate /\ objects'[x].count = IF x = o THEN objects[o].count - 1 ELSE objects[x].count
    BY <1>6, <2>1 DEF RefTypeOK
  <2>4. CallHolds(t)' /\ Used(t)' = Used(t)
    <3>1. ASSUME NEW s \in StepsOf(p) PROVE DoomIs(s)'
      <4>1. CASE s \in StepsOf(q)
        <5>1. DoomIs(s)
          BY <4>1 DEF RefInv, CallsHold, CallHolds, q
        <5>2. s.op \in {"destroy", "deallocate"} => s.arg \in Objects /\ s.arg # o
          BY <2>2, <5>1 DEF DoomIs
        <5> QED
          BY <2>1, <2>3, <5>1, <5>2 DEF DoomIs
      <4>2. CASE s = Destroy(h, o) /\ objects[o].count = 1
        BY <2>1, <2>2, <2>3, <4>2 DEF DoomIs, Destroy, RefStep
      <4> QED
        BY <1>11, <4>1, <4>2
    <3>2. WorksOnItsOwn(t)' /\ Used(t)' = Used(t)
      BY <1>2, <1>11, <1>12, <2>1, CallGoesOn DEF q
    <3> QED
      BY <1>11, <1>12, <3>1, <3>2 DEF CallHolds
  <2>5. CallsHold' /\ CallsApart' /\ Spent' = Spent \cup {h}
    <3>1. Doomed(t)' = Doomed(t) /\ Dying(t)' \subseteq {o}
      BY <1>11, <1>12 DEF Doomed, Dying, q
    <3>2. \A u \in RefThreads : \A x \in Doomed(u) \cup Dying(u) : x \in Objects /\ x # o
      BY <2>2, DoomedIs
    <3> QED
      BY <1>12, <1>13, <2>1, <2>3, <2>4, <3>1, <3>2, ContinueKeeps
  <2>6. Counted' /\ objects' \in [Objects -> [fate : {"unmade", "alive", "destroyed", "freed"}, count : Nat, freed_by : Allocators]]
    BY <1>2, <1>4, <1>5, <2>1, <2>5, CountDown
  <2>7. FatesHold'
    <3> SUFFICES ASSUME NEW x \in Objects
                 PROVE  /\ objects'[x].fate = "alive" /\ objects'[x].count = 0 => \E u \in RefThreads : x \in Dying(u)'
                        /\ objects'[x].fate = "destroyed" => \E u \in RefThreads : x \in Doomed(u)'
                        /\ objects'[x].fate # "alive" => objects'[x].count = 0
                        /\ objects'[x].fate = "unmade" => handles'[x].ptr = NoObject
      BY DEF FatesHold
    <3>1. Dying(t) = {} /\ Doomed(t)' = Doomed(t) /\ Dying(t)' = DyingIn(p)
      BY <1>4, <1>11, <1>12 DEF Dying, Doomed, q
    <3>2. CASE x = o
      <4>1. objects'[o].count = 0 => objects[o].count = 1
        BY <1>6, <2>3, HandleFacts, <2>1
      <4>2. objects'[o].fate = "alive"
        BY <2>1, <2>2, <2>3
      <4> QED
        BY <1>11, <1>15, <3>1, <3>2, <4>1, <4>2
    <3>3. CASE x # o
      BY <1>12, <2>1, <2>3, <3>1, <3>3, FatesKept DEF RefInv, FatesHold
    <3> QED
      BY <3>2, <3>3
  <2>8. RefTypeOK'
    BY <1>2, <1>6, <1>12, <2>1, <2>6 DEF RefTypeOK
  <2> QED
    BY <2>5, <2>6, <2>7, <2>8 DEF RefInv
<1> QED
  BY <1>14, <1>15

LEMMA DestroyKeeps ==
  ASSUME RefAssumption, RefInv, NEW t \in RefThreads, Continue(t), todo[t][1].op = "destroy"
  PROVE  RefInv'
<1> DEFINE q == todo[t]
<1>1. PICK h, o : h = q[1].at /\ o = q[1].arg
  OBVIOUS
<1>2. /\ q \in Seq(RefSteps) /\ q # <<>> /\ WellShaped(q) /\ Busy(t) /\ raw' = raw /\ q[1] \in StepsOf(q) /\ DoomIs(q[1])
      /\ Used(t) = {EndOf(q).at, EndOf(q).from}
  BY ContinueFacts
<1>3. /\ UNCHANGED handles /\ objects' = [objects EXCEPT ![o].fate = "destroyed"]
      /\ todo' = [todo EXCEPT ![t] = <<Dec(o), DeallocateObject(h, o)>> \o Tail(q)]
  BY <1>1, ContinueFacts DEF Continue, Then
<1>4. o \in Objects /\ objects[o].fate = "alive" /\ objects[o].count = 0 /\ handles[h].ptr = o
  BY <1>1, <1>2 DEF DoomIs
<1>5. Dying(t) = {o}
  BY <1>1, <1>2 DEF Dying, DyingIn
<1>6. o \notin DoomedIn(q) /\ o # EndOf(q).at
  BY <1>2, <1>4, <1>5, DoomedIs, UsedApart DEF Doomed
<1>7. todo \in [RefThreads -> Seq(RefSteps)] /\ RefTypeOK
  BY DEF RefInv, RefTypeOK
<1> HIDE DEF q
<1>8. PICK p : p = <<Dec(o), DeallocateObject(h, o)>> \o Tail(q)
  OBVIOUS
<1>9. /\ p \in Seq(RefSteps) /\ p # <<>> /\ WellShaped(p) /\ EndOf(p) = EndOf(q)
      /\ \A s \in StepsOf(p) : s \in {Dec(o), DeallocateObject(h, o)} \/ (s \in StepsOf(q) /\ s.op # "destroy")
      /\ DoomedIn(p) = DoomedIn(q) \cup {o} /\ DyingIn(p) = {} /\ SpentIn(p) = SpentIn(q)
  <2>1. q[1].op = "destroy" /\ q[1].arg \in Objects /\ q[1].arg \notin DoomedIn(q) /\ q[1].arg # EndOf(q).at
    BY <1>1, <1>4, <1>6 DEF q
  <2>2. p = <<Dec(q[1].arg), DeallocateObject(q[1].at, q[1].arg)>> \o Tail(q)
    BY <1>1, <1>8 DEF q
  <2>3. h = q[1].at /\ o = q[1].arg
    BY <1>1 DEF q
  <2>4. q \in Seq(RefSteps) /\ q # <<>> /\ WellShaped(q)
    BY <1>2 DEF q
  <2>5. /\ p \in Seq(RefSteps) /\ p # <<>> /\ WellShaped(p) /\ EndOf(p) = EndOf(q)
        /\ \A s \in StepsOf(p) :
             s \in {Dec(q[1].arg), DeallocateObject(q[1].at, q[1].arg)} \/ (s \in StepsOf(q) /\ s.op # "destroy")
        /\ DoomedIn(p) = DoomedIn(q) \cup {q[1].arg} /\ DyingIn(p) = {} /\ SpentIn(p) = SpentIn(q)
    BY <2>1, <2>2, <2>4, DestroyedCall
  <2> QED
    BY <2>3, <2>5
<1>10. /\ \A u \in RefThreads : u # t => todo'[u] = todo[u]
       /\ todo'[t] = p /\ todo' \in [RefThreads -> Seq(RefSteps)]
  BY <1>3, <1>7, <1>8, <1>9
<1>11. /\ objects' \in [Objects -> [fate : {"unmade", "alive", "destroyed", "freed"}, count : Nat, freed_by : Allocators]]
       /\ \A x \in Objects : objects'[x].count = objects[x].count /\ objects'[x].fate = IF x = o THEN "destroyed" ELSE objects[x].fate
  BY <1>3, <1>4, <1>7 DEF RefTypeOK
<1>12. Doomed(t)' = Doomed(t) \cup {o} /\ Dying(t)' = {} /\ SpentIn(todo'[t]) = SpentIn(todo[t])
  BY <1>9, <1>10 DEF Doomed, Dying, q
<1>13. CallHolds(t)' /\ Used(t)' = Used(t)
  <2>1. ASSUME NEW s \in StepsOf(p) PROVE DoomIs(s)'
    <3>1. CASE s = Dec(o)
      BY <3>1 DEF DoomIs, Dec, RefStep
    <3>2. CASE s = DeallocateObject(h, o)
      BY <1>3, <1>4, <1>11, <3>2 DEF DoomIs, DeallocateObject, RefStep
    <3>3. CASE s \in StepsOf(q) /\ s.op # "destroy"
      <4>1. DoomIs(s)
        BY <3>3 DEF RefInv, CallsHold, CallHolds, q
      <4>2. s.op = "deallocate" => s.arg \in Objects /\ s.arg # o
        BY <1>4, <4>1 DEF DoomIs
      <4> QED
        BY <1>3, <1>11, <3>3, <4>1, <4>2 DEF DoomIs
    <3> QED
      BY <1>9, <3>1, <3>2, <3>3
  <2>2. WorksOnItsOwn(t)' /\ Used(t)' = Used(t)
    BY <1>2, <1>3, <1>9, <1>10, CallGoesOn DEF q
  <2> QED
    BY <1>9, <1>10, <2>1, <2>2 DEF CallHolds
<1>14. CallsHold' /\ CallsApart' /\ Spent' = Spent
  <2>1. \A u \in RefThreads : u # t => \A x \in Doomed(u) \cup Dying(u) : x \in Objects /\ x # o
    BY <1>5, UsedApart, DoomedIs DEF RefInv, CallsApart
  <2>2. \A u \in RefThreads : u # t => \A x \in Doomed(u) \cup Dying(u) : objects'[x].fate = objects[x].fate /\ objects'[x].count = objects[x].count
    BY <1>11, <2>1
  <2>3. CallsHold' /\ CallsApart' /\ Spent' = SpentOthers(t) \cup SpentIn(todo'[t])
    <3>1. /\ Used(t)' \subseteq Used(t) /\ Doomed(t)' \subseteq Doomed(t) \cup Dying(t)
          /\ \A u \in RefThreads : u # t => Dying(t)' \cap Dying(u) = {}
      BY <1>5, <1>12, <1>13
    <3> QED
      BY <1>3, <1>10, <1>13, <2>2, <3>1, ContinueKeeps
  <2> QED
    BY <1>12, <2>3, SpentSplit
<1>15. Counted'
  <2>1. \A x \in Objects : Holders(x)' = Holders(x)
    BY <1>3, <1>14 DEF Holders
  <2> QED
    BY <1>2, <1>11, <2>1 DEF RefInv, Counted
<1>16. FatesHold'
  <2>1. \A x \in Doomed(t) : \E u \in RefThreads : x \in Doomed(u)'
    BY <1>12
  <2> SUFFICES ASSUME NEW x \in Objects
               PROVE  /\ objects'[x].fate = "alive" /\ objects'[x].count = 0 => \E u \in RefThreads : x \in Dying(u)'
                      /\ objects'[x].fate = "destroyed" => \E u \in RefThreads : x \in Doomed(u)'
                      /\ objects'[x].fate # "alive" => objects'[x].count = 0
                      /\ objects'[x].fate = "unmade" => handles'[x].ptr = NoObject
    BY DEF FatesHold
  <2>2. CASE x = o
    BY <1>4, <1>11, <1>12, <2>2
  <2>3. CASE x # o
    BY <1>3, <1>5, <1>10, <1>11, <2>1, <2>3, FatesKept DEF RefInv, FatesHold
  <2> QED
    BY <2>2, <2>3
<1>17. RefTypeOK'
  BY <1>2, <1>3, <1>7, <1>10, <1>11 DEF RefTypeOK
<1> QED
  BY <1>14, <1>15, <1>16, <1>17 DEF RefInv

LEMMA DeallocateKeeps ==
  ASSUME RefAssumption, RefInv, NEW t \in RefThreads, Continue(t), todo[t][1].op = "deallocate"
  PROVE  RefInv'
<1> DEFINE q == todo[t]
<1>1. PICK h, o : h = q[1].at /\ o = q[1].arg
  OBVIOUS
<1>2. /\ q \in Seq(RefSteps) /\ q # <<>> /\ WellShaped(q) /\ Busy(t) /\ raw' = raw /\ q[1] \in StepsOf(q) /\ DoomIs(q[1]) /\ q[1] \in RefSteps
      /\ Used(t) = {EndOf(q).at, EndOf(q).from} /\ WorksOnItsOwn(t)
  BY ContinueFacts
<1>3. /\ objects' = [objects EXCEPT ![o].fate = "freed", ![o].freed_by = AllocatorOf(h)]
      /\ handles' = [handles EXCEPT ![h].ptr = NoObject, ![o] = Absent]
      /\ todo' = [todo EXCEPT ![t] = Tail(q)]
  BY <1>1, ContinueFacts DEF Continue, Then
<1>4. o \in Objects /\ objects[o].fate = "destroyed" /\ objects[o].count = 0 /\ handles[h].ptr = o
  BY <1>1, <1>2 DEF DoomIs
<1>5. /\ h \in Places /\ h \in {EndOf(q).at} \cup DoomedIn(q) /\ o \in DoomedIn(q)
      /\ SpentIn(q) = {EndOf(q).at} \cup DoomedIn(q) /\ DyingIn(q) = {}
  BY <1>1, <1>2, CallFacts DEF RefSteps, DyingIn
<1>6. o # EndOf(q).at /\ o \notin SpentOthers(t) /\ o # NoObject
  BY <1>2, <1>4, <1>5, UsedApart, SpentSplit DEF Doomed, RefAssumption
<1>7. todo \in [RefThreads -> Seq(RefSteps)] /\ RefTypeOK
  BY DEF RefInv, RefTypeOK
<1> HIDE DEF q
<1>8. PICK p : p = Tail(q)
  OBVIOUS
<1>9. /\ p \in Seq(RefSteps) /\ p # <<>> /\ WellShaped(p) /\ EndOf(p) = EndOf(q) /\ StepsOf(p) \subseteq StepsOf(q)
      /\ DoomedIn(p) = DoomedIn(q) \ {o} /\ DyingIn(p) = {} /\ SpentIn(p) = {EndOf(q).at} \cup (DoomedIn(q) \ {o})
  BY <1>1, <1>2, <1>8, TailCall DEF q
<1>10. /\ \A u \in RefThreads : u # t => todo'[u] = todo[u]
       /\ todo'[t] = p /\ todo' \in [RefThreads -> Seq(RefSteps)]
  BY <1>3, <1>7, <1>8, <1>9
<1>11. /\ objects' \in [Objects -> [fate : {"unmade", "alive", "destroyed", "freed"}, count : Nat, freed_by : Allocators]]
       /\ \A x \in Objects : objects'[x].count = objects[x].count /\ objects'[x].fate = IF x = o THEN "freed" ELSE objects[x].fate
  <2>1. objects \in [Objects -> [fate : {"unmade", "alive", "destroyed", "freed"}, count : Nat, freed_by : Allocators]]
    BY <1>7 DEF RefTypeOK
  <2>2. AllocatorOf(h) \in Allocators
    BY <1>5, <1>7, HandleFacts DEF AllocatorOf
  <2> QED
    BY <1>3, <1>4, <2>1, <2>2
<1>12. /\ handles' \in [Places -> [ptr : Objects \cup {NoObject}, alloc : Allocators]]
       /\ handles'[h].ptr = NoObject /\ handles'[o].ptr = NoObject
       /\ \A x \in Places : x \notin {h, o} => handles'[x] = handles[x]
  <2>1. handles \in [Places -> [ptr : Objects \cup {NoObject}, alloc : Allocators]]
    BY <1>7 DEF RefTypeOK
  <2>2. Absent \in [ptr : Objects \cup {NoObject}, alloc : Allocators] /\ Absent.ptr = NoObject
    BY DEF Absent, RefAssumption
  <2>3. o \in Places /\ [handles[h] EXCEPT !.ptr = NoObject] \in [ptr : Objects \cup {NoObject}, alloc : Allocators]
    BY <1>4, <1>5, <2>1 DEF Places
  <2> QED
    BY <1>3, <1>5, <2>1, <2>2, <2>3
<1>13. Doomed(t)' = Doomed(t) \ {o} /\ Dying(t)' = {} /\ Dying(t) = {} /\ SpentIn(todo'[t]) = SpentIn(todo[t]) \ {o}
       /\ {h, o} \subseteq Used(t) \cup Doomed(t)
  BY <1>2, <1>5, <1>6, <1>9, <1>10 DEF Doomed, Dying, q
<1>14. CallHolds(t)' /\ Used(t)' = Used(t)
  <2>1. ASSUME NEW s \in StepsOf(p) PROVE DoomIs(s)'
    <3>1. CASE s.op \in {"destroy", "deallocate"}
      <4>1. /\ s \in RefSteps /\ s.at \in {EndOf(p).at} \cup DoomedIn(p) /\ s.op # "destroy"
            /\ s.op = "deallocate" => s.arg \in DoomedIn(p)
        BY <1>9, <3>1, StepFacts
      <4>2. DoomIs(s)
        BY <1>9, <2>1 DEF RefInv, CallsHold, CallHolds, q
      <4>3. s.arg # o /\ s.at # o /\ s.at # h /\ s.at \in Places
        BY <1>4, <1>6, <1>9, <3>1, <4>1, <4>2 DEF DoomIs, RefSteps
      <4> QED
        BY <1>11, <1>12, <3>1, <4>1, <4>2, <4>3 DEF DoomIs
    <3>2. CASE s.op \notin {"destroy", "deallocate"}
      BY <3>2 DEF DoomIs
    <3> QED
      BY <3>1, <3>2
  <2>2. Used(t)' = Used(t) /\ Busy(t)'
    BY <1>2, <1>9, <1>10 DEF Used, Busy, q
  <2>3. PICK e : e = EndOf(q)
    OBVIOUS
  <2>4. \A g \in Own(t) : g # e.at => handles'[g] = handles[g]
    <3> SUFFICES ASSUME NEW g \in Own(t), g # e.at PROVE handles'[g] = handles[g]
      OBVIOUS
    <3>1. g \in Places /\ g \notin Objects /\ g \notin Doomed(t)
      BY <1>7, HandleFacts, DoomedIs
    <3> QED
      BY <1>4, <1>5, <1>12, <2>3, <3>1 DEF Doomed, q
  <2>5. \A x : Anchored(t, x) => Anchored(t, x)'
    BY <1>9, <1>10, <2>3, <2>4 DEF Anchored, Own, q
  <2>6. handles[e.at].ptr = NoObject => handles'[e.at].ptr = NoObject
    <3>1. e.at \in Places
      BY <1>2, <2>3, CallFacts DEF RefSteps
    <3> QED
      BY <1>12, <3>1
  <2>7. Anchored(t, e.from) /\ (Anchored(t, e.at) \/ (e.at \in Locals /\ handles[e.at].ptr = NoObject))
    BY <1>2, <2>3 DEF WorksOnItsOwn, q
  <2>8. WorksOnItsOwn(t)'
    <3>1. PICK x, y : x = e.at /\ y = e.from
      OBVIOUS
    <3>2. Anchored(t, y)' /\ (Anchored(t, x)' \/ (x \in Locals /\ handles'[x].ptr = NoObject))
      BY <2>5, <2>6, <2>7, <3>1
    <3>3. EndOf(todo'[t]).at = x /\ EndOf(todo'[t]).from = y
      BY <1>9, <1>10, <2>3, <3>1
    <3> QED
      BY <3>2, <3>3 DEF WorksOnItsOwn
  <2> QED
    BY <1>9, <1>10, <2>1, <2>2, <2>8 DEF CallHolds
<1>15. CallsHold' /\ CallsApart' /\ Spent' = Spent \ {o}
  <2>1. \A u \in RefThreads : u # t => \A x \in Doomed(u) \cup Dying(u) : x \in Objects /\ x # o
    BY <1>4, <1>5, <1>7, UsedApart, DoomedIs DEF RefInv, CallsApart, Doomed, q
  <2>2. \A u \in RefThreads : u # t => \A x \in Doomed(u) \cup Dying(u) : objects'[x].fate = objects[x].fate /\ objects'[x].count = objects[x].count
    BY <1>11, <2>1
  <2>3. \A x \in Places : x \notin Used(t) \cup Doomed(t) => handles'[x] = handles[x]
    BY <1>12, <1>13
  <2>4. CallsHold' /\ CallsApart' /\ Spent' = SpentOthers(t) \cup SpentIn(todo'[t])
    BY <1>10, <1>13, <1>14, <2>2, <2>3, ContinueKeeps
  <2> QED
    BY <1>6, <1>13, <2>4, SpentSplit
<1>16. Counted'
  <2>1. h \in Spent
    BY <1>5, SpentSplit DEF q
  <2>2. \A x \in Objects : Holders(x)' = Holders(x)
    <3>1. \A x \in Places : x \notin Spent' => handles'[x].ptr = NoObject \/ (x \notin Spent /\ handles'[x].ptr = handles[x].ptr)
      BY <1>12, <1>15
    <3>2. \A x \in Places : x \notin Spent => x \notin Spent' /\ (handles'[x].ptr = handles[x].ptr)
      <4>1. o \in Spent
        BY <1>5, SpentSplit DEF q
      <4> QED
        BY <1>12, <1>15, <2>1, <4>1
    <3>3. Places' = Places
      BY DEF Places
    <3> QED
      BY <1>7, <3>1, <3>2, <3>3, HandleFacts DEF Holders
  <2> QED
    BY <1>2, <1>11, <2>2 DEF RefInv, Counted
<1>17. FatesHold'
  <2>1. \A x \in Doomed(t) : x # o => \E u \in RefThreads : x \in Doomed(u)'
    BY <1>13
  <2> SUFFICES ASSUME NEW x \in Objects
               PROVE  /\ objects'[x].fate = "alive" /\ objects'[x].count = 0 => \E u \in RefThreads : x \in Dying(u)'
                      /\ objects'[x].fate = "destroyed" => \E u \in RefThreads : x \in Doomed(u)'
                      /\ objects'[x].fate # "alive" => objects'[x].count = 0
                      /\ objects'[x].fate = "unmade" => handles'[x].ptr = NoObject
    BY DEF FatesHold
  <2>2. CASE x = o
    BY <1>4, <1>11, <2>2
  <2>3. CASE x # o
    <3>1. handles'[x].ptr \in {NoObject, handles[x].ptr}
      BY <1>12, <2>3 DEF Places
    <3> QED
      BY <1>10, <1>11, <1>13, <2>1, <2>3, <3>1, FatesKept DEF RefInv, FatesHold
  <2> QED
    BY <2>2, <2>3
<1>18. RefTypeOK'
  BY <1>2, <1>7, <1>10, <1>11, <1>12 DEF RefTypeOK
<1> QED
  BY <1>15, <1>16, <1>17, <1>18 DEF RefInv

\* The last step of a call.
LEMMA LastFacts ==
  ASSUME RefAssumption, RefInv, NEW t \in RefThreads, Continue(t), NEW e, e = todo[t][1], e.op \in {"share", "move", "become"}
  PROVE  /\ todo' = [todo EXCEPT ![t] = <<>>] /\ raw' = raw /\ e.at \in Places /\ e.from \in Places
         /\ Used(t) = {e.at, e.from} /\ Doomed(t) = {} /\ Dying(t) = {} /\ SpentIn(todo[t]) = {e.at}
         /\ e.at \in Spent /\ e.at \notin SpentOthers(t) /\ (e.op = "become" <=> e.from = e.at) /\ (e.op # "become" => e.from \notin Spent)
         /\ e.op # "move" => e.arg \in Allocators
<1> DEFINE q == todo[t]
<1>1. /\ q \in Seq(RefSteps) /\ q # <<>> /\ WellShaped(q) /\ Busy(t) /\ raw' = raw /\ e \in RefSteps
      /\ <<>> \o Tail(q) = Tail(q) /\ Used(t) = {EndOf(q).at, EndOf(q).from}
  BY ContinueFacts
<1>2. Len(q) = 1 /\ EndOf(q) = e /\ DoomedIn(q) = {} /\ SpentIn(q) = {e.at}
  BY <1>1, CallFacts
<1>3. Tail(q) = <<>>
  BY <1>1, <1>2, SeqTail, EmptySeq
<1>4. todo' = [todo EXCEPT ![t] = <<>>]
  BY <1>1, <1>3, ContinueFacts DEF Continue, Then
<1>5. e.at \in Places /\ e.from \in Places /\ Dying(t) = {} /\ Doomed(t) = {} /\ Used(t) = {e.at, e.from}
  BY <1>1, <1>2 DEF RefSteps, Dying, DyingIn, Doomed
<1>6. (e.op = "become" <=> e.from = e.at) /\ (e.op # "move" => e.arg \in Allocators)
  BY <1>1, <1>2, ShapeEnd
<1>7. e.at \in Spent /\ e.at \notin SpentOthers(t) /\ e.from \notin SpentOthers(t)
  BY <1>2, <1>5, SpentSplit
<1> QED
  BY <1>1, <1>2, <1>4, <1>5, <1>6, <1>7, SpentSplit

LEMMA LastKeeps ==
  ASSUME RefAssumption, RefInv, NEW t \in RefThreads, Continue(t), NEW e, e = todo[t][1], e.op \in {"share", "move", "become"},
         handles' \in [Places -> [ptr : Objects \cup {NoObject}, alloc : Allocators]],
         \A x \in Places : x \notin {e.at, e.from} => handles'[x] = handles[x],
         objects' \in [Objects -> [fate : {"unmade", "alive", "destroyed", "freed"}, count : Nat, freed_by : Allocators]],
         \A x \in Objects : objects'[x].fate = objects[x].fate
                              /\ (objects'[x].count # objects[x].count => objects[x].count # 0 /\ objects'[x].count # 0)
  PROVE  RefTypeOK' /\ CallsHold' /\ CallsApart' /\ FatesHold' /\ Spent' = Spent \ {e.at}
<1>1. /\ todo' = [todo EXCEPT ![t] = <<>>] /\ raw' = raw /\ e.at \in Places /\ e.from \in Places
      /\ Used(t) = {e.at, e.from} /\ Doomed(t) = {} /\ Dying(t) = {} /\ SpentIn(todo[t]) = {e.at}
      /\ e.at \in Spent /\ e.at \notin SpentOthers(t)
  BY LastFacts
<1>2. RefTypeOK
  BY DEF RefInv
<1>3. todo'[t] = <<>> /\ (\A u \in RefThreads : u # t => todo'[u] = todo[u]) /\ todo' \in [RefThreads -> Seq(RefSteps)]
  BY <1>1, <1>2, EmptySeq DEF RefTypeOK
<1>4. CallHolds(t)' /\ Used(t)' = {} /\ Doomed(t)' = {} /\ Dying(t)' = {} /\ SpentIn(todo'[t]) = {}
  BY <1>3 DEF CallHolds, WellShaped, WorksOnItsOwn, Busy, Used, Doomed, Dying, DoomedIn, DyingIn, SpentIn, StepsOf
<1>5. CallsHold' /\ CallsApart' /\ Spent' = SpentOthers(t) \cup SpentIn(todo'[t])
  <2>1. \A u \in RefThreads : \A o \in Doomed(u) \cup Dying(u) : objects'[o].fate = objects[o].fate /\ objects'[o].count = objects[o].count
    BY DoomedIs
  <2>2. \A x \in Places : x \notin Used(t) \cup Doomed(t) => handles'[x] = handles[x]
    BY <1>1
  <2>3. Used(t)' \subseteq Used(t) /\ Doomed(t)' \subseteq Doomed(t) \cup Dying(t) /\ \A u \in RefThreads : u # t => Dying(t)' \cap Dying(u) = {}
    BY <1>4
  <2> QED
    BY <1>3, <1>4, <2>1, <2>2, <2>3, ContinueKeeps
<1>6. Spent' = Spent \ {e.at}
  BY <1>1, <1>4, <1>5, SpentSplit
<1>7. FatesHold'
  <2> SUFFICES ASSUME NEW x \in Objects
               PROVE  /\ objects'[x].fate = "alive" /\ objects'[x].count = 0 => \E u \in RefThreads : x \in Dying(u)'
                      /\ objects'[x].fate = "destroyed" => \E u \in RefThreads : x \in Doomed(u)'
                      /\ objects'[x].fate # "alive" => objects'[x].count = 0
                      /\ objects'[x].fate = "unmade" => handles'[x].ptr = NoObject
    BY DEF FatesHold
  <2>1. objects[x].fate = "unmade" => handles'[x] = handles[x]
    <3>1. x \in Used(t) => objects[x].fate = "alive"
      BY UsedLives
    <3> QED
      BY <1>1, <3>1 DEF Places
  <2> QED
    BY <1>1, <1>3, <2>1, FatesKept DEF RefInv, FatesHold
<1>8. RefTypeOK'
  BY <1>1, <1>2, <1>3 DEF RefTypeOK
<1> QED
  BY <1>5, <1>6, <1>7, <1>8

LEMMA ShareKeeps ==
  ASSUME RefAssumption, RefInv, NEW t \in RefThreads, Continue(t), todo[t][1].op = "share"
  PROVE  RefInv'
<1>1. PICK e, h, from, p : e = todo[t][1] /\ h = e.at /\ from = e.from /\ p = handles[from].ptr
  OBVIOUS
<1>2. /\ raw' = raw /\ h \in Places /\ from \in Places /\ h \in Spent /\ h # from /\ from \notin Spent /\ e.arg \in Allocators
  BY <1>1, LastFacts
<1>3. /\ handles' = [handles EXCEPT ![h] = [ptr |-> p, alloc |-> e.arg]]
      /\ objects' = IF p = NoObject THEN objects ELSE [objects EXCEPT ![p].count = @ + 1]
  BY <1>1, ContinueFacts DEF Continue
<1>4. RefTypeOK /\ p \in Objects \cup {NoObject} /\ NoObject \notin Objects
  BY <1>1, <1>2, HandleFacts DEF RefInv
<1>5. p # NoObject => objects[p].count >= 1 /\ objects[p].fate = "alive" /\ objects[p].count \in Nat
  BY <1>1, <1>2, <1>4, HeldIsAlive, HandleFacts
<1>6. /\ handles' \in [Places -> [ptr : Objects \cup {NoObject}, alloc : Allocators]]
      /\ handles'[h].ptr = p /\ \A x \in Places : x # h => handles'[x] = handles[x]
  BY <1>2, <1>3, <1>4 DEF RefTypeOK
<1>7. /\ objects' \in [Objects -> [fate : {"unmade", "alive", "destroyed", "freed"}, count : Nat, freed_by : Allocators]]
      /\ \A x \in Objects : objects'[x].fate = objects[x].fate /\ objects'[x].count = IF x = p THEN objects[x].count + 1 ELSE objects[x].count
  <2>1. objects \in [Objects -> [fate : {"unmade", "alive", "destroyed", "freed"}, count : Nat, freed_by : Allocators]]
    BY <1>4 DEF RefTypeOK
  <2> QED
    BY <1>3, <1>4, <2>1
<1>8. \A x \in Objects : objects[x].count \in Nat /\ Cardinality(Holders(x)) \in Nat /\ IsFiniteSet(Holders(x)) /\ Cardinality({x} \cap raw) \in Nat
  BY <1>4, HandleFacts
<1>9. RefTypeOK' /\ CallsHold' /\ CallsApart' /\ FatesHold' /\ Spent' = Spent \ {h}
  <2>1. \A x \in Objects : objects'[x].fate = objects[x].fate
                              /\ (objects'[x].count # objects[x].count => objects[x].count # 0 /\ objects'[x].count # 0)
    BY <1>4, <1>5, <1>7, <1>8
  <2>2. \A x \in Places : x \notin {e.at, e.from} => handles'[x] = handles[x]
    BY <1>1, <1>6
  <2>3. e.op \in {"share", "move", "become"}
    BY <1>1
  <2> QED
    BY <1>1, <1>6, <1>7, <2>1, <2>2, <2>3, LastKeeps
<1>10. Counted'
  <2>1. \A x \in Objects : Holders(x)' = IF x = p THEN Holders(x) \cup {h} ELSE Holders(x)
    BY <1>2, <1>6, <1>9 DEF Holders, Places
  <2>2. \A x \in Objects : h \notin Holders(x)
    BY <1>2 DEF Holders
  <2>3. ASSUME NEW x \in Objects PROVE objects'[x].count = Cardinality(Holders(x)') + Cardinality({x} \cap raw')
    <3>1. objects[x].count = Cardinality(Holders(x)) + Cardinality({x} \cap raw)
      BY DEF RefInv, Counted
    <3>2. x = p => Cardinality(Holders(x)') = Cardinality(Holders(x)) + 1
      BY <1>8, <2>1, <2>2, FS_AddElement
    <3>3. x # p => Holders(x)' = Holders(x)
      BY <2>1
    <3>4. objects'[x].count = IF x = p THEN objects[x].count + 1 ELSE objects[x].count
      BY <1>7
    <3> QED
      BY <1>2, <1>8, <3>1, <3>2, <3>3, <3>4
  <2> QED
    BY <2>3 DEF Counted
<1> QED
  BY <1>9, <1>10 DEF RefInv

LEMMA MoveKeeps ==
  ASSUME RefAssumption, RefInv, NEW t \in RefThreads, Continue(t), todo[t][1].op = "move"
  PROVE  RefInv'
<1>1. PICK e, h, from, p : e = todo[t][1] /\ h = e.at /\ from = e.from /\ p = handles[from].ptr
  OBVIOUS
<1>2. raw' = raw /\ h \in Places /\ from \in Places /\ h \in Spent /\ h # from /\ from \notin Spent
  BY <1>1, LastFacts
<1>3. handles' = Moved(h, from) /\ objects' = objects
  BY <1>1, ContinueFacts DEF Continue
<1>4. RefTypeOK /\ p \in Objects \cup {NoObject} /\ NoObject \notin Objects /\ Assigned(h, from) \in Allocators
  BY <1>1, <1>2, HandleFacts DEF RefInv, Assigned
<1>5. /\ handles' \in [Places -> [ptr : Objects \cup {NoObject}, alloc : Allocators]]
      /\ handles'[h].ptr = p /\ handles'[from].ptr = NoObject /\ \A x \in Places : x \notin {h, from} => handles'[x] = handles[x]
  <2>1. handles \in [Places -> [ptr : Objects \cup {NoObject}, alloc : Allocators]]
    BY <1>4 DEF RefTypeOK
  <2>2. [ptr |-> handles[from].ptr, alloc |-> Assigned(h, from)] \in [ptr : Objects \cup {NoObject}, alloc : Allocators]
    BY <1>1, <1>4
  <2>3. [handles[from] EXCEPT !.ptr = NoObject] \in [ptr : Objects \cup {NoObject}, alloc : Allocators]
    BY <1>2, <2>1
  <2> QED
    BY <1>1, <1>2, <1>3, <2>1, <2>2, <2>3 DEF Moved
<1>6. RefTypeOK' /\ CallsHold' /\ CallsApart' /\ FatesHold' /\ Spent' = Spent \ {h}
  <2>1. objects' \in [Objects -> [fate : {"unmade", "alive", "destroyed", "freed"}, count : Nat, freed_by : Allocators]]
    BY <1>3, <1>4 DEF RefTypeOK
  <2>2. e.op \in {"share", "move", "become"}
    BY <1>1
  <2> QED
    BY <1>1, <1>3, <1>5, <2>1, <2>2, LastKeeps
<1>7. Counted'
  <2>1. \A x \in Objects : Holders(x)' = IF x = p THEN (Holders(x) \ {from}) \cup {h} ELSE Holders(x)
    BY <1>1, <1>2, <1>4, <1>5, <1>6 DEF Holders, Places
  <2>2. \A x \in Objects : h \notin Holders(x) /\ (x = p => from \in Holders(x))
    BY <1>1, <1>2 DEF Holders
  <2>3. ASSUME NEW x \in Objects PROVE Cardinality(Holders(x)') = Cardinality(Holders(x))
    <3>1. CASE x # p
      BY <2>1, <3>1
    <3>2. CASE x = p
      <4>1. IsFiniteSet(Holders(x)) /\ Cardinality(Holders(x)) \in Nat
        BY <1>4, HandleFacts
      <4>2. IsFiniteSet(Holders(x) \ {from}) /\ Cardinality(Holders(x) \ {from}) = Cardinality(Holders(x)) - 1
        BY <2>2, <3>2, <4>1, FS_RemoveElement
      <4>3. Cardinality((Holders(x) \ {from}) \cup {h}) = Cardinality(Holders(x) \ {from}) + 1
        BY <2>2, <4>2, FS_AddElement
      <4>4. Holders(x)' = (Holders(x) \ {from}) \cup {h}
        BY <2>1, <3>2
      <4>5. Cardinality(Holders(x)') = (Cardinality(Holders(x)) - 1) + 1
        BY <4>2, <4>3, <4>4
      <4> QED
        BY <4>1, <4>5
    <3> QED
      BY <3>1, <3>2
  <2> QED
    BY <1>2, <1>3, <2>3 DEF RefInv, Counted
<1> QED
  BY <1>6, <1>7 DEF RefInv

LEMMA BecomeKeeps ==
  ASSUME RefAssumption, RefInv, NEW t \in RefThreads, Continue(t), todo[t][1].op = "become"
  PROVE  RefInv'
<1>1. PICK e, h : e = todo[t][1] /\ h = e.at
  OBVIOUS
<1>2. raw' = raw /\ h \in Places /\ h \in Spent /\ e.arg \in Allocators
  BY <1>1, LastFacts
<1>3. handles' = [handles EXCEPT ![h] = NullHandle(e.arg)] /\ objects' = objects
  BY <1>1, ContinueFacts DEF Continue
<1>4. RefTypeOK /\ NoObject \notin Objects
  BY HandleFacts DEF RefInv
<1>5. /\ handles' \in [Places -> [ptr : Objects \cup {NoObject}, alloc : Allocators]]
      /\ handles'[h].ptr = NoObject /\ \A x \in Places : x # h => handles'[x] = handles[x]
  BY <1>2, <1>3, <1>4 DEF RefTypeOK, NullHandle
<1>6. RefTypeOK' /\ CallsHold' /\ CallsApart' /\ FatesHold' /\ Spent' = Spent \ {h}
  <2>1. objects' \in [Objects -> [fate : {"unmade", "alive", "destroyed", "freed"}, count : Nat, freed_by : Allocators]]
    BY <1>3, <1>4 DEF RefTypeOK
  <2>2. e.op \in {"share", "move", "become"}
    BY <1>1
  <2> QED
    BY <1>1, <1>3, <1>5, <2>1, <2>2, LastKeeps
<1>7. \A x \in Objects : Holders(x)' = Holders(x)
  BY <1>2, <1>4, <1>5, <1>6 DEF Holders, Places
<1> QED
  BY <1>2, <1>3, <1>6, <1>7 DEF RefInv, Counted

LEMMA ContinueInv ==
  ASSUME RefAssumption, RefInv, NEW t \in RefThreads, Continue(t)
  PROVE  RefInv'
<1>1. todo[t][1].op \in RefOps
  BY ContinueFacts DEF RefSteps
<1> QED
  BY <1>1, DecKeeps, DestroyKeeps, DeallocateKeeps, ShareKeeps, MoveKeeps, BecomeKeeps DEF RefOps

\* A thread that is idle begins a call.
LEMMA IdleFacts ==
  ASSUME NEW t \in RefThreads, Idle(t)
  PROVE  Used(t) = {} /\ Doomed(t) = {} /\ Dying(t) = {} /\ SpentIn(todo[t]) = {} /\ Spent = SpentOthers(t)
<1>1. Used(t) = {} /\ Doomed(t) = {} /\ Dying(t) = {} /\ SpentIn(todo[t]) = {}
  BY DEF Idle, Used, Busy, Doomed, DoomedIn, StepsOf, Dying, DyingIn, SpentIn
<1> QED
  BY <1>1 DEF Spent, SpentOthers

LEMMA FreeHandle ==
  ASSUME RefAssumption, RefInv, NEW h \in Locals, ~InUse(h), NEW u \in RefThreads
  PROVE  h \notin Used(u) \cup Doomed(u) /\ h \notin Spent
<1>1. \A w \in RefThreads : h \notin Used(w) \cup Doomed(w)
  <2> SUFFICES ASSUME NEW w \in RefThreads PROVE h \notin Used(w) /\ h \notin Doomed(w)
    OBVIOUS
  <2>1. h \notin Doomed(w)
    BY DoomedIs DEF RefAssumption
  <2>2. Busy(w) => Len(todo[w]) \in DOMAIN todo[w]
    BY SeqTail, HandleFacts DEF Busy, RefInv
  <2> QED
    BY <2>1, <2>2 DEF InUse, Used, EndOf
<1> QED
  BY <1>1, SpentIsUsed DEF Spent

LEMMA BeginKeeps ==
  ASSUME RefAssumption, RefInv, NEW t \in RefThreads, Idle(t), NEW p, Begin(t, p),
         p \in Seq(RefSteps), p # <<>>, WellShaped(p), DoomedIn(p) = {}, DyingIn(p) = {},
         \A h \in SpentIn(p) : handles[h].ptr = NoObject,
         \A u \in RefThreads : EndOf(p).at \notin Used(u) /\ EndOf(p).from \notin Used(u),
         WorksOnItsOwn(t)'
  PROVE  RefInv'
<1>1. RefTypeOK /\ handles' = handles /\ objects' = objects /\ raw' = raw /\ todo' = [todo EXCEPT ![t] = p]
  BY DEF RefInv, Begin
<1>2. todo'[t] = p /\ (\A u \in RefThreads : u # t => todo'[u] = todo[u]) /\ todo' \in [RefThreads -> Seq(RefSteps)]
  BY <1>1 DEF RefTypeOK
<1>3. Used(t)' = {EndOf(p).at, EndOf(p).from} /\ Doomed(t)' = {} /\ Dying(t)' = {}
  BY <1>2 DEF Used, Busy, Doomed, Dying
<1>4. CallHolds(t)'
  <2>1. ASSUME NEW s \in StepsOf(p) PROVE DoomIs(s)'
    <3>1. s.op \notin {"destroy", "deallocate"}
      BY <2>1, StepFacts
    <3> QED
      BY <3>1 DEF DoomIs
  <2> QED
    BY <1>2, <2>1 DEF CallHolds
<1>5. CallsHold' /\ CallsApart' /\ Spent' = SpentOthers(t) \cup SpentIn(todo'[t])
  <2>1. \A u \in RefThreads : u # t => \A o \in Doomed(u) \cup Dying(u) : objects'[o].fate = objects[o].fate /\ objects'[o].count = objects[o].count
    BY <1>1
  <2>2. \A x \in Places : x \notin {} => handles'[x] = handles[x]
    BY <1>1
  <2>3. \A u \in RefThreads : u # t => {} \cap (Used(u) \cup Doomed(u)) = {}
    OBVIOUS
  <2>4. \A u \in RefThreads : u # t => \A g \in Own(u) : handles[g].ptr # NoObject => g \notin {}
    OBVIOUS
  <2>5. \A u \in RefThreads : u # t => Used(t)' \cap Used(u) = {} /\ Doomed(t)' \cap Doomed(u) = {} /\ Dying(t)' \cap Dying(u) = {}
    BY <1>3
  <2> QED
    BY <1>2, <1>4, <2>1, <2>2, <2>3, <2>4, <2>5, StepKeeps
<1>6. Counted'
  <2>1. \A x \in Objects : Holders(x)' = Holders(x)
    <3>1. NoObject \notin Objects /\ Spent = SpentOthers(t)
      BY IdleFacts DEF RefAssumption
    <3> QED
      BY <1>1, <1>2, <1>5, <3>1 DEF Holders
  <2> QED
    BY <1>1, <2>1 DEF RefInv, Counted
<1>7. FatesHold'
  BY <1>1, <1>2, IdleFacts, FatesKept DEF RefInv, FatesHold
<1>8. RefTypeOK'
  BY <1>1, <1>2 DEF RefTypeOK
<1> QED
  BY <1>5, <1>6, <1>7, <1>8 DEF RefInv

\* A handle gives up what it has, and is then written.
LEMMA GiveUpKeeps ==
  ASSUME RefAssumption, RefInv, NEW t \in RefThreads, Idle(t), NEW h, NEW from, Usable(t, h), Usable(t, from),
         from \in Objects /\ from # h => \E g \in Own(t) \ {h} : handles[g].ptr = from,
         NEW last \in RefSteps, last.at = h, last.from = from, last.op \in {"share", "move", "become"},
         last.op = "become" <=> from = h, last.op # "move" => last.arg \in Allocators,
         Begin(t, <<Dec(h), last>>)
  PROVE  RefInv'
<1>1. PICK p : p = <<Dec(h), last>>
  OBVIOUS
<1>2. /\ h \in Places /\ from \in Places
      /\ h \in Own(t) \/ (h \in Objects /\ \E g \in Own(t) : handles[g].ptr = h)
      /\ from \in Own(t) \/ (from \in Objects /\ \E g \in Own(t) : handles[g].ptr = from)
      /\ \A u \in RefThreads : h \notin Used(u) /\ from \notin Used(u)
  BY UsableFacts
<1>3. p \in Seq(RefSteps) /\ p # <<>> /\ WellShaped(p) /\ EndOf(p) = last /\ DoomedIn(p) = {} /\ DyingIn(p) = {} /\ SpentIn(p) = {}
  BY <1>1, <1>2, NewCall
<1>4. RefTypeOK /\ handles' = handles /\ todo'[t] = p
  BY <1>1 DEF RefInv, RefTypeOK, Begin
<1>5. \A g \in Own(t) : g \notin Objects
  BY <1>4, HandleFacts
<1>6. WorksOnItsOwn(t)'
  <2>1. h \in Own(t) \/ (h \in Objects /\ \E g \in Own(t) \ {h} : handles[g].ptr = h)
    BY <1>2, <1>5
  <2>2. from \in Own(t) \/ (from \in Objects /\ \E g \in Own(t) \ {h} : handles[g].ptr = from)
    BY <1>2, <2>1
  <2>3. EndOf(todo'[t]).at = h /\ EndOf(todo'[t]).from = from
    BY <1>3, <1>4
  <2>4. Anchored(t, h)' /\ Anchored(t, from)'
    BY <1>4, <2>1, <2>2, <2>3 DEF Anchored, Own
  <2> QED
    BY <2>3, <2>4 DEF WorksOnItsOwn
<1>7. Begin(t, p)
  BY <1>1
<1> QED
  BY <1>2, <1>3, <1>6, <1>7, BeginKeeps

LEMMA AssignKeeps ==
  ASSUME RefAssumption, RefInv, NEW t \in RefThreads, NEW h \in Places, NEW from \in Places, SourceKept(t, h, from),
         CopyAssign(t, h, from) \/ MoveAssign(t, h, from)
  PROVE  RefInv'
<1>1. Idle(t) /\ Usable(t, h) /\ Usable(t, from) /\ h # from
  BY DEF CopyAssign, MoveAssign
<1>2. from \in Objects => \E g \in Own(t) \ {h} : handles[g].ptr = from
  <2>1. from \in Own(t) \/ (from \in Objects /\ \E g \in Own(t) : handles[g].ptr = from)
    BY <1>1, UsableFacts
  <2>2. \A g \in Own(t) : g \notin Objects
    BY HandleFacts DEF RefInv
  <2> QED
    BY <1>1, <2>1, <2>2 DEF SourceKept
<1>3. Assigned(h, from) \in Allocators
  BY HandleFacts DEF RefInv, Assigned
<1>4. CASE CopyAssign(t, h, from)
  <2>1. PICK last : last = Share(h, from, Assigned(h, from))
    OBVIOUS
  <2>2. last \in RefSteps /\ last.at = h /\ last.from = from /\ last.op = "share" /\ last.arg \in Allocators
    BY <1>3, <2>1 DEF Share, RefStep, RefSteps, RefOps
  <2>3. Begin(t, <<Dec(h), last>>)
    BY <1>4, <2>1 DEF CopyAssign
  <2> QED
    BY <1>1, <1>2, <2>2, <2>3, GiveUpKeeps
<1>5. CASE MoveAssign(t, h, from)
  <2>1. PICK last : last = MovePtr(h, from)
    OBVIOUS
  <2>2. last \in RefSteps /\ last.at = h /\ last.from = from /\ last.op = "move"
    BY <2>1 DEF MovePtr, RefStep, RefSteps, RefOps
  <2>3. Begin(t, <<Dec(h), last>>)
    BY <1>5, <2>1 DEF MoveAssign
  <2> QED
    BY <1>1, <1>2, <2>2, <2>3, GiveUpKeeps
<1> QED
  BY <1>4, <1>5

LEMMA ResetKeeps ==
  ASSUME RefAssumption, RefInv, NEW t \in RefThreads, NEW h \in Places, ResetHandle(t, h) \/ EndOfScope(t, h)
  PROVE  RefInv'
<1>1. PICK a : Idle(t) /\ Usable(t, h) /\ a \in Allocators /\ Begin(t, <<Dec(h), Become(h, a)>>)
  <2>1. handles[h].alloc \in Allocators /\ NoAllocator \in Allocators
    BY HandleFacts DEF RefInv, RefAssumption
  <2> QED
    BY <2>1 DEF ResetHandle, EndOfScope
<1>2. PICK last : last = Become(h, a)
  OBVIOUS
<1>3. last \in RefSteps /\ last.at = h /\ last.from = h /\ last.op = "become" /\ last.arg \in Allocators
  BY <1>1, <1>2 DEF Become, RefStep, RefSteps, RefOps
<1> QED
  BY <1>1, <1>2, <1>3, GiveUpKeeps

LEMMA CopyConstructKeeps ==
  ASSUME RefAssumption, RefInv, NEW t \in RefThreads, NEW h \in Places, NEW from \in Places, CopyConstruct(t, h, from)
  PROVE  RefInv'
<1>1. Idle(t) /\ Usable(t, from) /\ h \in Locals /\ handles[h] = Absent /\ ~InUse(h) /\ h # from
  BY DEF CopyConstruct, Usable, Constructed, Absent
<1>2. handles[h].ptr = NoObject /\ Selected(handles[from].alloc) \in Allocators /\ RefTypeOK /\ NoObject \notin Objects
  BY <1>1, HandleFacts DEF Absent, RefInv, RefAssumption
<1>3. PICK last : last = Share(h, from, Selected(handles[from].alloc))
  OBVIOUS
<1>4. last \in RefSteps /\ last.at = h /\ last.from = from /\ last.op = "share" /\ last.arg \in Allocators
  BY <1>2, <1>3 DEF Share, RefStep, RefSteps, RefOps
<1>5. PICK p : p = <<last>>
  OBVIOUS
<1>6. p \in Seq(RefSteps) /\ p # <<>> /\ WellShaped(p) /\ EndOf(p) = last /\ DoomedIn(p) = {} /\ DyingIn(p) = {} /\ SpentIn(p) = {h}
  BY <1>1, <1>4, <1>5, NewCall
<1>7. Begin(t, p) /\ todo'[t] = p /\ handles' = handles
  BY <1>2, <1>3, <1>5 DEF CopyConstruct, Begin, RefTypeOK
<1>8. from \in Own(t) \/ (from \in Objects /\ \E g \in Own(t) \ {h} : handles[g].ptr = from)
  BY <1>1, <1>2, UsableFacts
<1>9. WorksOnItsOwn(t)'
  <2>1. EndOf(todo'[t]).at = h /\ EndOf(todo'[t]).from = from
    BY <1>4, <1>6, <1>7
  <2>2. Anchored(t, from)'
    BY <1>7, <1>8, <2>1 DEF Anchored, Own
  <2> QED
    BY <1>1, <1>2, <1>7, <2>1, <2>2 DEF WorksOnItsOwn
<1>10. \A u \in RefThreads : h \notin Used(u) /\ from \notin Used(u)
  BY <1>1, FreeHandle, UsableFacts
<1> QED
  BY <1>1, <1>2, <1>4, <1>6, <1>7, <1>9, <1>10, BeginKeeps

\* A call of one step, between those of the others.
LEMMA AtOnceKeeps ==
  ASSUME RefAssumption, RefInv, NEW t \in RefThreads, Idle(t), todo' = todo, NEW W,
         \A x \in Places : x \notin W => handles'[x] = handles[x],
         \A u \in RefThreads : u # t => W \cap (Used(u) \cup Doomed(u)) = {},
         \A x \in W : x \in Objects \/ x \in Own(t),
         \A x \in Objects : objects[x].fate # "unmade" => objects'[x] = objects[x] \/ (objects[x].count # 0 /\ objects'[x].count # 0)
  PROVE  CallsHold' /\ CallsApart' /\ Spent' = Spent
<1>1. \A u \in RefThreads : todo'[u] = todo[u]
  OBVIOUS
<1>2. todo'[t] = <<>>
  BY DEF Idle
<1>3. CallHolds(t)'
  BY <1>2 DEF CallHolds, WellShaped, WorksOnItsOwn, Busy, StepsOf
<1>4. Used(t)' = {} /\ Doomed(t)' = {} /\ Dying(t)' = {} /\ SpentIn(todo'[t]) = SpentIn(todo[t])
  BY <1>2 DEF Used, Busy, Doomed, DoomedIn, StepsOf, Dying, DyingIn
<1>5. \A u \in RefThreads : u # t => \A g \in Own(u) : handles[g].ptr # NoObject => g \notin W
  BY HandleFacts DEF RefInv
<1>6. \A u \in RefThreads : u # t => \A o \in Doomed(u) \cup Dying(u) : objects'[o].fate = objects[o].fate /\ objects'[o].count = objects[o].count
  BY DoomedIs
<1>7. \A u \in RefThreads : u # t =>
        Used(t)' \cap Used(u) = {} /\ Doomed(t)' \cap Doomed(u) = {} /\ Dying(t)' \cap Dying(u) = {}
  BY <1>4
<1>8. CallsHold' /\ CallsApart' /\ Spent' = SpentOthers(t) \cup SpentIn(todo'[t])
  BY <1>1, <1>3, <1>5, <1>6, <1>7, StepKeeps
<1> QED
  BY <1>4, <1>8, SpentSplit

LEMMA SwapCard ==
  ASSUME NEW S, IsFiniteSet(S), NEW a \in S, NEW b, b \notin S
  PROVE  Cardinality((S \ {a}) \cup {b}) = Cardinality(S)
<1>1. Cardinality(S) \in Nat
  BY FS_CardinalityType
<1>2. IsFiniteSet(S \ {a}) /\ Cardinality(S \ {a}) = Cardinality(S) - 1
  BY FS_RemoveElement
<1>3. Cardinality((S \ {a}) \cup {b}) = Cardinality(S \ {a}) + 1
  BY <1>2, FS_AddElement
<1> QED
  BY <1>1, <1>2, <1>3

LEMMA MakeArcKeeps ==
  ASSUME RefAssumption, RefInv, NEW t \in RefThreads, NEW h \in Places, NEW o \in Objects, MakeArcWith(t, h, o)
  PROVE  RefInv'
<1>1. /\ Idle(t) /\ h \in Own(t) /\ h \in Locals /\ handles[h].ptr = NoObject /\ ~InUse(h) /\ objects[o].fate = "unmade"
      /\ raw' = raw /\ todo' = todo
  BY DEF MakeArcWith, Absent, Own
<1>2. /\ RefTypeOK /\ NoObject \notin Objects /\ h # o /\ o \in Places
      /\ Maker(o) \in Allocators /\ DefaultAllocator \in Allocators /\ NoAllocator \in Allocators
  BY <1>1, HandleFacts DEF RefInv, RefAssumption
<1>3. objects[o].count = 0 /\ handles[o].ptr = NoObject
  BY <1>1 DEF RefInv, FatesHold
<1>4. /\ objects' \in [Objects -> [fate : {"unmade", "alive", "destroyed", "freed"}, count : Nat, freed_by : Allocators]]
      /\ objects'[o].fate = "alive" /\ objects'[o].count = 1 /\ \A x \in Objects : x # o => objects'[x] = objects[x]
  <2>1. objects' = [objects EXCEPT ![o] = [fate |-> "alive", count |-> 1, freed_by |-> NoAllocator]]
    BY DEF MakeArcWith
  <2> QED
    BY <1>2, <2>1 DEF RefTypeOK
<1>5. /\ handles' \in [Places -> [ptr : Objects \cup {NoObject}, alloc : Allocators]]
      /\ handles'[h].ptr = o /\ handles'[o].ptr = NoObject /\ \A x \in Places : x \notin {h, o} => handles'[x] = handles[x]
  <2>1. handles' = [handles EXCEPT ![h] = [ptr |-> o, alloc |-> Maker(o)], ![o] = NullHandle(DefaultAllocator)]
    BY DEF MakeArcWith
  <2>2. NullHandle(DefaultAllocator) \in [ptr : Objects \cup {NoObject}, alloc : Allocators] /\ NullHandle(DefaultAllocator).ptr = NoObject
    BY <1>2 DEF NullHandle
  <2>3. [ptr |-> o, alloc |-> Maker(o)] \in [ptr : Objects \cup {NoObject}, alloc : Allocators]
    BY <1>2
  <2> QED
    BY <1>2, <2>1, <2>2, <2>3 DEF RefTypeOK
<1>6. h \notin Spent /\ \A u \in RefThreads : h \notin Used(u) \cup Doomed(u)
  BY <1>1, FreeHandle
<1>7. \A u \in RefThreads : o \notin Used(u) \cup Doomed(u)
  BY <1>1, UsedLives, DoomedIs
<1>8. CallsHold' /\ CallsApart' /\ Spent' = Spent
  <2> DEFINE W == {h, o}
  <2>1. \A u \in RefThreads : u # t => W \cap (Used(u) \cup Doomed(u)) = {}
    BY <1>6, <1>7
  <2>2. \A x \in W : x \in Objects \/ x \in Own(t)
    BY <1>1
  <2>3. \A x \in Places : x \notin W => handles'[x] = handles[x]
    BY <1>5
  <2>4. \A x \in Objects : objects[x].fate # "unmade" => objects'[x] = objects[x]
    BY <1>1, <1>4
  <2> HIDE DEF W
  <2> QED
    BY <1>1, <2>1, <2>2, <2>3, <2>4, AtOnceKeeps
<1>9. Counted'
  <2>1. \A x \in Objects : Holders(x)' = IF x = o THEN Holders(o) \cup {h} ELSE Holders(x)
    BY <1>1, <1>2, <1>3, <1>5, <1>6, <1>8 DEF Holders
  <2>2. IsFiniteSet(Holders(o)) /\ Cardinality(Holders(o)) \in Nat /\ Cardinality({o} \cap raw) \in Nat /\ h \notin Holders(o)
    BY <1>1, <1>2, HandleFacts DEF Holders
  <2>3. Cardinality(Holders(o)) = 0 /\ Cardinality({o} \cap raw) = 0
    BY <1>3, <2>2 DEF RefInv, Counted
  <2>4. Cardinality(Holders(o)') = 1
    <3>1. Holders(o)' = Holders(o) \cup {h}
      BY <2>1
    <3>2. Cardinality(Holders(o)') = Cardinality(Holders(o)) + 1
      BY <2>2, <3>1, FS_AddElement
    <3> QED
      BY <2>3, <3>2
  <2>5. ASSUME NEW x \in Objects PROVE objects'[x].count = Cardinality(Holders(x)') + Cardinality({x} \cap raw')
    <3>1. CASE x = o
      BY <1>1, <1>4, <2>3, <2>4, <3>1
    <3>2. CASE x # o
      BY <1>1, <1>4, <2>1, <3>2 DEF RefInv, Counted
    <3> QED
      BY <3>1, <3>2
  <2> QED
    BY <2>5 DEF Counted
<1>10. FatesHold'
  <2> SUFFICES ASSUME NEW x \in Objects
               PROVE  /\ objects'[x].fate = "alive" /\ objects'[x].count = 0 => \E u \in RefThreads : x \in Dying(u)'
                      /\ objects'[x].fate = "destroyed" => \E u \in RefThreads : x \in Doomed(u)'
                      /\ objects'[x].fate # "alive" => objects'[x].count = 0
                      /\ objects'[x].fate = "unmade" => handles'[x].ptr = NoObject
    BY DEF FatesHold
  <2>1. CASE x = o
    BY <1>4, <2>1
  <2>2. CASE x # o
    <3>1. x \in Places /\ x \notin {h, o} /\ \A u \in RefThreads : Dying(u)' = Dying(u) /\ Doomed(u)' = Doomed(u)
      BY <1>1, <2>2 DEF RefAssumption, Places, Dying, Doomed
    <3> QED
      BY <1>4, <1>5, <2>2, <3>1 DEF RefInv, FatesHold
  <2> QED
    BY <2>1, <2>2
<1>11. RefTypeOK'
  BY <1>1, <1>2, <1>4, <1>5 DEF RefTypeOK
<1> QED
  BY <1>8, <1>9, <1>10, <1>11 DEF RefInv

\* A pointer leaves a handle, for a new one or for the caller.
LEMMA PointerMoves ==
  ASSUME RefAssumption, RefInv, NEW t \in RefThreads, Idle(t), todo' = todo, objects' = objects,
         NEW W, \A x \in W : x \in Places /\ x \notin Spent /\ (x \in Objects \/ x \in Own(t)),
         \A u \in RefThreads : W \cap (Used(u) \cup Doomed(u)) = {},
         handles' \in [Places -> [ptr : Objects \cup {NoObject}, alloc : Allocators]],
         \A x \in Places : x \notin W => handles'[x] = handles[x],
         \A x \in W : x \in Objects => handles'[x].ptr = NoObject,
         raw' \in SUBSET Objects,
         \A x \in Objects : Cardinality(Holders(x)') + Cardinality({x} \cap raw') = Cardinality(Holders(x)) + Cardinality({x} \cap raw)
  PROVE  RefInv'
<1>1. CallsHold' /\ CallsApart' /\ Spent' = Spent
  <2>1. /\ \A u \in RefThreads : u # t => W \cap (Used(u) \cup Doomed(u)) = {}
        /\ \A x \in W : x \in Objects \/ x \in Own(t)
        /\ \A x \in Objects : objects[x].fate # "unmade" => objects'[x] = objects[x]
    OBVIOUS
  <2> QED
    BY <2>1, AtOnceKeeps
<1>2. Counted'
  <2> SUFFICES ASSUME NEW x \in Objects PROVE objects'[x].count = Cardinality(Holders(x)') + Cardinality({x} \cap raw')
    BY DEF Counted
  <2>1. objects[x].count = Cardinality(Holders(x)) + Cardinality({x} \cap raw)
    BY DEF RefInv, Counted
  <2> QED
    BY <2>1
<1>3. FatesHold'
  <2> SUFFICES ASSUME NEW x \in Objects
               PROVE  /\ objects'[x].fate = "alive" /\ objects'[x].count = 0 => \E u \in RefThreads : x \in Dying(u)'
                      /\ objects'[x].fate = "destroyed" => \E u \in RefThreads : x \in Doomed(u)'
                      /\ objects'[x].fate # "alive" => objects'[x].count = 0
                      /\ objects'[x].fate = "unmade" => handles'[x].ptr = NoObject
    BY DEF FatesHold
  <2>1. handles'[x].ptr \in {NoObject, handles[x].ptr} /\ \A u \in RefThreads : Dying(u)' = Dying(u) /\ Doomed(u)' = Doomed(u)
    BY DEF Places, Dying, Doomed
  <2> QED
    BY <2>1 DEF RefInv, FatesHold
<1>4. RefTypeOK'
  BY DEF RefInv, RefTypeOK
<1> QED
  BY <1>1, <1>2, <1>3, <1>4 DEF RefInv

LEMMA MoveConstructKeeps ==
  ASSUME RefAssumption, RefInv, NEW t \in RefThreads, NEW h \in Places, NEW from \in Places, MoveConstruct(t, h, from)
  PROVE  RefInv'
<1>1. /\ Idle(t) /\ h \in Own(t) /\ h \in Locals /\ handles[h].ptr = NoObject /\ ~InUse(h) /\ Usable(t, from) /\ h # from
      /\ todo' = todo /\ objects' = objects /\ raw' = raw
  BY DEF MoveConstruct, Usable, Constructed, Absent, Own
<1>2. RefTypeOK /\ NoObject \notin Objects /\ h \notin Objects
  BY <1>1, HandleFacts DEF RefInv
<1>3. PICK p : p = handles[from].ptr
  OBVIOUS
<1>4. /\ handles' \in [Places -> [ptr : Objects \cup {NoObject}, alloc : Allocators]]
      /\ handles'[h].ptr = p /\ handles'[from].ptr = NoObject /\ \A x \in Places : x \notin {h, from} => handles'[x] = handles[x]
  <2>1. handles' = [handles EXCEPT ![h] = handles[from], ![from].ptr = NoObject] /\ h # from
    BY <1>1 DEF MoveConstruct
  <2>2. handles \in [Places -> [ptr : Objects \cup {NoObject}, alloc : Allocators]]
    BY <1>2 DEF RefTypeOK
  <2>3. [handles[from] EXCEPT !.ptr = NoObject] \in [ptr : Objects \cup {NoObject}, alloc : Allocators]
    BY <2>2
  <2> QED
    BY <1>3, <2>1, <2>2, <2>3
<1>5. /\ h \notin Spent /\ from \notin Spent /\ (from \in Objects \/ from \in Own(t))
      /\ \A u \in RefThreads : h \notin Used(u) \cup Doomed(u) /\ from \notin Used(u) \cup Doomed(u)
  BY <1>1, FreeHandle, UsableFacts
<1>6. Spent' = Spent
  BY <1>1 DEF Spent
<1>7. \A x \in Objects : Holders(x)' = IF x = p THEN (Holders(x) \ {from}) \cup {h} ELSE Holders(x)
  BY <1>1, <1>2, <1>3, <1>4, <1>5, <1>6 DEF Holders
<1>8. ASSUME NEW x \in Objects PROVE Cardinality(Holders(x)') = Cardinality(Holders(x))
  <2>1. IsFiniteSet(Holders(x)) /\ h \notin Holders(x) /\ (x = p => from \in Holders(x))
    BY <1>1, <1>2, <1>3, <1>5, HandleFacts DEF Holders
  <2>2. x = p => Cardinality((Holders(x) \ {from}) \cup {h}) = Cardinality(Holders(x))
    BY <2>1, SwapCard
  <2> QED
    BY <1>7, <2>2
<1> DEFINE W == {h, from}
<1>9. /\ \A x \in W : x \in Places /\ x \notin Spent /\ (x \in Objects \/ x \in Own(t))
      /\ \A u \in RefThreads : W \cap (Used(u) \cup Doomed(u)) = {}
      /\ \A x \in Places : x \notin W => handles'[x] = handles[x]
      /\ \A x \in W : x \in Objects => handles'[x].ptr = NoObject
  BY <1>1, <1>2, <1>4, <1>5
<1>10. raw' \in SUBSET Objects /\ \A x \in Objects : Cardinality(Holders(x)') + Cardinality({x} \cap raw') = Cardinality(Holders(x)) + Cardinality({x} \cap raw)
  BY <1>1, <1>2, <1>8 DEF RefTypeOK
<1> HIDE DEF W
<1> QED
  BY <1>1, <1>4, <1>9, <1>10, PointerMoves

LEMMA ReleaseKeeps ==
  ASSUME RefAssumption, RefInv, NEW t \in RefThreads, NEW h \in Places, Release(t, h)
  PROVE  RefInv'
<1>1. Idle(t) /\ Usable(t, h) /\ todo' = todo /\ objects' = objects
  BY DEF Release
<1>2. PICK p : p = handles[h].ptr
  OBVIOUS
<1>3. RefTypeOK /\ p \in Objects /\ NoObject \notin Objects /\ p \notin raw /\ raw' = raw \cup {p}
  BY <1>2, HandleFacts DEF RefInv, Release
<1>4. /\ handles' \in [Places -> [ptr : Objects \cup {NoObject}, alloc : Allocators]]
      /\ handles'[h].ptr = NoObject /\ \A x \in Places : x # h => handles'[x] = handles[x]
  BY <1>3 DEF Release, RefTypeOK
<1>5. h \notin Spent /\ (h \in Objects \/ h \in Own(t)) /\ \A u \in RefThreads : h \notin Used(u) \cup Doomed(u)
  BY <1>1, UsableFacts
<1>6. Spent' = Spent
  BY <1>1 DEF Spent
<1>7. \A x \in Objects : Holders(x)' = IF x = p THEN Holders(x) \ {h} ELSE Holders(x)
  BY <1>2, <1>3, <1>4, <1>5, <1>6 DEF Holders
<1>8. ASSUME NEW x \in Objects PROVE Cardinality(Holders(x)') + Cardinality({x} \cap raw') = Cardinality(Holders(x)) + Cardinality({x} \cap raw)
  <2>1. CASE x # p
    <3>1. {x} \cap raw' = {x} \cap raw /\ Holders(x)' = Holders(x)
      BY <1>3, <1>7, <2>1
    <3> QED
      BY <3>1
  <2>2. CASE x = p
    <3>1. IsFiniteSet(Holders(x)) /\ Cardinality(Holders(x)) \in Nat /\ h \in Holders(x)
      BY <1>2, <1>3, <1>5, <2>2, HandleFacts DEF Holders
    <3>2. Cardinality(Holders(x)') = Cardinality(Holders(x)) - 1
      <4>1. Holders(x)' = Holders(x) \ {h}
        BY <1>7, <2>2
      <4> QED
        BY <3>1, <4>1, FS_RemoveElement
    <3>3. Cardinality({x} \cap raw) = 0 /\ Cardinality({x} \cap raw') = 1
      <4>1. {x} \cap raw = {} /\ {x} \cap raw' = {x}
        BY <1>3, <2>2
      <4> QED
        BY <4>1, FS_EmptySet, FS_Singleton
    <3> QED
      BY <3>1, <3>2, <3>3
  <2> QED
    BY <2>1, <2>2
<1> DEFINE W == {h}
<1>9. /\ \A x \in W : x \in Places /\ x \notin Spent /\ (x \in Objects \/ x \in Own(t))
      /\ \A u \in RefThreads : W \cap (Used(u) \cup Doomed(u)) = {}
      /\ \A x \in Places : x \notin W => handles'[x] = handles[x]
      /\ \A x \in W : x \in Objects => handles'[x].ptr = NoObject
  BY <1>4, <1>5
<1>10. raw' \in SUBSET Objects
  BY <1>3 DEF RefTypeOK
<1> HIDE DEF W
<1> QED
  BY <1>1, <1>4, <1>8, <1>9, <1>10, PointerMoves

LEMMA InitInv ==
  ASSUME RefAssumption, RefInit
  PROVE  RefInv
<1>1. RefTypeOK
  BY EmptySeq DEF RefTypeOK, RefInit, Absent, RefAssumption
<1>2. \A t \in RefThreads : Idle(t)
  BY DEF RefInit, Idle
<1>3. \A t \in RefThreads : Used(t) = {} /\ Doomed(t) = {} /\ Dying(t) = {} /\ SpentIn(todo[t]) = {}
  BY <1>2, IdleFacts
<1>4. CallsHold
  BY <1>2 DEF CallsHold, CallHolds, WellShaped, WorksOnItsOwn, Busy, StepsOf, Idle
<1>5. CallsApart
  BY <1>3 DEF CallsApart
<1>6. FatesHold
  BY DEF FatesHold, RefInit, Absent, Places
<1>7. Counted
  <2> SUFFICES ASSUME NEW o \in Objects PROVE objects[o].count = Cardinality(Holders(o)) + Cardinality({o} \cap raw)
    BY DEF Counted
  <2>1. Holders(o) = {} /\ {o} \cap raw = {} /\ objects[o].count = 0
    BY DEF Holders, RefInit, Absent, RefAssumption
  <2> QED
    BY <2>1, FS_EmptySet
<1> QED
  BY <1>1, <1>4, <1>5, <1>6, <1>7 DEF RefInv

LEMMA NextInv ==
  ASSUME RefAssumption, SourcesKept, RefInv, RefNext
  PROVE  RefInv'
<1>1. PICK t \in RefThreads :
        \/ Continue(t)
        \/ \E h \in Places :
             \/ \E o \in Objects : MakeArcWith(t, h, o)
             \/ \E from \in Places : \/ CopyConstruct(t, h, from) \/ MoveConstruct(t, h, from)
                                     \/ CopyAssign(t, h, from) \/ MoveAssign(t, h, from)
             \/ ResetHandle(t, h) \/ EndOfScope(t, h) \/ Release(t, h)
  BY DEF RefNext
<1>2. \A h \in Places, from \in Places : CopyAssign(t, h, from) \/ MoveAssign(t, h, from) => SourceKept(t, h, from)
  BY DEF SourcesKept
<1> QED
  BY <1>1, <1>2, ContinueInv, MakeArcKeeps, CopyConstructKeeps, MoveConstructKeeps, AssignKeeps, ResetKeeps, ReleaseKeeps

LEMMA StutterInv ==
  ASSUME RefInv, UNCHANGED rc_vars
  PROVE  RefInv'
<1>1. handles' = handles /\ objects' = objects /\ raw' = raw /\ todo' = todo
  BY DEF rc_vars
<1>2. RefTypeOK'
  BY <1>1 DEF RefInv, RefTypeOK
<1>3. CallsHold'
  BY <1>1 DEF RefInv, CallsHold, CallHolds, WorksOnItsOwn, Busy, Anchored, Own, DoomIs
<1>4. CallsApart'
  BY <1>1 DEF RefInv, CallsApart, Used, Busy, Doomed, Dying
<1>5. FatesHold'
  BY <1>1 DEF RefInv, FatesHold, Doomed, Dying
<1>6. Counted'
  BY <1>1 DEF RefInv, Counted, Holders, Spent
<1> QED
  BY <1>2, <1>3, <1>4, <1>5, <1>6 DEF RefInv

-----------------------------------------------------------------------------
(* What the invariant says of an object in use and of one that is not.     *)

LEMMA SafeUse ==
  ASSUME RefAssumption, RefInv
  PROVE  NoUseAfterFree
<1> SUFFICES ASSUME NEW t \in RefThreads, ~Idle(t)
             PROVE  LET now == Head(todo[t]) o == handles[now.from].ptr IN
                    /\ Fate(now.from) # "freed" /\ Fate(now.at) # "freed"
                    /\ now.op \in {"dec", "share", "move", "destroy"} /\ o # NoObject => objects[o].fate = "alive"
  BY DEF NoUseAfterFree, RefInv, RefTypeOK
<1> DEFINE q == todo[t]
<1>1. q \in Seq(RefSteps) /\ q # <<>> /\ WellShaped(q) /\ Busy(t) /\ RefTypeOK
  BY HandleFacts DEF RefInv, CallsHold, CallHolds, Idle, Busy
<1>2. Head(q) = q[1] /\ q[1] \in RefSteps /\ q[1] \in StepsOf(q) /\ DoomIs(q[1])
  BY <1>1, SeqTail, CallFacts DEF RefInv, CallsHold, CallHolds
<1>3. PICK e : e = q[1]
  OBVIOUS
<1>4. ASSUME NEW x \in Used(t) \cup Doomed(t) PROVE Fate(x) # "freed"
  <2>1. x \in Objects => objects[x].fate \in {"alive", "destroyed"}
    BY <1>4, UsedLives, DoomedIs
  <2>2. DOMAIN objects = Objects
    BY <1>1 DEF RefTypeOK
  <2> QED
    BY <2>1, <2>2 DEF Fate
<1>5. Used(t) = {EndOf(q).at, EndOf(q).from}
  BY <1>1 DEF Used
<1>6. e.op \in RefOps /\ e.at \in Places /\ e.from \in Places
  BY <1>2, <1>3 DEF RefSteps
<1>7. e.at \in Used(t) \cup Doomed(t) /\ e.from \in Used(t) \cup Doomed(t)
  <2>1. CASE e.op \in {"share", "move", "become"}
    <3>1. EndOf(q) = e
      BY <1>1, <1>3, <2>1, CallFacts
    <3> QED
      BY <1>5, <3>1
  <2>2. CASE e.op \in {"dec", "destroy", "deallocate"}
    BY <1>1, <1>3, <1>5, <2>2, CallFacts DEF Doomed
  <2> QED
    BY <1>6, <2>1, <2>2 DEF RefOps
<1>8. ASSUME e.op \in {"dec", "share", "move", "destroy"}, handles[e.from].ptr # NoObject
      PROVE  objects[handles[e.from].ptr].fate = "alive"
  <2>1. handles[e.from].ptr \in Objects
    BY <1>1, <1>6, <1>8, HandleFacts
  <2>2. CASE e.op = "destroy"
    <3>1. e.from = e.at
      BY <1>1, <1>3, <2>2, CallFacts
    <3> QED
      BY <1>2, <1>3, <2>2, <3>1 DEF DoomIs
  <2>3. CASE e.op # "destroy"
    <3>1. e.from \notin SpentIn(q)
      <4>1. CASE e.op = "dec"
        BY <1>1, <1>3, <4>1, CallFacts
      <4>2. CASE e.op \in {"share", "move"}
        <5>1. EndOf(q) = e /\ SpentIn(q) = {e.at}
          BY <1>1, <1>3, <4>2, CallFacts
        <5>2. e.from # e.at
          BY <1>1, <4>2, <5>1, ShapeEnd
        <5> QED
          BY <5>1, <5>2
      <4> QED
        BY <1>8, <2>3, <4>1, <4>2
    <3>2. e.from \notin Spent
      BY <1>7, <3>1, SpentSplit
    <3> QED
      BY <1>6, <2>1, <3>2, HeldIsAlive
  <2> QED
    BY <2>2, <2>3
<1> QED
  BY <1>2, <1>3, <1>4, <1>7, <1>8

LEMMA OwnedLive ==
  ASSUME RefAssumption, RefInv
  PROVE  LivesWhileOwned
<1> SUFFICES ASSUME \A t \in RefThreads : Idle(t), NEW o \in Objects, objects[o].fate # "unmade"
             PROVE  objects[o].count = Owners(o) /\ objects[o].fate = IF Owners(o) > 0 THEN "alive" ELSE "freed"
  BY DEF LivesWhileOwned, RefInv, RefTypeOK
<1>1. \A t \in RefThreads : Dying(t) = {} /\ Doomed(t) = {} /\ SpentIn(todo[t]) = {}
  BY IdleFacts
<1>2. Spent = {} /\ DOMAIN handles = Places
  BY <1>1 DEF Spent, RefInv, RefTypeOK
<1>3. Holders(o) = {h \in DOMAIN handles : handles[h].ptr = o}
  BY <1>2 DEF Holders
<1>4. objects[o].count = Owners(o)
  BY <1>3 DEF Owners, RefInv, Counted
<1>5. objects[o].count \in Nat /\ objects[o].fate \in {"alive", "destroyed", "freed"}
  BY DEF RefInv, RefTypeOK
<1>6. (objects[o].fate = "alive" => objects[o].count # 0) /\ objects[o].fate # "destroyed" /\ (objects[o].fate # "alive" => objects[o].count = 0)
  BY <1>1 DEF RefInv, FatesHold
<1> QED
  BY <1>4, <1>5, <1>6

-----------------------------------------------------------------------------
(***************************************************************************)
(* The allocator that frees.  It is the one of the handle that counted     *)
(* last, so every handle has to have the allocator of what it points to.   *)
(***************************************************************************)
HandlesFit == \A h \in Places : handles[h].ptr # NoObject => handles[h].alloc = Maker(handles[h].ptr)

\* The allocator that a handle is to have with the pointer.
Coming(e) == IF e.op = "share" THEN e.arg ELSE Assigned(e.at, e.from)
ArgFits(t) ==
  Busy(t) /\ EndOf(todo[t]).op # "become" /\ handles[EndOf(todo[t]).from].ptr # NoObject =>
    Coming(EndOf(todo[t])) = Maker(handles[EndOf(todo[t]).from].ptr)

FitInv == HandlesFit /\ (\A t \in RefThreads : ArgFits(t)) /\ FreedByMaker

\* A step leaves the pending steps of the others what they copy.
LEMMA FitKeeps ==
  ASSUME RefInv, FitInv, NEW t \in RefThreads, NEW W,
         \A u \in RefThreads : u # t => todo'[u] = todo[u] /\ W \cap Used(u) = {},
         RefAssumption, \A x \in Places : x \notin W => handles'[x] = handles[x],
         HandlesFit', ArgFits(t)', FreedByMaker'
  PROVE  FitInv'
<1> SUFFICES ASSUME NEW u \in RefThreads, u # t PROVE ArgFits(u)'
  BY DEF FitInv
<1>1. todo'[u] = todo[u] /\ ArgFits(u)
  BY DEF FitInv
<1>2. SUFFICES ASSUME Busy(u) PROVE ArgFits(u)'
  BY <1>1 DEF ArgFits, Busy
<1>3. todo[u] \in Seq(RefSteps) /\ WellShaped(todo[u]) /\ todo[u] # <<>>
  BY <1>2, HandleFacts DEF RefInv, CallsHold, CallHolds, Busy
<1>4. PICK e : e = EndOf(todo[u])
  OBVIOUS
<1>5. e.at \in Places /\ e.from \in Places /\ e.at \notin W /\ e.from \notin W
  BY <1>2, <1>3, <1>4, CallFacts DEF RefSteps, Used
<1>6. handles'[e.at] = handles[e.at] /\ handles'[e.from] = handles[e.from]
  BY <1>5
<1>7. EndOf(todo'[u]) = e /\ Busy(u)'
  BY <1>1, <1>2, <1>4 DEF Busy
<1>8. e.op # "become" /\ handles'[e.from].ptr # NoObject =>
        (IF e.op = "share" THEN e.arg ELSE IF Propagates THEN handles'[e.from].alloc ELSE handles'[e.at].alloc) = Maker(handles'[e.from].ptr)
  BY <1>1, <1>2, <1>4, <1>6 DEF ArgFits, Coming, Assigned
<1>9. PICK x, y : x = e.at /\ y = e.from
  OBVIOUS
<1>10. Coming(EndOf(todo[u]))' = IF e.op = "share" THEN e.arg ELSE IF Propagates THEN handles'[y].alloc ELSE handles'[x].alloc
  BY <1>7, <1>9 DEF Coming, Assigned
<1> QED
  BY <1>7, <1>8, <1>9, <1>10 DEF ArgFits, Coming, Assigned

\* A call has its last step from the beginning.
LEMMA SameEnd ==
  ASSUME NEW S, NEW q \in Seq(S), q # <<>>, NEW s \in Seq(S), q[1] # q[Len(q)] \/ Len(q) # 1
  PROVE  s \o Tail(q) # <<>> /\ EndOf(s \o Tail(q)) = EndOf(q)
<1>1. Len(q) \in Nat \ {0} /\ Tail(q) \in Seq(S) /\ Len(Tail(q)) = Len(q) - 1 /\ \A i \in 1 .. Len(q) - 1 : Tail(q)[i] = q[i + 1]
  BY SeqTail
<1>2. Len(q) >= 2 /\ Len(s) \in Nat
  BY <1>1, LenProperties
<1>3. /\ s \o Tail(q) \in Seq(S) /\ Len(s \o Tail(q)) = Len(s) + Len(Tail(q))
      /\ \A i \in 1 .. Len(s) + Len(Tail(q)) : (s \o Tail(q))[i] = IF i <= Len(s) THEN s[i] ELSE Tail(q)[i - Len(s)]
  BY <1>1, ConcatProperties
<1>4. PICK n, k : n = Len(q) /\ k = Len(s)
  OBVIOUS
<1>5. k + (n - 1) \in 1 .. k + (n - 1) /\ ~(k + (n - 1) <= k) /\ k + (n - 1) - k = n - 1 /\ n - 1 \in 1 .. n - 1 /\ (n - 1) + 1 = n /\ k + (n - 1) # 0
  BY <1>1, <1>2, <1>4
<1>6. (s \o Tail(q))[k + (n - 1)] = q[n]
  BY <1>1, <1>3, <1>4, <1>5
<1> QED
  BY <1>1, <1>3, <1>4, <1>5, <1>6, EmptySeq DEF EndOf

LEMMA CallGoesOnTo ==
  ASSUME RefAssumption, RefInv, NEW t \in RefThreads, Continue(t), todo[t][1].op \in {"dec", "destroy", "deallocate"}
  PROVE  Busy(t)' /\ EndOf(todo'[t]) = EndOf(todo[t]) /\ \A u \in RefThreads : u # t => todo'[u] = todo[u]
<1> DEFINE q == todo[t]
<1>1. PICK e, o : e = q[1] /\ o = handles[e.at].ptr
  OBVIOUS
<1>2. /\ q \in Seq(RefSteps) /\ q # <<>> /\ WellShaped(q) /\ Len(q) # 1 /\ e \in RefSteps /\ DoomIs(e)
      /\ todo \in [RefThreads -> Seq(RefSteps)] /\ <<>> \o Tail(q) = Tail(q) /\ Head(q) = e
  <2>1. q \in Seq(RefSteps) /\ q # <<>> /\ WellShaped(q) /\ e \in RefSteps /\ DoomIs(e) /\ <<>> \o Tail(q) = Tail(q) /\ Head(q) = e
    BY <1>1, ContinueFacts
  <2>2. Len(q) >= 2
    BY <2>1, CallFacts
  <2>3. Len(q) # 1
    <3>1. PICK n \in Nat : n = Len(q)
      BY <2>1, SeqTail
    <3>2. n >= 2
      BY <2>2, <3>1
    <3>3. n # 1
      BY <3>2
    <3> QED
      BY <3>1, <3>3
  <2>4. todo \in [RefThreads -> Seq(RefSteps)]
    BY DEF RefInv, RefTypeOK
  <2> QED
    BY <2>1, <2>3, <2>4
<1> DEFINE T == RefSteps \cup {Destroy(e.at, o), Dec(e.arg), DeallocateObject(e.at, e.arg)}
<1>3. PICK s \in Seq(T) : todo' = [todo EXCEPT ![t] = s \o Tail(q)]
  <2>1. CASE e.op = "dec"
    <3>1. Decremented(t, e.at)
      BY <1>1, <1>2, <2>1 DEF Continue
    <3>2. <<Destroy(e.at, o)>> \in Seq(T) /\ <<>> \in Seq(T)
      OBVIOUS
    <3> QED
      BY <1>1, <3>1, <3>2 DEF Decremented, Then
  <2>2. CASE e.op = "destroy"
    <3>1. todo' = [todo EXCEPT ![t] = <<Dec(e.arg), DeallocateObject(e.at, e.arg)>> \o Tail(q)]
      BY <1>1, <1>2, <2>2 DEF Continue, Then
    <3>2. <<Dec(e.arg), DeallocateObject(e.at, e.arg)>> \in Seq(T)
      OBVIOUS
    <3> QED
      BY <3>1, <3>2
  <2>3. CASE e.op = "deallocate"
    <3>1. todo' = [todo EXCEPT ![t] = <<>> \o Tail(q)]
      BY <1>1, <1>2, <2>3 DEF Continue, Then
    <3>2. <<>> \in Seq(T)
      OBVIOUS
    <3> QED
      BY <3>1, <3>2
  <2> QED
    BY <1>1, <2>1, <2>2, <2>3
<1>4. q \in Seq(T)
  BY <1>2, SeqDef
<1> HIDE DEF T, q
<1>5. s \o Tail(q) # <<>> /\ EndOf(s \o Tail(q)) = EndOf(q)
  BY <1>2, <1>3, <1>4, SameEnd
<1>6. todo'[t] = s \o Tail(q) /\ \A u \in RefThreads : u # t => todo'[u] = todo[u]
  BY <1>2, <1>3
<1> QED
  BY <1>5, <1>6 DEF Busy, q

LEMMA FitFacts ==
  ASSUME RefAssumption, RefTypeOK
  PROVE  FreedByMaker = \A o \in Objects : objects[o].freed_by \in {NoAllocator, Maker(o)}
BY DEF FreedByMaker, RefTypeOK

\* The same call with the same handles.
LEMMA ArgStays ==
  ASSUME NEW t \in RefThreads, ArgFits(t), Busy(t), NEW e, e = EndOf(todo[t]), EndOf(todo'[t]) = e,
         NEW x, NEW y, x = e.at, y = e.from,
         e.op # "become" => handles'[y] = handles[y] /\ handles'[x].alloc = handles[x].alloc
  PROVE  ArgFits(t)'
<1>1. Coming(EndOf(todo[t])) = IF e.op = "share" THEN e.arg ELSE IF Propagates THEN handles[y].alloc ELSE handles[x].alloc
  BY DEF Coming, Assigned
<1>2. Coming(EndOf(todo[t]))' = IF e.op = "share" THEN e.arg ELSE IF Propagates THEN handles'[y].alloc ELSE handles'[x].alloc
  BY DEF Coming, Assigned
<1>3. ArgFits(t)' = (Busy(t)' /\ e.op # "become" /\ handles'[y].ptr # NoObject => Coming(EndOf(todo[t]))' = Maker(handles'[y].ptr))
  BY DEF ArgFits
<1> QED
  BY <1>1, <1>2, <1>3 DEF ArgFits

LEMMA GoesOnFits ==
  ASSUME RefAssumption, RefInv, FitInv, NEW t \in RefThreads, Continue(t), todo[t][1].op \in {"dec", "destroy", "deallocate"}
  PROVE  FitInv'
<1>1. Busy(t)' /\ EndOf(todo'[t]) = EndOf(todo[t]) /\ \A u \in RefThreads : u # t => todo'[u] = todo[u]
  BY CallGoesOnTo
<1>2. PICK e, x, y : e = EndOf(todo[t]) /\ x = e.at /\ y = e.from
  OBVIOUS
<1>3. /\ todo[t] \in Seq(RefSteps) /\ todo[t] # <<>> /\ WellShaped(todo[t]) /\ Busy(t) /\ todo[t][1] \in RefSteps
      /\ DoomIs(todo[t][1]) /\ Used(t) = {x, y}
  BY <1>2, ContinueFacts
<1>4. x \in Places /\ y \in Places /\ (e.op = "become" <=> y = x) /\ Used(t) \cap Doomed(t) = {}
  BY <1>2, <1>3, CallFacts, ShapeEnd, UsedApart DEF RefSteps
<1>5. RefTypeOK /\ ArgFits(t)
  BY DEF RefInv, FitInv
<1>6. CASE todo[t][1].op \in {"dec", "destroy"}
  <2>1. handles' = handles /\ \A o \in Objects : objects'[o].freed_by = objects[o].freed_by
    <3>1. PICK h, o : h = todo[t][1].at /\ o = handles[h].ptr
      OBVIOUS
    <3>2. h \in Places /\ o \in Objects \cup {NoObject}
      BY <1>3, <1>5, <3>1, HandleFacts DEF RefSteps
    <3>3. /\ handles' = handles
          /\ \/ objects' = objects \/ (o \in Objects /\ objects' = [objects EXCEPT ![o].count = @ - 1])
             \/ objects' = [objects EXCEPT ![todo[t][1].arg].fate = "destroyed"]
      BY <1>6, <3>1, <3>2, ContinueFacts DEF Continue, Decremented
    <3>4. objects \in [Objects -> [fate : {"unmade", "alive", "destroyed", "freed"}, count : Nat, freed_by : Allocators]]
      BY <1>5 DEF RefTypeOK
    <3> QED
      BY <3>3, <3>4
  <2>2. ArgFits(t)'
    BY <1>1, <1>2, <1>3, <1>5, <2>1, ArgStays
  <2>3. HandlesFit'
    BY <2>1 DEF HandlesFit, FitInv, Places
  <2>4. FreedByMaker'
    BY <1>5, <2>1 DEF FitInv, FreedByMaker, RefTypeOK, Continue, Decremented
  <2>5. \A u \in RefThreads : u # t => todo'[u] = todo[u] /\ {} \cap Used(u) = {}
    BY <1>1
  <2> QED
    BY <2>1, <2>2, <2>3, <2>4, <2>5, FitKeeps
<1>7. CASE todo[t][1].op = "deallocate"
  <2>1. PICK h, o : h = todo[t][1].at /\ o = todo[t][1].arg
    OBVIOUS
  <2>2. /\ objects' = [objects EXCEPT ![o].fate = "freed", ![o].freed_by = AllocatorOf(h)]
        /\ handles' = [handles EXCEPT ![h].ptr = NoObject, ![o] = Absent]
    BY <1>7, <2>1, ContinueFacts DEF Continue
  <2>3. o \in Objects /\ handles[h].ptr = o /\ o # NoObject /\ h \in Places
    BY <1>3, <1>7, <2>1 DEF DoomIs, RefSteps, RefAssumption
  <2>4. h \in {x} \cup Doomed(t) /\ o \in Doomed(t)
    BY <1>2, <1>3, <1>7, <2>1, CallFacts DEF Doomed
  <2>5. handles[h].alloc = Maker(o)
    BY <2>3 DEF FitInv, HandlesFit
  <2>6. /\ \A z \in Places : z \notin {h, o} => handles'[z] = handles[z]
        /\ handles'[h].ptr = NoObject /\ handles'[o].ptr = NoObject /\ (h # o => handles'[h].alloc = handles[h].alloc)
    <3>1. handles \in [Places -> [ptr : Objects \cup {NoObject}, alloc : Allocators]] /\ o \in Places
      BY <1>5, <2>3 DEF RefTypeOK, Places
    <3> QED
      BY <2>2, <2>3, <3>1 DEF Absent
  <2>7. HandlesFit'
    BY <2>6 DEF HandlesFit, FitInv, Places
  <2>8. FreedByMaker'
    <3>1. objects \in [Objects -> [fate : {"unmade", "alive", "destroyed", "freed"}, count : Nat, freed_by : Allocators]]
      BY <1>5 DEF RefTypeOK
    <3>2. DOMAIN objects' = Objects /\ \A z \in Objects : objects'[z].freed_by = IF z = o THEN Maker(o) ELSE objects[z].freed_by
      BY <2>2, <2>3, <2>5, <3>1 DEF AllocatorOf
    <3>3. \A z \in Objects : objects[z].freed_by \in {NoAllocator, Maker(z)}
      BY <1>5, FitFacts DEF FitInv
    <3> QED
      BY <3>2, <3>3 DEF FreedByMaker
  <2>9. ArgFits(t)'
    <3>1. x # o /\ y # o /\ (e.op # "become" => y # h)
      BY <1>3, <1>4, <2>4
    <3>2. e.op # "become" => handles'[y] = handles[y] /\ handles'[x].alloc = handles[x].alloc
      <4>1. x # h => handles'[x] = handles[x]
        BY <1>4, <2>6, <3>1
      <4> QED
        BY <1>4, <2>6, <3>1, <4>1
    <3> QED
      BY <1>1, <1>2, <1>3, <1>5, <3>2, ArgStays
  <2>10. \A u \in RefThreads : u # t => todo'[u] = todo[u] /\ {h, o} \cap Used(u) = {}
    <3>1. {h, o} \subseteq Used(t) \cup Doomed(t)
      BY <1>3, <2>4
    <3> QED
      BY <1>1, <3>1, UsedApart
  <2> QED
    BY <2>6, <2>7, <2>8, <2>9, <2>10, FitKeeps
<1> QED
  BY <1>6, <1>7

LEMMA LastFits ==
  ASSUME RefAssumption, RefInv, FitInv, NEW t \in RefThreads, Continue(t), todo[t][1].op \in {"share", "move", "become"}
  PROVE  FitInv'
<1>1. PICK e, h, from, p : e = todo[t][1] /\ h = e.at /\ from = e.from /\ p = handles[from].ptr
  OBVIOUS
<1>2. todo' = [todo EXCEPT ![t] = <<>>] /\ h \in Places /\ from \in Places /\ Used(t) = {h, from} /\ (e.op = "become" <=> from = h)
  BY <1>1, LastFacts
<1>3. RefTypeOK /\ ArgFits(t) /\ HandlesFit
  BY DEF RefInv, FitInv
<1>4. e = EndOf(todo[t]) /\ Busy(t) /\ Head(todo[t]) = e
  <2>1. todo[t] \in Seq(RefSteps) /\ todo[t] # <<>> /\ WellShaped(todo[t]) /\ Busy(t) /\ Head(todo[t]) = todo[t][1]
    BY ContinueFacts
  <2> QED
    BY <1>1, <2>1, CallFacts
<1>5. e.op # "become" /\ p # NoObject => Coming(e) = Maker(p)
  BY <1>1, <1>3, <1>4 DEF ArgFits
<1>6. PICK a : a = Coming(e)
  OBVIOUS
<1>7. handles \in [Places -> [ptr : Objects \cup {NoObject}, alloc : Allocators]]
  BY <1>3 DEF RefTypeOK
<1>8. /\ e.op # "become" => handles'[h].ptr = p /\ handles'[h].alloc = a
      /\ e.op = "become" => handles'[h].ptr = NoObject
      /\ e.op # "become" => handles'[from] = handles[from] \/ handles'[from].ptr = NoObject
      /\ \A z \in Places : z \notin {h, from} => handles'[z] = handles[z]
  <2>1. CASE e.op = "share"
    <3>1. handles' = [handles EXCEPT ![h] = [ptr |-> p, alloc |-> e.arg]] /\ a = e.arg
      BY <1>1, <1>4, <1>6, <2>1 DEF Continue, Coming
    <3> QED
      BY <1>2, <1>7, <2>1, <3>1
  <2>2. CASE e.op = "move"
    <3>1. handles' = [handles EXCEPT ![h] = [ptr |-> p, alloc |-> a], ![from].ptr = NoObject]
      BY <1>1, <1>4, <1>6, <2>2 DEF Continue, Coming, Moved
    <3> QED
      BY <1>2, <1>7, <2>2, <3>1
  <2>3. CASE e.op = "become"
    <3>1. handles' = [handles EXCEPT ![h] = NullHandle(e.arg)]
      BY <1>1, <1>4, <2>3 DEF Continue
    <3> QED
      BY <1>2, <1>7, <2>3, <3>1 DEF NullHandle
  <2> QED
    BY <1>1, <2>1, <2>2, <2>3
<1>9. HandlesFit'
  <2> SUFFICES ASSUME NEW z \in Places, handles'[z].ptr # NoObject PROVE handles'[z].alloc = Maker(handles'[z].ptr)
    BY DEF HandlesFit, Places
  <2>1. CASE z = h
    BY <1>5, <1>6, <1>8, <2>1
  <2>2. CASE z # h
    BY <1>2, <1>3, <1>8, <2>2 DEF HandlesFit
  <2> QED
    BY <2>1, <2>2
<1>10. FreedByMaker'
  <2>1. DOMAIN objects' = Objects /\ \A z \in Objects : objects'[z].freed_by = objects[z].freed_by
    <3>1. objects \in [Objects -> [fate : {"unmade", "alive", "destroyed", "freed"}, count : Nat, freed_by : Allocators]]
      BY <1>3 DEF RefTypeOK
    <3>2. \/ objects' = objects
          \/ p \in Objects /\ objects' = [objects EXCEPT ![p].count = @ + 1]
      BY <1>1, <1>2, <1>4, <1>7 DEF Continue
    <3> QED
      BY <3>1, <3>2
  <2>2. \A z \in Objects : objects[z].freed_by \in {NoAllocator, Maker(z)}
    BY <1>3, FitFacts DEF FitInv
  <2> QED
    BY <2>1, <2>2 DEF FreedByMaker
<1>11. todo'[t] = <<>> /\ \A u \in RefThreads : u # t => todo'[u] = todo[u]
  BY <1>2, <1>3 DEF RefTypeOK
<1>12. ArgFits(t)'
  BY <1>11 DEF ArgFits, Busy
<1>13. \A u \in RefThreads : u # t => todo'[u] = todo[u] /\ {h, from} \cap Used(u) = {}
  BY <1>2, <1>11, UsedApart
<1> QED
  BY <1>8, <1>9, <1>10, <1>12, <1>13, FitKeeps

LEMMA BeginFits ==
  ASSUME RefAssumption, RefInv, FitInv, NEW t \in RefThreads, NEW p, Begin(t, p), NEW last, EndOf(p) = last,
         last.op # "become" /\ handles[last.from].ptr # NoObject => Coming(last) = Maker(handles[last.from].ptr)
  PROVE  FitInv'
<1>1. RefTypeOK /\ handles' = handles /\ objects' = objects /\ todo' = [todo EXCEPT ![t] = p]
  BY DEF RefInv, Begin
<1>2. todo'[t] = p /\ \A u \in RefThreads : u # t => todo'[u] = todo[u]
  BY <1>1 DEF RefTypeOK
<1>3. HandlesFit' /\ FreedByMaker'
  BY <1>1 DEF FitInv, HandlesFit, FreedByMaker, Places
<1>4. ArgFits(t)'
  <2>1. PICK x, y : x = last.at /\ y = last.from
    OBVIOUS
  <2>2. EndOf(todo'[t]) = last
    BY <1>2
  <2>3. Coming(last) = IF last.op = "share" THEN last.arg ELSE IF Propagates THEN handles[y].alloc ELSE handles[x].alloc
    BY <2>1 DEF Coming, Assigned
  <2>4. Coming(EndOf(todo[t]))' = IF last.op = "share" THEN last.arg ELSE IF Propagates THEN handles'[y].alloc ELSE handles'[x].alloc
    BY <2>1, <2>2 DEF Coming, Assigned
  <2>5. ArgFits(t)' = (Busy(t)' /\ last.op # "become" /\ handles'[y].ptr # NoObject => Coming(EndOf(todo[t]))' = Maker(handles'[y].ptr))
    BY <2>1, <2>2 DEF ArgFits
  <2> QED
    BY <1>1, <2>1, <2>3, <2>4, <2>5
<1>5. \A u \in RefThreads : u # t => todo'[u] = todo[u] /\ {} \cap Used(u) = {}
  BY <1>2
<1> QED
  BY <1>1, <1>3, <1>4, <1>5, FitKeeps

LEMMA NewCallFits ==
  ASSUME RefAssumption, AllocatorsKept, RefInv, FitInv, NEW t \in RefThreads, NEW h \in Places, NEW from \in Places,
         \/ CopyConstruct(t, h, from) \/ CopyAssign(t, h, from) \/ MoveAssign(t, h, from) \/ ResetHandle(t, h) \/ EndOfScope(t, h)
  PROVE  FitInv'
<1>1. RefTypeOK /\ HandlesFit
  BY DEF RefInv, FitInv
<1>2. CASE CopyConstruct(t, h, from)
  <2>1. PICK last : last = Share(h, from, Selected(handles[from].alloc))
    OBVIOUS
  <2>2. last.op = "share" /\ last.from = from /\ last.arg = Selected(handles[from].alloc)
    BY <2>1 DEF Share, RefStep
  <2>3. Begin(t, <<last>>) /\ EndOf(<<last>>) = last
    BY <1>2, <2>1 DEF CopyConstruct, EndOf
  <2>4. handles[from].ptr # NoObject => Coming(last) = Maker(handles[from].ptr)
    BY <1>1, <1>2, <2>2 DEF HandlesFit, AllocatorsKept, Coming
  <2> QED
    BY <2>2, <2>3, <2>4, BeginFits
<1>3. CASE CopyAssign(t, h, from)
  <2>1. PICK last : last = Share(h, from, Assigned(h, from))
    OBVIOUS
  <2>2. last.op = "share" /\ last.from = from /\ last.arg = Assigned(h, from)
    BY <2>1 DEF Share, RefStep
  <2>3. Begin(t, <<Dec(h), last>>) /\ EndOf(<<Dec(h), last>>) = last
    BY <1>3, <2>1 DEF CopyAssign, EndOf
  <2>4. handles[from].ptr # NoObject => Coming(last) = Maker(handles[from].ptr)
    BY <1>1, <1>3, <2>2 DEF HandlesFit, AllocatorsKept, Coming
  <2> QED
    BY <2>2, <2>3, <2>4, BeginFits
<1>4. CASE MoveAssign(t, h, from)
  <2>1. PICK last : last = MovePtr(h, from)
    OBVIOUS
  <2>2. last.op = "move" /\ last.from = from /\ last.at = h
    BY <2>1 DEF MovePtr, RefStep
  <2>3. Begin(t, <<Dec(h), last>>) /\ EndOf(<<Dec(h), last>>) = last
    BY <1>4, <2>1 DEF MoveAssign, EndOf
  <2>4. handles[from].ptr # NoObject => Coming(last) = Maker(handles[from].ptr)
    BY <1>1, <1>4, <2>2 DEF HandlesFit, AllocatorsKept, Coming
  <2> QED
    BY <2>2, <2>3, <2>4, BeginFits
<1>5. CASE ResetHandle(t, h) \/ EndOfScope(t, h)
  <2>1. PICK a : Begin(t, <<Dec(h), Become(h, a)>>)
    BY <1>5 DEF ResetHandle, EndOfScope
  <2>2. PICK last : last = Become(h, a)
    OBVIOUS
  <2>3. last.op = "become" /\ EndOf(<<Dec(h), last>>) = last
    BY <2>2 DEF Become, RefStep, EndOf
  <2> QED
    BY <2>1, <2>2, <2>3, BeginFits
<1> QED
  BY <1>2, <1>3, <1>4, <1>5

LEMMA AtOnceFits ==
  ASSUME RefAssumption, RefInv, FitInv, NEW t \in RefThreads, Idle(t), todo' = todo,
         NEW W, \A u \in RefThreads : W \cap Used(u) = {},
         \A x \in Places : x \notin W => handles'[x] = handles[x],
         \A x \in W \cap Places : handles'[x].ptr # NoObject => handles'[x].alloc = Maker(handles'[x].ptr),
         FreedByMaker'
  PROVE  FitInv'
<1>1. HandlesFit'
  BY DEF FitInv, HandlesFit, Places
<1>2. ArgFits(t)'
  BY DEF ArgFits, Busy, Idle
<1>3. \A u \in RefThreads : u # t => todo'[u] = todo[u] /\ W \cap Used(u) = {}
  OBVIOUS
<1> QED
  BY <1>1, <1>2, <1>3, FitKeeps

LEMMA OneStepFits ==
  ASSUME RefAssumption, RefInv, FitInv, NEW t \in RefThreads, NEW h \in Places,
         \/ \E o \in Objects : MakeArcWith(t, h, o)
         \/ \E from \in Places : MoveConstruct(t, h, from)
         \/ Release(t, h)
  PROVE  FitInv'
<1>1. RefTypeOK /\ HandlesFit /\ \A x \in Objects : objects[x].freed_by \in {NoAllocator, Maker(x)}
  BY FitFacts DEF RefInv, FitInv
<1>2. handles \in [Places -> [ptr : Objects \cup {NoObject}, alloc : Allocators]]
  BY <1>1 DEF RefTypeOK
<1>3. CASE \E o \in Objects : MakeArcWith(t, h, o)
  <2> PICK o \in Objects : MakeArcWith(t, h, o)
    BY <1>3
  <2> o \in Places
    BY DEF Places
  <2>1. /\ Idle(t) /\ todo' = todo /\ h \in Locals /\ ~InUse(h) /\ h # o /\ objects[o].fate = "unmade"
        /\ handles' = [handles EXCEPT ![h] = [ptr |-> o, alloc |-> Maker(o)], ![o] = NullHandle(DefaultAllocator)]
        /\ objects' = [objects EXCEPT ![o] = [fate |-> "alive", count |-> 1, freed_by |-> NoAllocator]]
    BY DEF MakeArcWith, Own, RefAssumption
  <2> DEFINE W == {h, o}
  <2>2. \A u \in RefThreads : W \cap Used(u) = {}
    BY <2>1, FreeHandle, UsedLives
  <2>3. \A x \in Places : x \notin W => handles'[x] = handles[x]
    BY <1>2, <2>1
  <2>4. \A x \in W \cap Places : handles'[x].ptr # NoObject => handles'[x].alloc = Maker(handles'[x].ptr)
    BY <1>2, <2>1 DEF NullHandle
  <2>5. FreedByMaker'
    BY <1>1, <2>1 DEF FreedByMaker, RefTypeOK
  <2> HIDE DEF W
  <2> QED
    BY <2>1, <2>2, <2>3, <2>4, <2>5, AtOnceFits
<1>4. CASE \E from \in Places : MoveConstruct(t, h, from)
  <2> PICK from \in Places : MoveConstruct(t, h, from)
    BY <1>4
  <2>1. /\ Idle(t) /\ todo' = todo /\ objects' = objects /\ h \in Locals /\ ~InUse(h) /\ Usable(t, from) /\ h # from
        /\ handles' = [handles EXCEPT ![h] = handles[from], ![from].ptr = NoObject]
    BY DEF MoveConstruct, Own, Usable, Constructed, Absent
  <2> DEFINE W == {h, from}
  <2>2. \A u \in RefThreads : W \cap Used(u) = {}
    BY <2>1, FreeHandle, UsableFacts
  <2>3. \A x \in Places : x \notin W => handles'[x] = handles[x]
    BY <1>2, <2>1
  <2>4. \A x \in W \cap Places : handles'[x].ptr # NoObject => handles'[x].alloc = Maker(handles'[x].ptr)
    BY <1>1, <1>2, <2>1 DEF HandlesFit
  <2>5. FreedByMaker'
    BY <2>1 DEF FitInv, FreedByMaker
  <2> HIDE DEF W
  <2> QED
    BY <2>1, <2>2, <2>3, <2>4, <2>5, AtOnceFits
<1>5. CASE Release(t, h)
  <2>1. /\ Idle(t) /\ todo' = todo /\ objects' = objects /\ Usable(t, h)
        /\ handles' = [handles EXCEPT ![h].ptr = NoObject]
    BY <1>5 DEF Release
  <2> DEFINE W == {h}
  <2>2. \A u \in RefThreads : W \cap Used(u) = {}
    BY <2>1, UsableFacts
  <2>3. \A x \in Places : x \notin W => handles'[x] = handles[x]
    BY <1>2, <2>1
  <2>4. \A x \in W \cap Places : handles'[x].ptr # NoObject => handles'[x].alloc = Maker(handles'[x].ptr)
    BY <1>2, <2>1
  <2>5. FreedByMaker'
    BY <2>1 DEF FitInv, FreedByMaker
  <2> HIDE DEF W
  <2> QED
    BY <2>1, <2>2, <2>3, <2>4, <2>5, AtOnceFits
<1> QED
  BY <1>3, <1>4, <1>5

LEMMA FitNext ==
  ASSUME RefAssumption, AllocatorsKept, RefInv, FitInv, RefNext
  PROVE  FitInv'
<1>1. PICK t \in RefThreads :
        \/ Continue(t)
        \/ \E h \in Places :
             \/ \E o \in Objects : MakeArcWith(t, h, o)
             \/ \E from \in Places : \/ CopyConstruct(t, h, from) \/ MoveConstruct(t, h, from)
                                     \/ CopyAssign(t, h, from) \/ MoveAssign(t, h, from)
             \/ ResetHandle(t, h) \/ EndOfScope(t, h) \/ Release(t, h)
  BY DEF RefNext
<1>2. CASE Continue(t)
  <2>1. todo[t][1].op \in RefOps
    BY <1>2, ContinueFacts DEF RefSteps
  <2> QED
    BY <1>2, <2>1, GoesOnFits, LastFits DEF RefOps
<1>3. CASE \E h \in Places, o \in Objects : MakeArcWith(t, h, o)
  BY <1>3, OneStepFits
<1>4. CASE \E h \in Places, from \in Places : MoveConstruct(t, h, from)
  BY <1>4, OneStepFits
<1>5. CASE \E h \in Places : Release(t, h)
  BY <1>5, OneStepFits
<1>6. CASE \E h \in Places, from \in Places :
             \/ CopyConstruct(t, h, from) \/ CopyAssign(t, h, from) \/ MoveAssign(t, h, from) \/ ResetHandle(t, h) \/ EndOfScope(t, h)
  BY <1>6, NewCallFits
<1> QED
  BY <1>1, <1>2, <1>3, <1>4, <1>5, <1>6

LEMMA FitInit ==
  ASSUME RefAssumption, RefInit
  PROVE  FitInv
<1>1. HandlesFit /\ FreedByMaker
  BY DEF HandlesFit, FreedByMaker, RefInit, Absent, Places
<1>2. \A t \in RefThreads : ArgFits(t)
  BY DEF ArgFits, Busy, RefInit
<1> QED
  BY <1>1, <1>2 DEF FitInv

LEMMA FitStutter ==
  ASSUME FitInv, UNCHANGED rc_vars
  PROVE  FitInv'
BY DEF FitInv, rc_vars, HandlesFit, Places, ArgFits, Busy, Coming, Assigned, FreedByMaker

-----------------------------------------------------------------------------
\* RefCounted, Arc and Rc: whatever the threads do with the handles they have
\* and in whatever order their steps come, nothing uses an object that is gone,
\* and an object lives exactly as long as something owns it, as long as no step
\* assigns a handle from a place inside the object that it alone keeps alive.
THEOREM OwnersSafety ==
  RefSpec /\ [][SourcesKept]_rc_vars => []SharedObjectsLive
<1>1. RefInit => RefInv
  BY RefAssumption, InitInv
<1>2. RefInv /\ [RefNext]_rc_vars /\ [SourcesKept]_rc_vars => RefInv'
  BY RefAssumption, NextInv, StutterInv
<1>3. RefInv => SharedObjectsLive
  BY RefAssumption, SafeUse, OwnedLive DEF SharedObjectsLive
<1> QED
  BY <1>1, <1>2, <1>3, PTL DEF RefSpec

\* Whatever the allocators and their traits, memory can go back to another
\* allocator than it came from through such a step or a copy or an assignment
\* that parts a pointer from its allocator, and through nothing else: not by
\* moves, resets, members of dying objects or an order of the threads.
THEOREM HandleSafety ==
  RefSpec /\ [][SourcesKept /\ AllocatorsKept]_rc_vars => []FreedByMaker
<1>1. RefInit => RefInv /\ FitInv
  BY RefAssumption, InitInv, FitInit
<1>2. RefInv /\ FitInv /\ [RefNext]_rc_vars /\ [SourcesKept /\ AllocatorsKept]_rc_vars => RefInv' /\ FitInv'
  BY RefAssumption, NextInv, StutterInv, FitNext, FitStutter
<1>3. RefInv /\ FitInv => FreedByMaker
  BY DEF FitInv
<1> QED
  BY <1>1, <1>2, <1>3, PTL DEF RefSpec
-------------------------------------------------------------------------------
(***************************************************************************)
(* The sparse set.                                                         *)
(***************************************************************************)
Entries == Nat \cup {kInvalidDenseIndex}

SetTypeOK ==
  /\ sparse_ \in Seq(Entries) /\ dense_ \in Seq(SetValues) /\ reverse_map_ \in Seq(Indices)
  /\ content \in [Indices -> SetValues \cup {NoValue}]
  /\ Len(dense_) = Len(reverse_map_)

\* The index of each place leads back to it: other entries of sparse_ may lead
\* anywhere, but no place leads back to their index.
PlacesLead ==
  \A p \in 1 .. Len(reverse_map_) :
    LET i == reverse_map_[p]
    IN  i < Len(sparse_) /\ sparse_[i + 1] = p - 1 /\ content[i] = dense_[p]

\* What has a value has a place.
ValuesPlaced == \A i \in Indices : content[i] # NoValue => \E p \in 1 .. Len(reverse_map_) : reverse_map_[p] = i

SetInv == SetTypeOK /\ PlacesLead /\ ValuesPlaced

\* What every state keeps, also one whose reverse_map_ did not grow; the rest is
\* promised where the lengths agree.
SetTyped ==
  /\ sparse_ \in Seq(Entries) /\ dense_ \in Seq(SetValues) /\ reverse_map_ \in Seq(Indices)
  /\ content \in [Indices -> SetValues \cup {NoValue}]
  /\ Len(reverse_map_) <= Len(dense_)
  /\ \A p \in 1 .. Len(reverse_map_) : reverse_map_[p] < Len(sparse_)

SetHolds == SetTyped /\ (Len(reverse_map_) = Len(dense_) => SetInv)

LEMMA TypedFacts ==
  ASSUME SetTyped
  PROVE  /\ Len(sparse_) \in Nat /\ Len(dense_) \in Nat /\ Len(reverse_map_) \in Nat /\ Len(reverse_map_) <= Len(dense_)
         /\ \A j \in 1 .. Len(sparse_) : sparse_[j] \in Entries
         /\ \A p \in 1 .. Len(dense_) : dense_[p] \in SetValues
         /\ \A p \in 1 .. Len(reverse_map_) : /\ reverse_map_[p] \in Indices /\ reverse_map_[p] \in Nat
                                             /\ reverse_map_[p] < Len(sparse_)
         /\ \A i \in Indices : i \in Nat
<1>1. /\ Len(sparse_) \in Nat /\ Len(dense_) \in Nat /\ Len(reverse_map_) \in Nat
      /\ \A j \in 1 .. Len(sparse_) : sparse_[j] \in Entries
      /\ \A p \in 1 .. Len(dense_) : dense_[p] \in SetValues
      /\ \A p \in 1 .. Len(reverse_map_) : reverse_map_[p] \in Indices
  BY LenProperties, ElementOfSeq DEF SetTyped
<1>2. \A i \in Indices : i \in Nat
  BY SparseAssumption
<1> QED
  BY <1>1, <1>2 DEF SetTyped

LEMMA SetFacts ==
  ASSUME SetInv
  PROVE  /\ Len(sparse_) \in Nat /\ Len(dense_) \in Nat /\ Len(reverse_map_) = Len(dense_)
         /\ \A j \in 1 .. Len(sparse_) : sparse_[j] \in Entries
         /\ \A p \in 1 .. Len(dense_) : dense_[p] \in SetValues /\ reverse_map_[p] \in Indices /\ reverse_map_[p] \in Nat
         /\ \A i \in Indices : i \in Nat
         /\ \A p, q \in 1 .. Len(dense_) : reverse_map_[p] = reverse_map_[q] => p = q
<1>1. Len(sparse_) \in Nat /\ Len(dense_) \in Nat /\ Len(reverse_map_) = Len(dense_)
  BY LenProperties DEF SetInv, SetTypeOK
<1>2. \A j \in 1 .. Len(sparse_) : sparse_[j] \in Entries
  BY ElementOfSeq DEF SetInv, SetTypeOK
<1>3. \A p \in 1 .. Len(dense_) : dense_[p] \in SetValues /\ reverse_map_[p] \in Indices
  BY <1>1, ElementOfSeq DEF SetInv, SetTypeOK
<1>4. \A i \in Indices : i \in Nat
  BY SparseAssumption
<1>5. \A p, q \in 1 .. Len(dense_) : reverse_map_[p] = reverse_map_[q] => p = q
  BY <1>1, <1>3 DEF SetInv, PlacesLead
<1> QED
  BY <1>1, <1>2, <1>3, <1>4, <1>5

\* Contains tells of exactly the indices that have a place, which is where
\* sparse_ leads.
LEMMA PlaceOf ==
  ASSUME SetInv, NEW i \in Indices
  PROVE  /\ HasIndex(i) <=> \E p \in 1 .. Len(dense_) : reverse_map_[p] = i
         /\ HasIndex(i) => /\ i < Len(sparse_) /\ sparse_[i + 1] + 1 \in 1 .. Len(dense_) /\ sparse_[i + 1] \in Nat
                           /\ reverse_map_[sparse_[i + 1] + 1] = i
<1>1. ASSUME HasIndex(i)
      PROVE  /\ i < Len(sparse_) /\ sparse_[i + 1] + 1 \in 1 .. Len(dense_) /\ sparse_[i + 1] \in Nat
             /\ reverse_map_[sparse_[i + 1] + 1] = i
  <2>1. i < Len(sparse_) /\ sparse_[i + 1] # kInvalidDenseIndex /\ sparse_[i + 1] < Len(dense_)
        /\ reverse_map_[sparse_[i + 1] + 1] = i
    BY <1>1 DEF HasIndex
  <2>2. i + 1 \in 1 .. Len(sparse_)
    BY <2>1, SetFacts
  <2>3. sparse_[i + 1] \in Nat
    BY <2>1, <2>2, SetFacts DEF Entries
  <2> QED
    BY <2>1, <2>3, SetFacts
<1>2. ASSUME NEW p \in 1 .. Len(dense_), reverse_map_[p] = i
      PROVE  HasIndex(i)
  <2>1. i < Len(sparse_) /\ sparse_[i + 1] = p - 1
    BY <1>2, SetFacts DEF SetInv, PlacesLead
  <2>2. p - 1 \in Nat /\ p - 1 < Len(dense_) /\ (p - 1) + 1 = p
    BY SetFacts
  <2>3. p - 1 # kInvalidDenseIndex
    BY <2>2, SparseAssumption
  <2> QED
    BY <1>2, <2>1, <2>2, <2>3, SetFacts DEF HasIndex
<1> QED
  BY <1>1, <1>2

\* As many values as there are indices that have one.
LEMMA PlacesCount ==
  ASSUME SetInv
  PROVE  Len(dense_) = Cardinality({i \in Indices : content[i] # NoValue})
<1> DEFINE n == Len(dense_)
           T == {i \in Indices : content[i] # NoValue}
           f == [p \in 1 .. n |-> reverse_map_[p]]
<1>1. n \in Nat /\ \A p, q \in 1 .. n : reverse_map_[p] = reverse_map_[q] => p = q
  BY SetFacts
<1>2. \A p \in 1 .. n : reverse_map_[p] \in T
  BY SetFacts, SparseAssumption DEF SetInv, PlacesLead
<1>3. \A i \in T : \E p \in 1 .. n : reverse_map_[p] = i
  BY SetFacts DEF SetInv, ValuesPlaced
<1> HIDE DEF n, T
<1>4. f \in Bijection(1 .. n, T)
  BY <1>1, <1>2, <1>3 DEF Bijection, Injection, Surjection, IsInjective
<1>5. IsFiniteSet(1 .. n) /\ Cardinality(1 .. n) = n
  BY <1>1, FS_Interval
<1>6. ExistsBijection(1 .. n, T)
  BY <1>4 DEF ExistsBijection
<1>7. Cardinality(T) = Cardinality(1 .. n)
  BY <1>5, <1>6, FS_Bijection
<1> QED
  BY <1>5, <1>7 DEF n, T

LEMMA SetIsMapHolds == ASSUME SetInv PROVE SetIsMap
<1>1. ASSUME NEW i \in Indices PROVE TryGet(i) = content[i]
  <2>1. CASE HasIndex(i)
    <3> DEFINE p == sparse_[i + 1] + 1
    <3>1. p \in 1 .. Len(dense_) /\ reverse_map_[p] = i
      BY <2>1, PlaceOf
    <3> HIDE DEF p
    <3>2. content[i] = dense_[p]
      BY <3>1, SetFacts DEF SetInv, PlacesLead
    <3> QED
      BY <2>1, <3>2 DEF TryGet, p
  <2>2. CASE ~HasIndex(i)
    BY <2>2, PlaceOf, SetFacts DEF SetInv, ValuesPlaced, TryGet
  <2> QED
    BY <2>1, <2>2
<1> QED
  BY <1>1, PlacesCount, SetFacts DEF SetIsMap

LEMMA InvTyped == ASSUME SetInv PROVE SetTyped
<1>1. Len(reverse_map_) <= Len(dense_)
  BY SetFacts
<1>2. \A p \in 1 .. Len(reverse_map_) : reverse_map_[p] < Len(sparse_)
  BY DEF SetInv, PlacesLead
<1> QED
  BY <1>1, <1>2 DEF SetInv, SetTypeOK, SetTyped

\* What room for an index leaves as it was.
LEMMA ResizedFacts ==
  ASSUME SetTyped, NEW n \in Nat
  PROVE  /\ Resized(n) \in Seq(Entries) /\ Len(Resized(n)) = n
         /\ \A j \in 1 .. n : j <= Len(sparse_) => Resized(n)[j] = sparse_[j]
<1>1. \A j \in 1 .. n : (IF j <= Len(sparse_) THEN sparse_[j] ELSE kInvalidDenseIndex) \in Entries
  BY TypedFacts DEF Entries
<1>2. Resized(n) \in [1 .. n -> Entries]
  BY <1>1 DEF Resized
<1> QED
  BY <1>2, IsASeq DEF Resized

LEMMA ReserveFacts ==
  ASSUME SetTyped, NEW i \in Indices
  PROVE  LET s == ReserveSparse(i)
         IN  /\ s \in Seq(Entries) /\ Len(s) \in Nat /\ i < Len(s) /\ Len(sparse_) <= Len(s)
             /\ \A j \in 1 .. Len(sparse_) : s[j] = sparse_[j]
<1>1. i \in Nat /\ Len(sparse_) \in Nat
  BY TypedFacts
<1>2. CASE i < Len(sparse_)
  BY <1>1, <1>2 DEF ReserveSparse, SetTyped
<1>3. CASE ~(i < Len(sparse_))
  <2>1. ReserveSparse(i) = Resized(i + 1) /\ i + 1 \in Nat
    BY <1>1, <1>3 DEF ReserveSparse
  <2>2. /\ Resized(i + 1) \in Seq(Entries) /\ Len(Resized(i + 1)) = i + 1
        /\ \A j \in 1 .. i + 1 : j <= Len(sparse_) => Resized(i + 1)[j] = sparse_[j]
    BY <2>1, ResizedFacts
  <2> DEFINE r == Resized(i + 1)
  <2> HIDE DEF r
  <2>3. r \in Seq(Entries) /\ Len(r) \in Nat /\ i < Len(r) /\ Len(sparse_) <= Len(r) /\ \A j \in 1 .. Len(sparse_) : r[j] = sparse_[j]
    BY <1>1, <1>3, <2>2 DEF r
  <2> QED
    BY <2>1, <2>3 DEF r
<1> QED
  BY <1>2, <1>3

\* A longer sparse_ in which the indices that have a place lead to it.
LEMMA LongerKeeps ==
  ASSUME SetInv, sparse_' \in Seq(Entries),
         \A p \in 1 .. Len(reverse_map_) : reverse_map_[p] < Len(sparse_') /\ sparse_'[reverse_map_[p] + 1] = sparse_[reverse_map_[p] + 1],
         UNCHANGED <<dense_, reverse_map_, content>>
  PROVE  SetInv'
<1>1. dense_' = dense_ /\ reverse_map_' = reverse_map_ /\ content' = content
  OBVIOUS
<1> QED
  BY <1>1 DEF SetInv, SetTypeOK, PlacesLead, ValuesPlaced

LEMMA ReplaceValueKeeps ==
  ASSUME SetInv, NEW i \in Indices, NEW v \in SetValues, ReplaceValue(i, v)
  PROVE  SetInv'
<1> DEFINE p == sparse_[i + 1] + 1
<1>1. /\ HasIndex(i) /\ dense_' = [dense_ EXCEPT ![p] = v] /\ content' = [content EXCEPT ![i] = v]
      /\ sparse_' = sparse_ /\ reverse_map_' = reverse_map_
  BY DEF ReplaceValue
<1>2. p \in 1 .. Len(dense_) /\ reverse_map_[p] = i
  BY <1>1, PlaceOf
<1> HIDE DEF p
<1>3. /\ dense_' \in Seq(SetValues) /\ Len(dense_') = Len(dense_)
      /\ \A q \in 1 .. Len(dense_) : dense_'[q] = IF q = p THEN v ELSE dense_[q]
  BY <1>1, <1>2, ExceptSeq, SetFacts DEF SetInv, SetTypeOK
<1>4. SetTypeOK'
  BY <1>1, <1>3 DEF SetInv, SetTypeOK
<1>5. \A q \in 1 .. Len(dense_) : reverse_map_[q] = i <=> q = p
  BY <1>2, SetFacts
<1>6. \A j \in Indices : content'[j] = IF j = i THEN v ELSE content[j]
  BY <1>1 DEF SetInv, SetTypeOK
<1>7. PlacesLead'
  BY <1>1, <1>3, <1>5, <1>6, SetFacts DEF SetInv, PlacesLead
<1>8. ValuesPlaced'
  BY <1>1, <1>2, <1>6, SetFacts DEF SetInv, ValuesPlaced
<1> QED
  BY <1>4, <1>7, <1>8 DEF SetInv

LEMMA InsertValueKeeps ==
  ASSUME SetInv, NEW i \in Indices, NEW v \in SetValues, InsertValue(i, v)
  PROVE  SetInv'
<1> DEFINE s == ReserveSparse(i)
           n == Len(dense_)
<1>1. /\ ~HasIndex(i) /\ sparse_' = [s EXCEPT ![i + 1] = n] /\ content' = [content EXCEPT ![i] = v]
      /\ dense_' = Append(dense_, v) /\ reverse_map_' = Append(reverse_map_, i)
  BY DEF InsertValue
<1>2. /\ s \in Seq(Entries) /\ Len(s) \in Nat /\ i < Len(s) /\ Len(sparse_) <= Len(s) /\ \A j \in 1 .. Len(sparse_) : s[j] = sparse_[j]
  BY InvTyped, ReserveFacts
<1>3. i \in Nat /\ n \in Nat /\ n \in Entries /\ Len(reverse_map_) = n /\ Len(sparse_) \in Nat
  BY SetFacts DEF Entries
<1> HIDE DEF s, n
<1>4. sparse_' \in Seq(Entries) /\ Len(sparse_') = Len(s) /\ \A j \in 1 .. Len(s) : sparse_'[j] = IF j = i + 1 THEN n ELSE s[j]
  BY <1>1, <1>2, <1>3, ExceptSeq
<1>5. /\ dense_' \in Seq(SetValues) /\ Len(dense_') = n + 1 /\ dense_'[n + 1] = v /\ \A p \in 1 .. n : dense_'[p] = dense_[p]
      /\ reverse_map_' \in Seq(Indices) /\ Len(reverse_map_') = n + 1 /\ reverse_map_'[n + 1] = i
      /\ \A p \in 1 .. n : reverse_map_'[p] = reverse_map_[p]
  BY <1>1, <1>3, AppendProperties DEF SetInv, SetTypeOK, n
<1>6. \A j \in Indices : content'[j] = IF j = i THEN v ELSE content[j]
  BY <1>1 DEF SetInv, SetTypeOK
<1>7. SetTypeOK'
  BY <1>1, <1>4, <1>5 DEF SetInv, SetTypeOK
<1>8. \A p \in 1 .. n : reverse_map_[p] # i
  BY <1>1, PlaceOf DEF n
<1>9. PlacesLead'
  <2> SUFFICES ASSUME NEW p \in 1 .. n + 1
               PROVE  LET j == reverse_map_'[p]
                      IN  j < Len(sparse_') /\ sparse_'[j + 1] = p - 1 /\ content'[j] = dense_'[p]
    BY <1>5 DEF PlacesLead
  <2>1. CASE p = n + 1
    BY <1>2, <1>3, <1>4, <1>5, <1>6, <2>1
  <2>2. CASE p # n + 1
    <3> DEFINE j == reverse_map_[p]
    <3>1. p \in 1 .. n /\ reverse_map_'[p] = j /\ dense_'[p] = dense_[p] /\ j # i
      BY <1>3, <1>5, <1>8, <2>2
    <3>2. j < Len(sparse_) /\ sparse_[j + 1] = p - 1 /\ content[j] = dense_[p]
      BY <1>3, <3>1 DEF SetInv, PlacesLead
    <3>3. j \in Nat /\ j \in Indices
      BY <3>1, SetFacts DEF n
    <3> HIDE DEF j
    <3>4. j + 1 \in 1 .. Len(sparse_) /\ j + 1 \in 1 .. Len(s) /\ j + 1 # i + 1
      BY <1>2, <1>3, <3>1, <3>2, <3>3
    <3> QED
      BY <1>2, <1>4, <1>6, <3>1, <3>2, <3>3, <3>4
  <2> QED
    BY <2>1, <2>2
<1>10. ValuesPlaced'
  <2> SUFFICES ASSUME NEW j \in Indices, content'[j] # NoValue
               PROVE  \E p \in 1 .. n + 1 : reverse_map_'[p] = j
    BY <1>5 DEF ValuesPlaced
  <2>1. CASE j = i
    BY <1>3, <1>5, <2>1
  <2>2. CASE j # i
    <3>1. PICK p \in 1 .. n : reverse_map_[p] = j
      BY <1>3, <1>6, <2>2 DEF SetInv, ValuesPlaced
    <3> QED
      BY <1>3, <1>5, <3>1
  <2> QED
    BY <2>1, <2>2
<1> QED
  BY <1>7, <1>9, <1>10 DEF SetInv

\* An insertion for which dense_ does not grow leaves an entry that leads to no
\* place, or to one that leads elsewhere.
LEMMA FailureKeeps ==
  ASSUME SetInv, NEW i \in Indices, NEW v \in SetValues, InsertCopyFails(i, v) \/ EmplaceFails(i, v), dense_' = dense_
  PROVE  SetInv'
<1> DEFINE s == ReserveSparse(i)
           n == Len(dense_)
<1>1. /\ ~HasIndex(i) /\ sparse_' \in {s, [s EXCEPT ![i + 1] = n]} /\ UNCHANGED <<dense_, reverse_map_, content>>
  BY DEF InsertCopyFails, EmplaceFails
<1>2. /\ s \in Seq(Entries) /\ Len(s) \in Nat /\ i < Len(s) /\ Len(sparse_) <= Len(s) /\ \A j \in 1 .. Len(sparse_) : s[j] = sparse_[j]
  BY InvTyped, ReserveFacts
<1>3. i \in Nat /\ n \in Nat /\ n \in Entries /\ Len(reverse_map_) = n /\ Len(sparse_) \in Nat
  BY SetFacts DEF Entries
<1>4. \A p \in 1 .. n : reverse_map_[p] # i /\ reverse_map_[p] \in Nat /\ reverse_map_[p] < Len(sparse_)
  BY <1>1, <1>3, PlaceOf, SetFacts DEF SetInv, PlacesLead
<1> HIDE DEF s, n
<1>5. sparse_' \in Seq(Entries) /\ Len(sparse_') = Len(s) /\ \A j \in 1 .. Len(s) : j # i + 1 => sparse_'[j] = s[j]
  BY <1>1, <1>2, <1>3, ExceptSeq
<1>6. \A p \in 1 .. Len(reverse_map_) : reverse_map_[p] < Len(sparse_') /\ sparse_'[reverse_map_[p] + 1] = sparse_[reverse_map_[p] + 1]
  <2> SUFFICES ASSUME NEW p \in 1 .. n
               PROVE  reverse_map_[p] < Len(sparse_') /\ sparse_'[reverse_map_[p] + 1] = sparse_[reverse_map_[p] + 1]
    BY <1>3
  <2> DEFINE j == reverse_map_[p]
  <2>1. j # i /\ j \in Nat /\ j < Len(sparse_)
    BY <1>4
  <2> HIDE DEF j
  <2>2. j < Len(sparse_') /\ sparse_'[j + 1] = sparse_[j + 1]
    BY <1>2, <1>3, <1>5, <2>1
  <2> QED
    BY <2>2 DEF j
<1> QED
  BY <1>1, <1>5, <1>6, LongerKeeps

LEMMA SubSeqUpTo ==
  ASSUME NEW S, NEW q \in Seq(S), NEW m \in Nat, m <= Len(q)
  PROVE  /\ SubSeq(q, 1, m) \in Seq(S) /\ Len(SubSeq(q, 1, m)) = m
         /\ \A j \in 1 .. m : SubSeq(q, 1, m)[j] = q[j]
<1>1. \A j \in 1 .. m : q[j] \in S /\ j \in 1 .. Len(q)
  BY ElementOfSeq
<1>2. m = 0 \/ (1 \in 1 .. Len(q) /\ m \in 1 .. Len(q))
  BY LenProperties
<1> QED
  BY <1>1, <1>2, LenProperties, SubSeqProperties, SubSeqEmpty, EmptySeq

LEMMA RemoveIndexKeeps ==
  ASSUME SetInv, NEW i \in Indices, RemoveIndex(i)
  PROVE  SetInv'
<1> DEFINE p == sparse_[i + 1] + 1
           n == Len(dense_)
           last == reverse_map_[n]
           dense == [dense_ EXCEPT ![p] = dense_[n]]
           reverse == [reverse_map_ EXCEPT ![p] = last]
           linked == [sparse_ EXCEPT ![last + 1] = sparse_[i + 1]]
<1>1. /\ HasIndex(i) /\ dense_' = SubSeq(dense, 1, n - 1) /\ reverse_map_' = SubSeq(reverse, 1, Len(reverse_map_) - 1)
      /\ sparse_' = [linked EXCEPT ![i + 1] = kInvalidDenseIndex] /\ content' = [content EXCEPT ![i] = NoValue]
  <2>1. LastIndices = {last}
    BY SetFacts DEF LastIndices
  <2> QED
    BY <2>1 DEF RemoveIndex, Relinked
<1>2. /\ i < Len(sparse_) /\ p \in 1 .. n /\ sparse_[i + 1] = p - 1 /\ reverse_map_[p] = i /\ p - 1 \in Entries
  BY <1>1, PlaceOf, SetFacts DEF Entries
<1>3. /\ n \in Nat /\ n >= 1 /\ Len(reverse_map_) = n /\ n - 1 \in Nat /\ Len(sparse_) \in Nat
      /\ last \in Indices /\ dense_[n] \in SetValues /\ i \in Nat /\ last \in Nat /\ last < Len(sparse_)
  BY <1>2, SetFacts DEF SetInv, PlacesLead
<1> HIDE DEF p, n, last, dense, reverse, linked
<1>4. dense \in Seq(SetValues) /\ Len(dense) = n /\ \A q \in 1 .. n : dense[q] = IF q = p THEN dense_[n] ELSE dense_[q]
  BY <1>2, <1>3, ExceptSeq DEF SetInv, SetTypeOK, dense, n
<1>5. reverse \in Seq(Indices) /\ Len(reverse) = n /\ \A q \in 1 .. n : reverse[q] = IF q = p THEN last ELSE reverse_map_[q]
  BY <1>2, <1>3, ExceptSeq DEF SetInv, SetTypeOK, reverse
<1>6. linked \in Seq(Entries) /\ Len(linked) = Len(sparse_) /\ \A j \in 1 .. Len(sparse_) : linked[j] = IF j = last + 1 THEN p - 1 ELSE sparse_[j]
  <2>1. sparse_ \in Seq(Entries) /\ last + 1 \in 1 .. Len(sparse_) /\ linked = [sparse_ EXCEPT ![last + 1] = p - 1]
    BY <1>2, <1>3 DEF SetInv, SetTypeOK, linked
  <2> QED
    BY <1>2, <2>1, ExceptSeq
<1>7. /\ sparse_' \in Seq(Entries) /\ Len(sparse_') = Len(sparse_)
      /\ \A j \in 1 .. Len(sparse_) : j # i + 1 => sparse_'[j] = IF j = last + 1 THEN p - 1 ELSE sparse_[j]
  <2>1. i + 1 \in 1 .. Len(linked) /\ kInvalidDenseIndex \in Entries
    BY <1>2, <1>3, <1>6 DEF Entries
  <2>2. /\ sparse_' \in Seq(Entries) /\ Len(sparse_') = Len(linked)
        /\ \A j \in 1 .. Len(linked) : sparse_'[j] = IF j = i + 1 THEN kInvalidDenseIndex ELSE linked[j]
    BY <1>1, <1>6, <2>1, ExceptSeq
  <2> QED
    BY <1>6, <2>2
<1>8. /\ dense_' \in Seq(SetValues) /\ Len(dense_') = n - 1 /\ \A q \in 1 .. n - 1 : dense_'[q] = dense[q]
      /\ reverse_map_' \in Seq(Indices) /\ Len(reverse_map_') = n - 1 /\ \A q \in 1 .. n - 1 : reverse_map_'[q] = reverse[q]
  BY <1>1, <1>3, <1>4, <1>5, SubSeqUpTo
<1>9. content' \in [Indices -> SetValues \cup {NoValue}] /\ \A j \in Indices : content'[j] = IF j = i THEN NoValue ELSE content[j]
  BY <1>1 DEF SetInv, SetTypeOK
<1>10. SetTypeOK'
  BY <1>7, <1>8, <1>9 DEF SetTypeOK
<1>11. \A q, r \in 1 .. n : reverse_map_[q] = reverse_map_[r] => q = r
  BY SetFacts DEF n
<1>12. \A q \in 1 .. n : /\ reverse_map_[q] \in Indices /\ reverse_map_[q] \in Nat /\ reverse_map_[q] < Len(sparse_)
                         /\ sparse_[reverse_map_[q] + 1] = q - 1 /\ content[reverse_map_[q]] = dense_[q]
  BY <1>3, SetFacts DEF SetInv, PlacesLead, n
<1>13. reverse_map_[n] = last /\ content[last] = dense_[n]
  BY <1>3, <1>12 DEF last
<1>14. PlacesLead'
  <2> SUFFICES ASSUME NEW q \in 1 .. n - 1
               PROVE  LET j == reverse_map_'[q]
                      IN  j < Len(sparse_') /\ sparse_'[j + 1] = q - 1 /\ content'[j] = dense_'[q]
    BY <1>8 DEF PlacesLead
  <2>0. q \in 1 .. n /\ q # n
    BY <1>3
  <2>1. CASE q = p
    <3>1. reverse_map_'[q] = last /\ dense_'[q] = dense_[n] /\ last # i
      BY <1>2, <1>3, <1>4, <1>5, <1>8, <1>11, <1>13, <2>0, <2>1
    <3>2. sparse_'[last + 1] = p - 1 /\ content'[last] = content[last]
      BY <1>3, <1>7, <1>9, <3>1
    <3> QED
      BY <1>3, <1>7, <1>13, <2>1, <3>1, <3>2
  <2>2. CASE q # p
    <3> DEFINE j == reverse_map_[q]
    <3>1. reverse_map_'[q] = j /\ dense_'[q] = dense_[q] /\ j # i /\ j # last
      BY <1>2, <1>3, <1>4, <1>5, <1>8, <1>11, <1>13, <2>0, <2>2
    <3>2. j \in Indices /\ j \in Nat /\ j < Len(sparse_) /\ sparse_[j + 1] = q - 1 /\ content[j] = dense_[q]
      BY <1>12, <2>0
    <3> HIDE DEF j
    <3>3. sparse_'[j + 1] = q - 1 /\ content'[j] = content[j]
      BY <1>3, <1>7, <1>9, <3>1, <3>2
    <3> QED
      BY <1>7, <3>1, <3>2, <3>3
  <2> QED
    BY <2>1, <2>2
<1>15. ValuesPlaced'
  <2> SUFFICES ASSUME NEW j \in Indices, content'[j] # NoValue
               PROVE  \E q \in 1 .. n - 1 : reverse_map_'[q] = j
    BY <1>8 DEF ValuesPlaced
  <2>1. j # i /\ content[j] # NoValue
    BY <1>9
  <2>2. PICK q \in 1 .. n : reverse_map_[q] = j
    BY <1>3, <2>1 DEF SetInv, ValuesPlaced
  <2>3. q # p
    BY <1>2, <2>1, <2>2
  <2>4. CASE q = n
    <3>1. j = last /\ p \in 1 .. n - 1
      BY <1>2, <1>3, <1>13, <2>2, <2>3, <2>4
    <3> QED
      BY <1>2, <1>5, <1>8, <3>1
  <2>5. CASE q # n
    <3>1. q \in 1 .. n - 1
      BY <1>3, <2>5
    <3> QED
      BY <1>5, <1>8, <2>2, <2>3, <3>1
  <2> QED
    BY <2>4, <2>5
<1> QED
  BY <1>10, <1>14, <1>15 DEF SetInv

LEMMA EmptySetInv ==
  ASSUME sparse_ \in Seq(Entries), dense_ = <<>>, reverse_map_ = <<>>, content = [i \in Indices |-> NoValue]
  PROVE  SetInv
<1>1. Len(dense_) = 0 /\ Len(reverse_map_) = 0 /\ dense_ \in Seq(SetValues) /\ reverse_map_ \in Seq(Indices)
  BY EmptySeq
<1> QED
  BY <1>1 DEF SetInv, SetTypeOK, PlacesLead, ValuesPlaced

\* One index of the places is the greatest.
LEMMA GreatestPlaced ==
  ASSUME SetTyped, reverse_map_ # <<>>
  PROVE  \E m \in Indices : /\ \E p \in DOMAIN reverse_map_ : reverse_map_[p] = m
                            /\ \A p \in DOMAIN reverse_map_ : reverse_map_[p] <= m
<1> DEFINE n == Len(reverse_map_)
           bound == Len(sparse_)
           T == {bound - reverse_map_[p] : p \in 1 .. n}
           R == OpToRel(<, Nat)
<1>1. n \in Nat /\ n >= 1 /\ DOMAIN reverse_map_ = 1 .. n /\ bound \in Nat
  BY EmptySeq, LenProperties, TypedFacts DEF SetTyped
<1>2. \A p \in 1 .. n : reverse_map_[p] \in Indices /\ reverse_map_[p] \in Nat /\ reverse_map_[p] < bound
  BY TypedFacts
<1>3. T \subseteq Nat /\ T # {}
  BY <1>1, <1>2
<1>4. \A y, z \in Nat : y < z => <<y, z>> \in R
  BY DEF OpToRel
<1>5. IsWellFoundedOn(R, Nat)
  BY NatLessThanWellFounded
<1> HIDE DEF T, R
<1>6. PICK x \in T : \A y \in T : ~ (<<y, x>> \in R)
  BY <1>3, <1>5, WFMin
<1>7. \A y \in T : x <= y
  <2> SUFFICES ASSUME NEW y \in T PROVE x <= y
    OBVIOUS
  <2>1. x \in Nat /\ y \in Nat
    BY <1>3
  <2>2. ~ (y < x)
    BY <1>4, <1>6, <2>1
  <2> QED
    BY <2>1, <2>2
<1>8. PICK p \in 1 .. n : x = bound - reverse_map_[p]
  BY <1>6 DEF T
<1>9. \A q \in 1 .. n : reverse_map_[q] <= reverse_map_[p]
  <2> SUFFICES ASSUME NEW q \in 1 .. n PROVE reverse_map_[q] <= reverse_map_[p]
    OBVIOUS
  <2>1. bound - reverse_map_[q] \in T
    BY DEF T
  <2>2. bound - reverse_map_[p] <= bound - reverse_map_[q]
    BY <1>7, <1>8, <2>1
  <2>3. reverse_map_[p] \in Nat /\ reverse_map_[q] \in Nat
    BY <1>2
  <2> QED
    BY <1>1, <2>2, <2>3
<1> QED
  BY <1>1, <1>2, <1>8, <1>9

LEMMA ShrinkToFitKeeps ==
  ASSUME SetInv, ShrinkToFit
  PROVE  SetInv'
<1>1. UNCHANGED <<dense_, reverse_map_, content>>
  BY DEF ShrinkToFit
<1>2. CASE reverse_map_ = <<>>
  <2>1. sparse_' = <<>> /\ Len(reverse_map_) = 0
    BY <1>2, EmptySeq DEF ShrinkToFit
  <2>2. sparse_' \in Seq(Entries)
    BY <2>1, EmptySeq
  <2> QED
    BY <1>1, <2>1, <2>2, LongerKeeps
<1>3. CASE reverse_map_ # <<>>
  <2> DEFINE m == CHOOSE m \in Indices : /\ \E p \in DOMAIN reverse_map_ : reverse_map_[p] = m
                                         /\ \A p \in DOMAIN reverse_map_ : reverse_map_[p] <= m
  <2>1. sparse_' = Resized(1 + m)
    BY <1>3 DEF ShrinkToFit
  <2>2. m \in Indices /\ \A p \in DOMAIN reverse_map_ : reverse_map_[p] <= m
    BY <1>3, InvTyped, GreatestPlaced
  <2> HIDE DEF m
  <2>3. m \in Nat /\ 1 + m \in Nat /\ DOMAIN reverse_map_ = 1 .. Len(reverse_map_)
    BY <2>2, SetFacts, LenProperties DEF SetInv, SetTypeOK
  <2>4. /\ sparse_' \in Seq(Entries) /\ Len(sparse_') = 1 + m
        /\ \A j \in 1 .. 1 + m : j <= Len(sparse_) => sparse_'[j] = sparse_[j]
    BY <2>1, <2>3, InvTyped, ResizedFacts
  <2>5. \A p \in 1 .. Len(reverse_map_) : reverse_map_[p] \in Nat /\ reverse_map_[p] < Len(sparse_) /\ reverse_map_[p] <= m
    BY <2>2, <2>3, SetFacts DEF SetInv, PlacesLead
  <2>6. \A p \in 1 .. Len(reverse_map_) : reverse_map_[p] < Len(sparse_') /\ sparse_'[reverse_map_[p] + 1] = sparse_[reverse_map_[p] + 1]
    <3> SUFFICES ASSUME NEW p \in 1 .. Len(reverse_map_)
                 PROVE  reverse_map_[p] < Len(sparse_') /\ sparse_'[reverse_map_[p] + 1] = sparse_[reverse_map_[p] + 1]
      OBVIOUS
    <3> DEFINE j == reverse_map_[p]
    <3>1. j \in Nat /\ j < Len(sparse_) /\ j <= m
      BY <2>5
    <3> HIDE DEF j
    <3>2. j < Len(sparse_') /\ sparse_'[j + 1] = sparse_[j + 1]
      BY <2>3, <2>4, <3>1, SetFacts
    <3> QED
      BY <3>2 DEF j
  <2> QED
    BY <1>1, <2>4, <2>6, LongerKeeps
<1> QED
  BY <1>2, <1>3

\* No step but ClearSet brings the lengths together again.
LEMMA InsertTyped ==
  ASSUME SetTyped, NEW i \in Indices, NEW v \in SetValues,
         sparse_' \in {ReserveSparse(i), [ReserveSparse(i) EXCEPT ![i + 1] = Len(dense_)]},
         dense_' \in {dense_, Append(dense_, v)}, reverse_map_' \in {reverse_map_, Append(reverse_map_, i)},
         reverse_map_' = reverse_map_ \/ dense_' # dense_,
         content' \in {content, [content EXCEPT ![i] = v]}
  PROVE  SetTyped' /\ (Len(reverse_map_') = Len(dense_') => Len(reverse_map_) = Len(dense_) /\ (dense_' = dense_ \/ reverse_map_' # reverse_map_))
<1> DEFINE s == ReserveSparse(i)
           n == Len(dense_)
           m == Len(reverse_map_)
<1>1. /\ s \in Seq(Entries) /\ Len(s) \in Nat /\ i < Len(s) /\ Len(sparse_) <= Len(s)
  BY ReserveFacts
<1>2. i \in Nat /\ n \in Nat /\ m \in Nat /\ m <= n /\ Len(sparse_) \in Nat /\ n \in Entries
  BY TypedFacts DEF Entries
<1>3. /\ dense_ \in Seq(SetValues) /\ reverse_map_ \in Seq(Indices)
      /\ \A p \in 1 .. m : reverse_map_[p] \in Nat /\ reverse_map_[p] < Len(sparse_)
  BY TypedFacts DEF SetTyped
<1>4. /\ Append(dense_, v) \in Seq(SetValues) /\ Len(Append(dense_, v)) = n + 1
      /\ Append(reverse_map_, i) \in Seq(Indices) /\ Len(Append(reverse_map_, i)) = m + 1
      /\ \A p \in 1 .. m : Append(reverse_map_, i)[p] = reverse_map_[p]
      /\ Append(reverse_map_, i)[m + 1] = i
  BY <1>3, AppendProperties
<1> HIDE DEF s, n, m
<1>5. sparse_' \in Seq(Entries) /\ Len(sparse_') = Len(s)
  <2>1. i + 1 \in 1 .. Len(s)
    BY <1>1, <1>2
  <2>2. [s EXCEPT ![i + 1] = n] \in Seq(Entries) /\ Len([s EXCEPT ![i + 1] = n]) = Len(s)
    BY <1>1, <1>2, <2>1, ExceptSeq
  <2> QED
    BY <1>1, <2>2 DEF s, n
<1>6. dense_' \in Seq(SetValues) /\ reverse_map_' \in Seq(Indices)
      /\ content' \in [Indices -> SetValues \cup {NoValue}]
  BY <1>3, <1>4 DEF SetTyped
<1>7. /\ Len(dense_') \in {n, n + 1} /\ Len(reverse_map_') \in {m, m + 1}
      /\ Len(dense_') = n <=> dense_' = dense_
      /\ Len(reverse_map_') = m <=> reverse_map_' = reverse_map_
  BY <1>2, <1>4 DEF n, m
<1>8. \A p \in 1 .. Len(reverse_map_') : reverse_map_'[p] < Len(sparse_')
  <2> SUFFICES ASSUME NEW p \in 1 .. Len(reverse_map_') PROVE reverse_map_'[p] < Len(sparse_')
    OBVIOUS
  <2>1. CASE p \in 1 .. m
    <3>1. reverse_map_'[p] = reverse_map_[p]
      BY <1>4, <2>1
    <3> QED
      BY <1>1, <1>2, <1>3, <1>5, <2>1, <3>1
  <2>2. CASE p \notin 1 .. m
    <3>1. Len(reverse_map_') = m + 1 /\ p = m + 1
      BY <1>2, <1>7, <2>2
    <3>2. reverse_map_' = Append(reverse_map_, i)
      BY <1>2, <1>7, <3>1
    <3> QED
      BY <1>1, <1>4, <1>5, <3>1, <3>2
  <2> QED
    BY <2>1, <2>2
<1>9. Len(reverse_map_') <= Len(dense_')
  BY <1>2, <1>7
<1>10. Len(reverse_map_') = Len(dense_') => m = n /\ (dense_' = dense_ \/ reverse_map_' # reverse_map_)
  BY <1>2, <1>7
<1> QED
  BY <1>5, <1>6, <1>8, <1>9, <1>10 DEF SetTyped, n, m

LEMMA ReplaceTyped ==
  ASSUME SetTyped, NEW i \in Indices, NEW v \in SetValues, ReplaceValue(i, v)
  PROVE  SetTyped' /\ Len(dense_') = Len(dense_) /\ Len(reverse_map_') = Len(reverse_map_)
<1> DEFINE p == sparse_[i + 1] + 1
<1>1. /\ HasIndex(i) /\ dense_' = [dense_ EXCEPT ![p] = v] /\ content' = [content EXCEPT ![i] = v]
      /\ sparse_' = sparse_ /\ reverse_map_' = reverse_map_
  BY DEF ReplaceValue
<1>2. p \in 1 .. Len(dense_)
  <2>1. i + 1 \in 1 .. Len(sparse_) /\ sparse_[i + 1] # kInvalidDenseIndex /\ sparse_[i + 1] < Len(dense_)
    BY <1>1, TypedFacts DEF HasIndex
  <2>2. sparse_[i + 1] \in Nat
    BY <2>1, TypedFacts DEF Entries
  <2> QED
    BY <2>1, <2>2, TypedFacts
<1> HIDE DEF p
<1>3. dense_' \in Seq(SetValues) /\ Len(dense_') = Len(dense_)
  BY <1>1, <1>2, ExceptSeq DEF SetTyped
<1> QED
  BY <1>1, <1>3 DEF SetTyped

LEMMA RemoveTyped ==
  ASSUME SetTyped, NEW i \in Indices, RemoveIndex(i)
  PROVE  SetTyped' /\ Len(dense_') = Len(dense_) - 1 /\ Len(reverse_map_') = Len(reverse_map_) - 1
<1> DEFINE d == sparse_[i + 1]
           n == Len(dense_)
           m == Len(reverse_map_)
<1>1. PICK last \in LastIndices :
        /\ dense_' = SubSeq([dense_ EXCEPT ![d + 1] = dense_[n]], 1, n - 1)
        /\ reverse_map_' = SubSeq([reverse_map_ EXCEPT ![d + 1] = last], 1, m - 1)
        /\ sparse_' = [[sparse_ EXCEPT ![last + 1] = d] EXCEPT ![i + 1] = kInvalidDenseIndex]
  BY DEF RemoveIndex, Relinked
<1>2. HasIndex(i) /\ content' = [content EXCEPT ![i] = NoValue]
  BY DEF RemoveIndex
<1>3. i + 1 \in 1 .. Len(sparse_) /\ d # kInvalidDenseIndex /\ d < n /\ d < m
  BY <1>2, TypedFacts DEF HasIndex
<1>4. d \in Nat /\ d \in Entries /\ kInvalidDenseIndex \in Entries
  BY <1>3, TypedFacts DEF Entries
<1>5. /\ n \in Nat /\ m \in Nat /\ m <= n /\ d + 1 \in 1 .. n /\ d + 1 \in 1 .. m /\ n - 1 \in Nat /\ m - 1 \in Nat
      /\ n \in 1 .. n /\ dense_[n] \in SetValues /\ Len(sparse_) \in Nat
  BY <1>3, <1>4, TypedFacts
<1>6. last \in Indices /\ last \in Nat /\ last < Len(sparse_)
  <2>1. CASE n <= m
    BY <1>5, <2>1, TypedFacts DEF LastIndices
  <2>2. CASE ~(n <= m)
    BY <2>2, TypedFacts DEF LastIndices
  <2> QED
    BY <2>1, <2>2
<1> HIDE DEF d, n, m
<1> DEFINE dense == [dense_ EXCEPT ![d + 1] = dense_[n]]
           reverse == [reverse_map_ EXCEPT ![d + 1] = last]
           linked == [sparse_ EXCEPT ![last + 1] = d]
<1>7. dense \in Seq(SetValues) /\ Len(dense) = n
  BY <1>5, ExceptSeq DEF SetTyped, n
<1>8. reverse \in Seq(Indices) /\ Len(reverse) = m /\ \A q \in 1 .. m : reverse[q] < Len(sparse_)
  <2>1. /\ reverse \in Seq(Indices) /\ Len(reverse) = m
        /\ \A q \in 1 .. m : reverse[q] = IF q = d + 1 THEN last ELSE reverse_map_[q]
    BY <1>5, <1>6, ExceptSeq DEF SetTyped, m
  <2> HIDE DEF reverse
  <2> QED
    BY <1>6, <2>1 DEF SetTyped, m
<1>9. linked \in Seq(Entries) /\ Len(linked) = Len(sparse_)
  <2>1. last + 1 \in 1 .. Len(sparse_)
    BY <1>5, <1>6
  <2> QED
    BY <1>4, <2>1, ExceptSeq DEF SetTyped
<1> HIDE DEF dense, reverse, linked
<1>10. sparse_' = [linked EXCEPT ![i + 1] = kInvalidDenseIndex] /\ dense_' = SubSeq(dense, 1, n - 1) /\ reverse_map_' = SubSeq(reverse, 1, m - 1)
  BY <1>1 DEF dense, reverse, linked
<1>11. sparse_' \in Seq(Entries) /\ Len(sparse_') = Len(sparse_)
  BY <1>3, <1>4, <1>9, <1>10, ExceptSeq
<1>12. dense_' \in Seq(SetValues) /\ Len(dense_') = n - 1
  BY <1>5, <1>7, <1>10, SubSeqUpTo
<1>13. reverse_map_' \in Seq(Indices) /\ Len(reverse_map_') = m - 1 /\ \A q \in 1 .. m - 1 : reverse_map_'[q] = reverse[q]
  BY <1>5, <1>8, <1>10, SubSeqUpTo
<1>14. \A q \in 1 .. m - 1 : reverse_map_'[q] < Len(sparse_')
  <2>1. \A q \in 1 .. m - 1 : q \in 1 .. m
    BY <1>5
  <2> QED
    BY <1>8, <1>11, <1>13, <2>1
<1>15. content' \in [Indices -> SetValues \cup {NoValue}]
  BY <1>2 DEF SetTyped
<1>16. Len(reverse_map_') <= Len(dense_')
  BY <1>5, <1>12, <1>13
<1> QED
  BY <1>11, <1>12, <1>13, <1>14, <1>15, <1>16 DEF SetTyped, n, m

LEMMA ShrinkTyped ==
  ASSUME SetTyped, ShrinkToFit
  PROVE  SetTyped' /\ Len(dense_') = Len(dense_) /\ Len(reverse_map_') = Len(reverse_map_)
<1>1. dense_' = dense_ /\ reverse_map_' = reverse_map_ /\ content' = content
  BY DEF ShrinkToFit
<1>2. CASE reverse_map_ = <<>>
  <2>1. sparse_' = <<>> /\ Len(reverse_map_) = 0 /\ sparse_' \in Seq(Entries)
    BY <1>2, EmptySeq DEF ShrinkToFit
  <2>2. \A p \in 1 .. Len(reverse_map_') : reverse_map_'[p] < Len(sparse_')
    BY <1>1, <2>1
  <2> QED
    BY <1>1, <2>1, <2>2 DEF SetTyped
<1>3. CASE reverse_map_ # <<>>
  <2> DEFINE m == CHOOSE m \in Indices : /\ \E p \in DOMAIN reverse_map_ : reverse_map_[p] = m
                                         /\ \A p \in DOMAIN reverse_map_ : reverse_map_[p] <= m
  <2>1. sparse_' = Resized(1 + m)
    BY <1>3 DEF ShrinkToFit
  <2>2. m \in Indices /\ \A p \in DOMAIN reverse_map_ : reverse_map_[p] <= m
    BY <1>3, GreatestPlaced
  <2> HIDE DEF m
  <2>3. m \in Nat /\ 1 + m \in Nat /\ DOMAIN reverse_map_ = 1 .. Len(reverse_map_)
    BY <2>2, TypedFacts, LenProperties DEF SetTyped
  <2>4. sparse_' \in Seq(Entries) /\ Len(sparse_') = 1 + m
    BY <2>1, <2>3, ResizedFacts
  <2>5. \A p \in 1 .. Len(reverse_map_') : reverse_map_'[p] < Len(sparse_')
    <3>1. \A p \in 1 .. Len(reverse_map_) : reverse_map_[p] \in Nat /\ reverse_map_[p] <= m
      BY <2>2, <2>3, TypedFacts
    <3> QED
      BY <1>1, <2>3, <2>4, <3>1
  <2> QED
    BY <1>1, <2>4, <2>5 DEF SetTyped
<1> QED
  BY <1>2, <1>3

LEMMA SetInitInv == SetInit => SetHolds
<1> SUFFICES ASSUME SetInit PROVE SetHolds
  OBVIOUS
<1>1. sparse_ \in Seq(Entries)
  BY EmptySeq DEF SetInit
<1>2. SetInv
  BY <1>1, EmptySetInv DEF SetInit
<1> QED
  BY <1>2, InvTyped DEF SetHolds

LEMMA SetNextInv == SetHolds /\ [SetNext]_set_vars => SetHolds'
<1> SUFFICES ASSUME SetHolds, [SetNext]_set_vars PROVE SetHolds'
  OBVIOUS
<1>0. SetTyped /\ (Len(reverse_map_) = Len(dense_) => SetInv)
  BY DEF SetHolds
<1>1. Len(reverse_map_) \in Nat /\ Len(dense_) \in Nat
  BY <1>0, TypedFacts
<1>2. ASSUME NEW i \in Indices, NEW v \in SetValues, ReplaceValue(i, v) PROVE SetHolds'
  BY <1>0, <1>2, ReplaceTyped, ReplaceValueKeeps DEF SetHolds
<1>3. ASSUME NEW i \in Indices, NEW v \in SetValues, InsertValue(i, v) PROVE SetHolds'
  <2>1. /\ sparse_' = [ReserveSparse(i) EXCEPT ![i + 1] = Len(dense_)] /\ content' = [content EXCEPT ![i] = v]
        /\ dense_' = Append(dense_, v) /\ reverse_map_' = Append(reverse_map_, i)
    BY <1>3 DEF InsertValue
  <2>2. dense_' # dense_
    <3>1. Len(Append(dense_, v)) = Len(dense_) + 1
      BY <1>0, AppendProperties DEF SetTyped
    <3> QED
      BY <1>1, <2>1, <3>1
  <2>3. SetTyped' /\ (Len(reverse_map_') = Len(dense_') => Len(reverse_map_) = Len(dense_))
    BY <1>0, <2>1, <2>2, InsertTyped
  <2> QED
    BY <1>0, <1>3, <2>3, InsertValueKeeps DEF SetHolds
<1>4. ASSUME NEW i \in Indices, NEW v \in SetValues, InsertCopyFails(i, v) \/ EmplaceFails(i, v) PROVE SetHolds'
  <2>1. /\ sparse_' \in {ReserveSparse(i), [ReserveSparse(i) EXCEPT ![i + 1] = Len(dense_)]}
        /\ dense_' \in {dense_, Append(dense_, v)} /\ reverse_map_' = reverse_map_ /\ content' = content
    BY <1>4 DEF InsertCopyFails, EmplaceFails, GrownUpTo
  <2>2. SetTyped' /\ (Len(reverse_map_') = Len(dense_') => Len(reverse_map_) = Len(dense_) /\ dense_' = dense_)
    BY <1>0, <2>1, InsertTyped
  <2> QED
    BY <1>0, <1>4, <2>2, FailureKeeps DEF SetHolds
<1>5. ASSUME NEW i \in Indices, RemoveIndex(i) PROVE SetHolds'
  <2>1. SetTyped' /\ Len(dense_') = Len(dense_) - 1 /\ Len(reverse_map_') = Len(reverse_map_) - 1
    BY <1>0, <1>5, RemoveTyped
  <2>2. Len(reverse_map_') = Len(dense_') => Len(reverse_map_) = Len(dense_)
    BY <1>1, <2>1
  <2> QED
    BY <1>0, <1>5, <2>1, <2>2, RemoveIndexKeeps DEF SetHolds
<1>6. CASE ClearSet
  <2>1. sparse_' \in Seq(Entries)
    <3>1. Len(sparse_) \in Nat
      BY <1>0, TypedFacts
    <3>2. sparse_' = [j \in 1 .. Len(sparse_) |-> kInvalidDenseIndex] /\ kInvalidDenseIndex \in Entries
      BY <1>6 DEF ClearSet, Entries
    <3> QED
      BY <3>1, <3>2, IsASeq
  <2>2. dense_' = <<>> /\ reverse_map_' = <<>> /\ content' = [i \in Indices |-> NoValue]
    BY <1>6 DEF ClearSet
  <2>3. Len(dense_') = 0 /\ Len(reverse_map_') = 0 /\ dense_' \in Seq(SetValues) /\ reverse_map_' \in Seq(Indices)
    BY <2>2, EmptySeq
  <2> QED
    BY <2>1, <2>2, <2>3 DEF SetHolds, SetTyped, SetInv, SetTypeOK, PlacesLead, ValuesPlaced
<1>7. CASE ShrinkToFit
  BY <1>0, <1>7, ShrinkTyped, ShrinkToFitKeeps DEF SetHolds
<1>8. CASE UNCHANGED set_vars
  BY <1>8 DEF set_vars, SetHolds, SetTyped, SetInv, SetTypeOK, PlacesLead, ValuesPlaced
<1> QED
  BY <1>2, <1>3, <1>4, <1>5, <1>6, <1>7, <1>8 DEF SetNext

\* SparseSet: whatever insertions fail in whatever growth, and whatever is
\* inserted and removed after them, dense_ and reverse_map_ of one length are a
\* map: each index has the value last inserted for it and not removed since, and
\* iteration sees the values of the indices, once each.
THEOREM SetSafety == SetSpec => []SetSurvives
<1>1. SetHolds => SetSurvives
  BY SetIsMapHolds DEF SetHolds, SetTyped, SetSurvives
<1>2. SetHolds /\ [SetNext]_set_vars => SetHolds'
  BY SetNextInv
<1> QED
  BY <1>1, <1>2, SetInitInv, PTL DEF SetSpec

-------------------------------------------------------------------------------
(***************************************************************************)
(* The callables of a buffer.                                              *)
(***************************************************************************)
EndsAt(o) == DataOf(o) + headers[o].kind.size

CallablesTypeOK ==
  /\ size \in Nat /\ capacity \in Nat /\ size <= capacity
  /\ offsets_ \in Seq(Nat) /\ pushed \in Seq(Nat) /\ destroyed \in Seq(Nat)
  /\ Len(pushed) = Len(offsets_)
  /\ home \in [1 .. Len(pushed) + Len(destroyed) -> [block : Nat, offset : Nat]]
  /\ callable_block \in Nat

\* A header is what Push made of it, and its callable is where it says.
HeaderHolds(i) ==
  LET o == offsets_[i]
      h == headers[o]
  IN  /\ o \in DOMAIN headers /\ h.kind \in Kinds /\ h.data_offset \in Nat
      /\ h.id = pushed[i] /\ pushed[i] = Len(destroyed) + i
      /\ home[h.id].offset = DataOf(o)
      /\ h.kind.trivial \/ pushed[i] \in torn \/ home[h.id].block = callable_block
      /\ o % kPointerAlign = 0 /\ DataOf(o) % h.kind.alignment = 0
      /\ o + kHeaderSize <= DataOf(o) /\ EndsAt(o) <= size

CallablesInv ==
  /\ CallablesTypeOK
  /\ \A i \in 1 .. Len(offsets_) : HeaderHolds(i)
  /\ \A i, j \in 1 .. Len(offsets_) : i < j => EndsAt(offsets_[i]) <= offsets_[j]
  /\ \A id \in ToSet(destroyed) : id <= Len(destroyed)

\* AlignUp gives the next multiple.
LEMMA Multiple ==
  ASSUME NEW n \in Nat, NEW a \in Nat \ {0}
  PROVE  (n * a) % a = 0
<1>1. n * a \in Nat /\ n * a = a * n + 0 /\ 0 \in 0 .. a - 1
  OBVIOUS
<1> QED
  BY <1>1, SMTT(30)

LEMMA AlignUpFacts ==
  ASSUME NEW x \in Nat, NEW a \in Nat \ {0}
  PROVE  AlignUp(x, a) \in Nat /\ x <= AlignUp(x, a) /\ AlignUp(x, a) % a = 0
<1> DEFINE q == (x + a - 1) \div a
           r == (x + a - 1) % a
<1>1. q \in Nat /\ r \in Nat /\ r < a /\ x + a - 1 = a * q + r
  BY SMTT(30)
<1> HIDE DEF r
<1>2. AlignUp(x, a) = q * a
  BY DEF AlignUp
<1> HIDE DEF q
<1>3. q * a \in Nat /\ q * a = a * q
  BY <1>1
<1>4. x <= q * a
  BY <1>1, <1>3
<1> QED
  BY <1>1, <1>2, <1>3, <1>4, Multiple

LEMMA CallableFacts ==
  ASSUME CallablesInv
  PROVE  /\ Len(offsets_) \in Nat /\ Len(pushed) = Len(offsets_) /\ Len(destroyed) \in Nat
         /\ DOMAIN offsets_ = 1 .. Len(offsets_) /\ DOMAIN pushed = 1 .. Len(offsets_)
         /\ \A i \in 1 .. Len(offsets_) : offsets_[i] \in Nat /\ pushed[i] \in Nat
         /\ \A i \in 1 .. Len(offsets_) : headers[offsets_[i]].kind.size \in Nat /\ headers[offsets_[i]].kind.alignment \in Nat \ {0}
         /\ \A i \in 1 .. Len(offsets_) : DataOf(offsets_[i]) \in Nat /\ EndsAt(offsets_[i]) \in Nat
         /\ Ids = 1 .. Len(pushed) + Len(destroyed)
         /\ kHeaderSize \in Nat \ {0} /\ kPointerAlign \in Nat \ {0}
<1>1. /\ Len(offsets_) \in Nat /\ Len(pushed) = Len(offsets_) /\ Len(destroyed) \in Nat
      /\ DOMAIN offsets_ = 1 .. Len(offsets_) /\ DOMAIN pushed = 1 .. Len(offsets_)
  BY LenProperties DEF CallablesInv, CallablesTypeOK
<1>2. \A i \in 1 .. Len(offsets_) : offsets_[i] \in Nat /\ pushed[i] \in Nat
  BY <1>1, ElementOfSeq DEF CallablesInv, CallablesTypeOK
<1>3. \A i \in 1 .. Len(offsets_) : headers[offsets_[i]].kind.size \in Nat /\ headers[offsets_[i]].kind.alignment \in Nat \ {0}
  BY CallablesAssumption DEF CallablesInv, HeaderHolds
<1>4. \A i \in 1 .. Len(offsets_) : DataOf(offsets_[i]) \in Nat /\ EndsAt(offsets_[i]) \in Nat
  <2> SUFFICES ASSUME NEW i \in 1 .. Len(offsets_)
               PROVE  DataOf(offsets_[i]) \in Nat /\ EndsAt(offsets_[i]) \in Nat
    OBVIOUS
  <2>1. headers[offsets_[i]].data_offset \in Nat
    BY DEF CallablesInv, HeaderHolds
  <2> QED
    BY <1>2, <1>3, <2>1 DEF DataOf, EndsAt
<1>5. Ids = 1 .. Len(pushed) + Len(destroyed)
  BY DEF CallablesInv, CallablesTypeOK, Ids
<1> QED
  BY <1>1, <1>2, <1>3, <1>4, <1>5, CallablesAssumption

LEMMA CallablesHold == ASSUME CallablesInv PROVE CallablesSurvive
<1> DEFINE n == Len(offsets_)
<1>1. n \in Nat /\ DOMAIN offsets_ = 1 .. n /\ pushed \in [1 .. n -> Nat]
  BY CallableFacts, LenProperties DEF CallablesInv, CallablesTypeOK
<1>2. \A i \in 1 .. n : HeaderHolds(i)
  BY DEF CallablesInv
<1>3. [i \in DOMAIN offsets_ |-> headers[offsets_[i]].id] = pushed
  <2>1. \A i \in 1 .. n : headers[offsets_[i]].id = pushed[i]
    BY <1>2 DEF HeaderHolds
  <2>2. [i \in 1 .. n |-> headers[offsets_[i]].id] = [i \in 1 .. n |-> pushed[i]]
    BY <2>1
  <2>3. pushed = [i \in 1 .. n |-> pushed[i]]
    BY <1>1
  <2> QED
    BY <1>1, <2>2, <2>3
<1>4. ASSUME NEW i \in 1 .. n
      PROVE  /\ home[headers[offsets_[i]].id].offset = DataOf(offsets_[i])
             /\ headers[offsets_[i]].kind.trivial \/ headers[offsets_[i]].id \in torn \/ home[headers[offsets_[i]].id].block = callable_block
             /\ headers[offsets_[i]].id \notin ToSet(destroyed)
  <2>1. headers[offsets_[i]].id = Len(destroyed) + i /\ Len(destroyed) + i > Len(destroyed)
    BY <1>2, CallableFacts DEF HeaderHolds
  <2>2. headers[offsets_[i]].id \notin ToSet(destroyed)
    BY <2>1, CallableFacts DEF CallablesInv
  <2> QED
    BY <1>2, <2>2 DEF HeaderHolds
<1>5. CallablesAreIntact
  BY <1>1, <1>3, <1>4 DEF CallablesAreIntact
<1>6. ASSUME NEW i \in 1 .. n
      PROVE  LET o == offsets_[i]
             IN  /\ o % kPointerAlign = 0 /\ DataOf(o) % headers[o].kind.alignment = 0
                 /\ o + kHeaderSize <= DataOf(o)
                 /\ DataOf(o) + headers[o].kind.size <= (IF i < n THEN offsets_[i + 1] ELSE size)
                 /\ size <= capacity
  <2>1. /\ offsets_[i] % kPointerAlign = 0 /\ DataOf(offsets_[i]) % headers[offsets_[i]].kind.alignment = 0
        /\ offsets_[i] + kHeaderSize <= DataOf(offsets_[i]) /\ EndsAt(offsets_[i]) <= size
    BY <1>2 DEF HeaderHolds
  <2>2. i < n => i + 1 \in 1 .. n /\ i < i + 1
    BY <1>1
  <2>3. i < n => EndsAt(offsets_[i]) <= offsets_[i + 1]
    BY <2>2 DEF CallablesInv
  <2>4. size <= capacity
    BY DEF CallablesInv, CallablesTypeOK
  <2> QED
    BY <2>1, <2>3, <2>4 DEF EndsAt
<1>7. EntriesAreApart
  BY <1>1, <1>6 DEF EntriesAreApart
<1> QED
  BY <1>5, <1>7 DEF CallablesSurvive

\* A relocated callable stays at its offset, in the new block if it is moved there.
LEMMA RelocateFacts ==
  ASSUME CallablesInv, NEW blk \in Nat
  PROVE  /\ \A id \in Ids : Relocate(blk)[id] \in [block : Nat, offset : Nat] /\ Relocate(blk)[id].offset = home[id].offset
         /\ \A i \in 1 .. Len(offsets_) : ~headers[offsets_[i]].kind.trivial => Relocate(blk)[pushed[i]].block = blk
<1>1. ASSUME NEW id \in Ids
      PROVE  Relocate(blk)[id] \in [block : Nat, offset : Nat] /\ Relocate(blk)[id].offset = home[id].offset
  <2>1. home[id] \in [block : Nat, offset : Nat]
    BY <1>1, CallableFacts DEF CallablesInv, CallablesTypeOK
  <2>2. Relocate(blk)[id] \in {[home[id] EXCEPT !.block = blk], home[id]}
    BY <1>1 DEF Relocate
  <2> QED
    BY <2>1, <2>2
<1>2. ASSUME NEW i \in 1 .. Len(offsets_), ~headers[offsets_[i]].kind.trivial
      PROVE  Relocate(blk)[pushed[i]].block = blk
  <2>1. pushed[i] \in Ids
    BY CallableFacts DEF CallablesInv, HeaderHolds
  <2>2. home[pushed[i]] \in [block : Nat, offset : Nat]
    BY <2>1, CallableFacts DEF CallablesInv, CallablesTypeOK
  <2>3. offsets_[i] \in ToSet(offsets_) /\ headers[offsets_[i]].id = pushed[i]
    BY CallableFacts DEF ToSet, CallablesInv, HeaderHolds
  <2>4. Relocate(blk)[pushed[i]] = [home[pushed[i]] EXCEPT !.block = blk]
    BY <1>2, <2>1, <2>3 DEF Relocate
  <2> QED
    BY <2>2, <2>4
<1> QED
  BY <1>1, <1>2

LEMMA MaxOfTwo ==
  ASSUME NEW x \in Nat, NEW y \in Nat
  PROVE  Max({x, y}) \in Nat /\ Max({x, y}) >= x
<1>1. \E m \in {x, y} : \A z \in {x, y} : m >= z
  BY DEF Max
<1>2. Max({x, y}) \in {x, y} /\ \A z \in {x, y} : Max({x, y}) >= z
  BY <1>1 DEF Max
<1> QED
  BY <1>2

LEMMA PushKeeps ==
  ASSUME CallablesInv, NEW kind \in Kinds, PushCallable(kind)
  PROVE  CallablesInv'
<1> DEFINE header == HeaderOffset(size)
           data == AlignUp(header + kHeaderSize, kind.alignment)
           required == data + kind.size
           grows == required > capacity
           n == Len(offsets_)
           gone == Len(destroyed)
           id == Len(pushed) + Len(destroyed) + 1
           blk == IF grows THEN callable_block + 1 ELSE callable_block
<1>1. /\ callable_block' = blk /\ capacity' = IF grows THEN Max({required, capacity * 2}) ELSE capacity
      /\ home' = [i \in Ids \cup {id} |->
                    IF i = id THEN [block |-> blk, offset |-> data]
                    ELSE IF grows THEN Relocate(blk)[i] ELSE home[i]]
      /\ size' = required
      /\ headers' = [o \in DOMAIN headers \cup {header} |->
                       IF o = header THEN [kind |-> kind, data_offset |-> data - header, id |-> id] ELSE headers[o]]
      /\ offsets_' = Append(offsets_, header) /\ pushed' = Append(pushed, id)
      /\ destroyed' = destroyed /\ torn' = torn
  BY DEF PushCallable
<1>2. /\ n \in Nat /\ Len(pushed) = n /\ gone \in Nat /\ id = n + gone + 1 /\ Ids = 1 .. n + gone
      /\ size \in Nat /\ capacity \in Nat /\ size <= capacity /\ kind.size \in Nat /\ kind.alignment \in Nat \ {0}
      /\ kHeaderSize \in Nat \ {0} /\ kPointerAlign \in Nat \ {0} /\ blk \in Nat
  BY CallableFacts, CallablesAssumption DEF CallablesInv, CallablesTypeOK
<1>3. header \in Nat /\ size <= header /\ header % kPointerAlign = 0
  BY <1>2, AlignUpFacts DEF HeaderOffset
<1> HIDE DEF header
<1>4. data \in Nat /\ header + kHeaderSize <= data /\ data % kind.alignment = 0
  <2>1. header + kHeaderSize \in Nat
    BY <1>2, <1>3
  <2> QED
    BY <1>2, <2>1, AlignUpFacts
<1> HIDE DEF data
<1>5. required \in Nat /\ data <= required /\ required = data + kind.size /\ size < required
  BY <1>2, <1>3, <1>4
<1> HIDE DEF header, data, n, gone, id, blk, required
<1>6. capacity' \in Nat /\ size' \in Nat /\ size' <= capacity'
  <2>1. CASE grows
    <3>1. capacity * 2 \in Nat
      BY <1>2
    <3> QED
      BY <1>1, <1>5, <2>1, <3>1, MaxOfTwo
  <2>2. CASE ~grows
    BY <1>1, <1>2, <1>5, <2>2
  <2> QED
    BY <2>1, <2>2
<1>7. /\ offsets_' \in Seq(Nat) /\ Len(offsets_') = n + 1 /\ offsets_'[n + 1] = header /\ \A i \in 1 .. n : offsets_'[i] = offsets_[i]
      /\ pushed' \in Seq(Nat) /\ Len(pushed') = n + 1 /\ pushed'[n + 1] = id /\ \A i \in 1 .. n : pushed'[i] = pushed[i]
  <2>1. offsets_ \in Seq(Nat) /\ pushed \in Seq(Nat) /\ id \in Nat /\ header \in Nat
    BY <1>2, <1>3 DEF CallablesInv, CallablesTypeOK
  <2> QED
    BY <1>1, <1>2, <2>1, AppendProperties DEF n
<1>8. /\ \A i \in Ids : home'[i] = IF grows THEN Relocate(blk)[i] ELSE home[i]
      /\ home'[id] = [block |-> blk, offset |-> data]
  <2>1. id \notin Ids
    BY <1>2
  <2> QED
    BY <1>1, <2>1
<1>9. /\ \A i \in Ids : home'[i] \in [block : Nat, offset : Nat] /\ home'[i].offset = home[i].offset
      /\ \A i \in 1 .. n : headers[offsets_[i]].kind.trivial \/ pushed[i] \in torn \/ home'[pushed[i]].block = blk
  <2>1. \A i \in Ids : home[i] \in [block : Nat, offset : Nat]
    BY CallableFacts DEF CallablesInv, CallablesTypeOK
  <2>2. \A i \in 1 .. n : pushed[i] \in Ids /\ (headers[offsets_[i]].kind.trivial \/ pushed[i] \in torn \/ home[pushed[i]].block = callable_block)
    <3> SUFFICES ASSUME NEW i \in 1 .. n
                 PROVE  pushed[i] \in Ids /\ (headers[offsets_[i]].kind.trivial \/ pushed[i] \in torn \/ home[pushed[i]].block = callable_block)
      OBVIOUS
    <3>1. HeaderHolds(i)
      BY DEF CallablesInv, n
    <3>2. pushed[i] = gone + i /\ (headers[offsets_[i]].kind.trivial \/ pushed[i] \in torn \/ home[pushed[i]].block = callable_block)
      BY <3>1 DEF HeaderHolds, gone
    <3> QED
      BY <1>2, <3>2
  <2>3. CASE grows
    <3>1. \A i \in Ids : home'[i] = Relocate(blk)[i]
      BY <1>8, <2>3
    <3>2. /\ \A i \in Ids : Relocate(blk)[i] \in [block : Nat, offset : Nat] /\ Relocate(blk)[i].offset = home[i].offset
          /\ \A i \in 1 .. n : ~headers[offsets_[i]].kind.trivial => Relocate(blk)[pushed[i]].block = blk
      BY <1>2, RelocateFacts DEF n
    <3> QED
      BY <2>2, <3>1, <3>2
  <2>4. CASE ~grows
    BY <1>8, <2>1, <2>2, <2>4 DEF blk
  <2> QED
    BY <2>3, <2>4
<1>10. home' \in [1 .. (n + 1) + gone -> [block : Nat, offset : Nat]]
  <2>1. DOMAIN home' = 1 .. (n + 1) + gone
    <3>1. Ids \cup {id} = 1 .. (n + 1) + gone
      BY <1>2
    <3> QED
      BY <1>1, <3>1
  <2>2. \A i \in 1 .. (n + 1) + gone : home'[i] \in [block : Nat, offset : Nat]
    <3> SUFFICES ASSUME NEW i \in 1 .. (n + 1) + gone PROVE home'[i] \in [block : Nat, offset : Nat]
      OBVIOUS
    <3>1. i \in Ids \/ i = id
      BY <1>2
    <3>2. [block |-> blk, offset |-> data] \in [block : Nat, offset : Nat]
      BY <1>2, <1>4
    <3> QED
      BY <1>8, <1>9, <3>1, <3>2
  <2>3. home' = [i \in 1 .. (n + 1) + gone |-> home'[i]]
    BY <1>1, <2>1
  <2> QED
    BY <2>2, <2>3
<1>11. CallablesTypeOK'
  BY <1>1, <1>2, <1>6, <1>7, <1>10 DEF CallablesInv, CallablesTypeOK, gone
<1>12. \A i \in 1 .. n : /\ offsets_[i] \in Nat /\ offsets_[i] # header /\ offsets_[i] \in DOMAIN headers
                         /\ EndsAt(offsets_[i]) <= size /\ EndsAt(offsets_[i]) \in Nat /\ pushed[i] \in Ids
  <2> SUFFICES ASSUME NEW i \in 1 .. n
               PROVE  /\ offsets_[i] \in Nat /\ offsets_[i] # header /\ offsets_[i] \in DOMAIN headers
                      /\ EndsAt(offsets_[i]) <= size /\ EndsAt(offsets_[i]) \in Nat /\ pushed[i] \in Ids
    OBVIOUS
  <2>1. /\ offsets_[i] \in DOMAIN headers /\ offsets_[i] + kHeaderSize <= DataOf(offsets_[i]) /\ EndsAt(offsets_[i]) <= size
        /\ pushed[i] = gone + i
    BY DEF CallablesInv, HeaderHolds, n, gone
  <2>2. /\ offsets_[i] \in Nat /\ DataOf(offsets_[i]) \in Nat /\ headers[offsets_[i]].kind.size \in Nat
        /\ EndsAt(offsets_[i]) = DataOf(offsets_[i]) + headers[offsets_[i]].kind.size /\ EndsAt(offsets_[i]) \in Nat
    BY CallableFacts DEF EndsAt, n
  <2>3. offsets_[i] < header
    <3>1. offsets_[i] < DataOf(offsets_[i])
      BY <1>2, <2>1, <2>2
    <3>2. DataOf(offsets_[i]) <= EndsAt(offsets_[i])
      BY <2>2
    <3> QED
      BY <1>2, <1>3, <2>1, <2>2, <3>1, <3>2
  <2>4. pushed[i] \in Ids
    BY <1>2, <2>1
  <2>5. offsets_[i] # header
    BY <1>3, <2>2, <2>3
  <2> QED
    BY <2>1, <2>2, <2>4, <2>5
<1>13. /\ header \in DOMAIN headers' /\ headers'[header] = [kind |-> kind, data_offset |-> data - header, id |-> id]
       /\ \A i \in 1 .. n : offsets_[i] \in DOMAIN headers' /\ headers'[offsets_[i]] = headers[offsets_[i]]
  BY <1>1, <1>12
<1>14. \A i \in 1 .. n : HeaderHolds(i)'
  <2> SUFFICES ASSUME NEW i \in 1 .. n PROVE HeaderHolds(i)'
    OBVIOUS
  <2> DEFINE o == offsets_[i]
  <2>1. /\ o \in DOMAIN headers /\ headers[o].kind \in Kinds /\ headers[o].data_offset \in Nat
        /\ headers[o].id = pushed[i] /\ pushed[i] = gone + i /\ home[pushed[i]].offset = DataOf(o)
        /\ o % kPointerAlign = 0 /\ DataOf(o) % headers[o].kind.alignment = 0
        /\ o + kHeaderSize <= DataOf(o)
    BY DEF CallablesInv, HeaderHolds, n, gone
  <2>2. offsets_'[i] = o /\ pushed'[i] = pushed[i] /\ headers'[o] = headers[o] /\ o \in DOMAIN headers'
    BY <1>7, <1>13
  <2>3. /\ DataOf(o) = o + headers[o].data_offset /\ EndsAt(o) = DataOf(o) + headers[o].kind.size
        /\ EndsAt(o) <= size /\ EndsAt(o) \in Nat
    BY <1>12 DEF DataOf, EndsAt
  <2>4. /\ home'[pushed[i]].offset = home[pushed[i]].offset
        /\ headers[o].kind.trivial \/ pushed[i] \in torn' \/ home'[pushed[i]].block = callable_block'
    BY <1>1, <1>9, <1>12
  <2>5. EndsAt(o) <= size'
    BY <1>1, <1>2, <1>5, <2>3
  <2> HIDE DEF o
  <2> QED
    BY <1>1, <2>1, <2>2, <2>3, <2>4, <2>5 DEF HeaderHolds, DataOf, EndsAt, gone
<1>15. ASSUME NEW i, i = n + 1 PROVE HeaderHolds(i)'
  <2>1. header + (data - header) = data /\ data - header \in Nat
    BY <1>2, <1>3, <1>4
  <2> DEFINE h == headers'[header]
  <2>2. h.kind = kind /\ h.data_offset = data - header /\ h.id = id
    BY <1>13
  <2>3. offsets_'[i] = header /\ pushed'[i] = id /\ id = Len(destroyed') + i
    BY <1>1, <1>2, <1>7, <1>15 DEF gone
  <2>4. home'[id].offset = data /\ home'[id].block = callable_block'
    BY <1>1, <1>8
  <2> HIDE DEF h
  <2>5. header + h.data_offset = data /\ data + h.kind.size = required
    BY <1>5, <2>1, <2>2
  <2>6. header \in DOMAIN headers' /\ required <= size'
    BY <1>1, <1>5, <1>13
  <2> QED
    BY <1>3, <1>4, <2>1, <2>2, <2>3, <2>4, <2>5, <2>6 DEF HeaderHolds, DataOf, EndsAt, h
<1>16. \A i \in 1 .. Len(offsets_') : HeaderHolds(i)'
  <2> SUFFICES ASSUME NEW i \in 1 .. Len(offsets_') PROVE HeaderHolds(i)'
    OBVIOUS
  <2>1. i \in 1 .. n \/ i = n + 1
    BY <1>2, <1>7
  <2> QED
    BY <1>14, <1>15, <2>1
<1>17. \A i, j \in 1 .. Len(offsets_') : i < j => EndsAt(offsets_[i])' <= offsets_'[j]
  <2> SUFFICES ASSUME NEW i \in 1 .. n + 1, NEW j \in 1 .. n + 1, i < j
               PROVE  EndsAt(offsets_[i])' <= offsets_'[j]
    BY <1>7
  <2>1. i \in 1 .. n /\ (j \in 1 .. n \/ j = n + 1)
    BY <1>2
  <2>2. EndsAt(offsets_[i])' = EndsAt(offsets_[i])
    BY <1>7, <1>13, <2>1 DEF EndsAt, DataOf
  <2>3. CASE j \in 1 .. n
    BY <1>7, <2>1, <2>2, <2>3 DEF CallablesInv, n
  <2>4. CASE j = n + 1
    BY <1>2, <1>3, <1>7, <1>12, <2>1, <2>2, <2>4
  <2> QED
    BY <2>1, <2>3, <2>4
<1>18. \A x \in ToSet(destroyed') : x <= Len(destroyed')
  BY <1>1 DEF CallablesInv
<1> QED
  BY <1>11, <1>16, <1>17, <1>18 DEF CallablesInv

LEMMA ClearKeeps ==
  ASSUME CallablesInv, ClearCallables
  PROVE  CallablesInv'
<1> DEFINE n == Len(offsets_)
           gone == Len(destroyed)
           ids == [i \in DOMAIN offsets_ |-> headers[offsets_[i]].id]
           back == Reverse(ids)
<1>1. /\ destroyed' = destroyed \o back /\ size' = 0 /\ offsets_' = <<>> /\ pushed' = <<>>
      /\ callable_block' = callable_block /\ capacity' = capacity /\ headers' = headers /\ home' = home
  BY DEF ClearCallables
<1>2. n \in Nat /\ gone \in Nat /\ Len(pushed) = n /\ DOMAIN offsets_ = 1 .. n
  BY CallableFacts
<1>3. \A i \in 1 .. n : headers[offsets_[i]].id = gone + i
  BY DEF CallablesInv, HeaderHolds
<1> HIDE DEF n, gone
<1>4. ids = [i \in 1 .. n |-> gone + i]
  BY <1>2, <1>3
<1>5. ids \in Seq(Nat) /\ Len(ids) = n
  <2>1. \A i \in 1 .. n : gone + i \in Nat
    BY <1>2
  <2> QED
    BY <1>2, <1>4, <2>1, IsASeq
<1> HIDE DEF ids
<1>6. back = [i \in 1 .. n |-> ids[(n - i) + 1]]
  BY <1>5 DEF Reverse
<1>7. \A i \in 1 .. n : back[i] = gone + ((n - i) + 1) /\ back[i] \in Nat /\ back[i] <= gone + n
  <2> SUFFICES ASSUME NEW i \in 1 .. n PROVE back[i] = gone + ((n - i) + 1) /\ back[i] \in Nat /\ back[i] <= gone + n
    OBVIOUS
  <2>1. (n - i) + 1 \in 1 .. n
    BY <1>2
  <2>2. back[i] = ids[(n - i) + 1] /\ ids[(n - i) + 1] = gone + ((n - i) + 1)
    BY <1>4, <1>6, <2>1
  <2> QED
    BY <1>2, <2>1, <2>2
<1>8. back \in Seq(Nat) /\ Len(back) = n
  <2>1. back = [i \in 1 .. n |-> back[i]] /\ back \in [1 .. n -> Nat]
    BY <1>6, <1>7
  <2> QED
    BY <1>2, <1>6, <2>1, LenProperties
<1> HIDE DEF back
<1>9. /\ destroyed' \in Seq(Nat) /\ Len(destroyed') = gone + n
      /\ \A i \in 1 .. gone + n : destroyed'[i] = IF i <= gone THEN destroyed[i] ELSE back[i - gone]
  BY <1>1, <1>8, ConcatProperties DEF CallablesInv, CallablesTypeOK, gone
<1>10. \A x \in ToSet(destroyed') : x <= Len(destroyed')
  <2>1. DOMAIN destroyed' = 1 .. gone + n
    BY <1>9, LenProperties
  <2> SUFFICES ASSUME NEW i \in 1 .. gone + n PROVE destroyed'[i] <= gone + n
    BY <1>9, <2>1 DEF ToSet
  <2>2. CASE i <= gone
    <3>1. i \in DOMAIN destroyed /\ i \in 1 .. gone
      BY <1>2, <2>2, LenProperties DEF CallablesInv, CallablesTypeOK, gone
    <3>2. destroyed[i] \in ToSet(destroyed) /\ destroyed[i] \in Nat
      BY <3>1, ElementOfSeq DEF ToSet, CallablesInv, CallablesTypeOK, gone
    <3>3. destroyed[i] <= gone
      BY <3>2 DEF CallablesInv, gone
    <3> QED
      BY <1>2, <1>9, <2>2, <3>2, <3>3
  <2>3. CASE ~(i <= gone)
    <3>1. i - gone \in 1 .. n
      BY <1>2, <2>3
    <3> QED
      BY <1>7, <1>9, <2>3, <3>1
  <2> QED
    BY <2>2, <2>3
<1>11. Len(offsets_') = 0 /\ Len(pushed') = 0 /\ offsets_' \in Seq(Nat) /\ pushed' \in Seq(Nat)
  BY <1>1, EmptySeq
<1>12. home' \in [1 .. Len(pushed') + Len(destroyed') -> [block : Nat, offset : Nat]]
  <2>1. Len(pushed') + Len(destroyed') = Len(pushed) + Len(destroyed)
    BY <1>2, <1>9, <1>11 DEF gone
  <2> QED
    BY <1>1, <2>1 DEF CallablesInv, CallablesTypeOK
<1>13. CallablesTypeOK'
  BY <1>1, <1>9, <1>11, <1>12 DEF CallablesInv, CallablesTypeOK
<1> QED
  BY <1>10, <1>11, <1>13 DEF CallablesInv

\* The callables that are in a buffer that is moved as it is are torn from then on.
LEMMA ReserveBytesKeeps ==
  ASSUME CallablesInv, NEW bytes \in Reserves, ReserveBytes(bytes)
  PROVE  CallablesInv'
<1>1. /\ bytes > capacity /\ callable_block' = callable_block + 1 /\ capacity' = bytes
      /\ torn' = torn \cup {headers[o].id : o \in {r \in ToSet(offsets_) : ~headers[r].kind.trivial}}
      /\ size' = size /\ offsets_' = offsets_ /\ headers' = headers /\ home' = home
      /\ destroyed' = destroyed /\ pushed' = pushed
  BY DEF ReserveBytes
<1>2. bytes \in Nat
  BY CallablesAssumption
<1>3. CallablesTypeOK'
  <2>1. CallablesTypeOK
    BY DEF CallablesInv
  <2>2. callable_block' \in Nat /\ capacity' \in Nat /\ size <= capacity'
    BY <1>1, <1>2, <2>1 DEF CallablesTypeOK
  <2> QED
    BY <1>1, <2>1, <2>2 DEF CallablesTypeOK
<1>4. ASSUME NEW i \in 1 .. Len(offsets_) PROVE HeaderHolds(i)'
  <2>1. HeaderHolds(i)
    BY DEF CallablesInv
  <2>2. offsets_[i] \in ToSet(offsets_) /\ headers[offsets_[i]].id = pushed[i]
    BY <2>1, CallableFacts DEF ToSet, HeaderHolds
  <2>3. headers[offsets_[i]].kind.trivial \/ pushed[i] \in torn'
    BY <1>1, <2>2
  <2> QED
    BY <1>1, <2>1, <2>3 DEF HeaderHolds, EndsAt, DataOf
<1>5. \A i, j \in 1 .. Len(offsets_) : i < j => EndsAt(offsets_[i])' <= offsets_'[j]
  BY <1>1 DEF CallablesInv, EndsAt, DataOf
<1> QED
  BY <1>1, <1>3, <1>4, <1>5 DEF CallablesInv

LEMMA CallablesInitInv == CallablesInit => CallablesInv
<1> SUFFICES ASSUME CallablesInit PROVE CallablesInv
  OBVIOUS
<1>1. /\ callable_block = 0 /\ size = 0 /\ capacity = 0 /\ offsets_ = <<>> /\ home = Blank /\ destroyed = <<>> /\ pushed = <<>>
  BY DEF CallablesInit
<1>2. /\ <<>> \in Seq(Nat) /\ Len(<<>>) = 0
  BY EmptySeq
<1>3. home \in [1 .. 0 -> [block : Nat, offset : Nat]]
  BY <1>1 DEF Blank
<1>4. ToSet(destroyed) = {}
  BY <1>1 DEF ToSet
<1> QED
  BY <1>1, <1>2, <1>3, <1>4 DEF CallablesInv, CallablesTypeOK

LEMMA CallablesNextInv == CallablesInv /\ [CallablesNext]_callable_vars => CallablesInv'
<1> SUFFICES ASSUME CallablesInv, [CallablesNext]_callable_vars PROVE CallablesInv'
  OBVIOUS
<1>1. CASE \E kind \in Kinds : PushCallable(kind)
  BY <1>1, PushKeeps
<1>2. CASE ClearCallables
  BY <1>2, ClearKeeps
<1>3. CASE \E bytes \in Reserves : ReserveBytes(bytes)
  BY <1>3, ReserveBytesKeeps
<1>4. CASE UNCHANGED callable_vars
  BY <1>4 DEF callable_vars, CallablesInv, CallablesTypeOK, HeaderHolds, EndsAt, DataOf
<1> QED
  BY <1>1, <1>2, <1>3, <1>4 DEF CallablesNext

\* InlineCallableBuffer: callables of any size and alignment are invoked in the
\* order of their Push, lie apart, are destroyed once and survive every move of
\* the buffer, in any order of Push, Clear and Reserve, but for the callables
\* that were in a buffer when Reserve or ReserveBytes moved it.
THEOREM CallablesSafety == CallablesSpec => []CallablesSurvive
<1>1. CallablesInv => CallablesSurvive
  BY CallablesHold
<1>2. CallablesInv /\ [CallablesNext]_callable_vars => CallablesInv'
  BY CallablesNextInv
<1> QED
  BY <1>1, <1>2, CallablesInitInv, PTL DEF CallablesSpec
===============================================================================
