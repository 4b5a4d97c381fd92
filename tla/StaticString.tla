------------------------------ MODULE StaticString ------------------------------
(***************************************************************************)
(* container::StaticString (container/static_string.hpp), memory move by   *)
(* memory move: what the address of a network client is kept in.  The      *)
(* asserted preconditions are guards.                                      *)
(***************************************************************************)
EXTENDS Integers, Sequences, SequencesExt, FiniteSetsExt

CONSTANTS
  StrCapacity,
  Chars,
  CharT,         \* the null character
  Texts,         \* the strings given to operations
  OwnViews       \* the operations that are given views of the string itself, too

VARIABLES
  data_,         \* 0 .. StrCapacity -> characters
  size_,
  string         \* history: what a std::string would hold

string_vars == <<data_, size_, string>>

\* What an operation may be given: characters elsewhere, or part of the string.
Given(op) ==
  {[own |-> FALSE, chars |-> t] : t \in Texts}
  \cup IF op \in OwnViews THEN {[own |-> TRUE, at |-> a, length |-> n] : a \in 0 .. size_, n \in 0 .. size_} ELSE {}
InBounds(sv) == sv.own => sv.at + sv.length <= size_
SizeOf(sv) == IF sv.own THEN sv.length ELSE Len(sv.chars)

\* What a view shows in some memory.
Seen(sv, memory) == IF sv.own THEN [i \in 1 .. sv.length |-> memory[sv.at + i - 1]] ELSE sv.chars

\* Traits::move and Traits::copy.
Move(memory, to, from, n) == [i \in DOMAIN memory |-> IF i \in to .. to + n - 1 THEN memory[i - to + from] ELSE memory[i]]
Copy(memory, to, chars) ==
  [i \in DOMAIN memory |-> IF i \in to .. to + Len(chars) - 1 THEN chars[i - to + 1] ELSE memory[i]]

Terminated(memory, size) == [memory EXCEPT ![size] = CharT]

SetTo(memory, size) == data_' = Terminated(memory, size) /\ size_' = size

StringInit ==
  /\ \E t \in Texts :
       /\ Len(t) <= StrCapacity
       /\ data_ = Terminated(Copy([i \in 0 .. StrCapacity |-> CharT], 0, t), Len(t))
       /\ size_ = Len(t)
       /\ string = t

Assign ==
  \E sv \in Given("assign") :
    /\ InBounds(sv) /\ SizeOf(sv) <= StrCapacity
    /\ SetTo(Copy(data_, 0, Seen(sv, data_)), SizeOf(sv))
    /\ string' = Seen(sv, data_)

\* The rest of the string makes room, then the view is copied.
Insert ==
  \E pos \in 0 .. size_, sv \in Given("insert") :
    /\ InBounds(sv) /\ size_ + SizeOf(sv) <= StrCapacity
    /\ LET moved == Move(data_, pos + SizeOf(sv), pos, size_ - pos)
       IN SetTo(Copy(moved, pos, Seen(sv, moved)), size_ + SizeOf(sv))
    /\ string' = SubSeq(string, 1, pos) \o Seen(sv, data_) \o SubSeq(string, pos + 1, Len(string))

\* A range whose size is not known moves the rest for each character.
InsertRange ==
  \E pos \in 0 .. size_, t \in Texts :
    /\ size_ + Len(t) <= StrCapacity
    /\ LET One(memory, k) == [Move(memory, pos + k, pos + k - 1, size_ - pos) EXCEPT ![pos + k - 1] = t[k]]
       IN SetTo(FoldLeftDomain(LAMBDA memory, k : One(memory, k), data_, t), size_ + Len(t))
    /\ string' = SubSeq(string, 1, pos) \o t \o SubSeq(string, pos + 1, Len(string))

Erase ==
  \E pos \in 0 .. size_, count \in 0 .. StrCapacity + 1 :
    LET erased == Min({count, size_ - pos})
    IN /\ SetTo(Move(data_, pos, pos + erased, size_ - pos - erased), size_ - erased)
       /\ string' = SubSeq(string, 1, pos) \o SubSeq(string, pos + erased + 1, Len(string))

PushBack ==
  \E ch \in Chars :
    /\ size_ < StrCapacity
    /\ SetTo([data_ EXCEPT ![size_] = ch], size_ + 1)
    /\ string' = Append(string, ch)

PopBack ==
  /\ size_ > 0
  /\ SetTo(data_, size_ - 1)
  /\ string' = Front(string)

AppendView ==
  \E sv \in Given("append") :
    /\ InBounds(sv) /\ size_ + SizeOf(sv) <= StrCapacity
    /\ SetTo(Copy(data_, size_, Seen(sv, data_)), size_ + SizeOf(sv))
    /\ string' = string \o Seen(sv, data_)

\* The tail of the string moves if it has to.
TailMoved(pos, replaced, size) ==
  IF size # replaced THEN Move(data_, pos + size, pos + replaced, size_ - pos - replaced) ELSE data_

Replace ==
  \E pos \in 0 .. size_, count \in 0 .. StrCapacity + 1, sv \in Given("replace") :
    LET replaced == Min({count, size_ - pos})
        size == size_ - replaced + SizeOf(sv)
        moved == TailMoved(pos, replaced, SizeOf(sv))
    IN /\ InBounds(sv) /\ size <= StrCapacity
       /\ SetTo(Copy(moved, pos, Seen(sv, moved)), size)
       /\ string' = SubSeq(string, 1, pos) \o Seen(sv, data_) \o SubSeq(string, pos + replaced + 1, Len(string))

Resize ==
  \E count \in 0 .. StrCapacity, ch \in Chars :
    /\ SetTo(Copy(data_, size_, [i \in 1 .. count - size_ |-> ch]), count)
    /\ string' = [i \in 1 .. count |-> IF i <= Len(string) THEN string[i] ELSE ch]

StringNext ==
  Assign \/ Insert \/ InsertRange \/ Erase \/ PushBack \/ PopBack \/ AppendView \/ Replace \/ Resize

StringSpec == StringInit /\ [][StringNext]_string_vars

-----------------------------------------------------------------------------
\* Whatever edits are made, the string is the one a std::string would hold, and
\* CStr() ends where View() ends: no operation leaves a character of an earlier,
\* longer text between the size and the null character.
TextIsString ==
  /\ size_ = Len(string)
  /\ \A i \in 1 .. size_ : data_[i - 1] = string[i]
  /\ data_[size_] = CharT

===============================================================================
