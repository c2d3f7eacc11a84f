----------------------------------- MODULE Text --------------------------------
(***************************************************************************)
(* Strings and random numbers of a generated program.  A string is a       *)
(* sequence of characters, none of them NUL, and never changes: a call     *)
(* makes a new one.  Here one string variable, text, takes the result of   *)
(* every call.  Positions, lengths and numbers are C longs, of which the   *)
(* largest is MaxLong: a sum beyond it has no meaning in C.  What substring *)
(* copies then is memory that is not the string's, and random_int divides  *)
(* by any number, 0 among them.                                            *)
(***************************************************************************)
EXTENDS Integers, SequencesExt

CONSTANTS
  Literals,    \* the string literals of the program
  Space,       \* the characters isspace() knows
  MaxText,     \* bound on the length of the program's strings
  MaxLong,     \* LONG_MAX
  RandMax,     \* RAND_MAX
  Rules        \* what the program and its surroundings keep to: "sums fit",
               \* "ranges fit", "disk has room", "only files"

VARIABLES
  text,        \* the program's string
  status       \* "running", "exited" with an error message, or "undefined"

ASSUME TextAssumption ==
  /\ \A s \in Literals : Len(s) <= MaxText
  /\ MaxText \in Nat /\ MaxLong \in Nat /\ MaxText < MaxLong /\ RandMax \in Nat
  /\ Rules \subseteq {"sums fit", "ranges fit", "disk has room", "only files"}

Long == -MaxLong - 1 .. MaxLong

Running == status = "running"

(* What a rule asks, when it is one of those kept to.                      *)
Keeps(rule, asked) == rule \in Rules => asked

-------------------------------------------------------------------------------
(* The functions *)

(* Mutant: start + length is compared before start is clamped. *)
SubstringPartEarly(n, start, length) ==
  [from  |-> IF start < 0 THEN 0 ELSE IF start > n THEN n ELSE start,
   count |-> IF length < 0 THEN 0 ELSE IF start + length > n THEN n - start ELSE length]

(* fy_substring: what it copies of a string of n characters. *)
SubstringPart(n, start, length) ==
  LET from  == IF start < 0 THEN 0 ELSE IF start > n THEN n ELSE start
      count == IF length < 0 THEN 0 ELSE length
  IN  [from |-> from, count |-> IF from + count > n THEN n - from ELSE count]

(* The sum it computes is a long. *)
SumFits(n, start, length) == Min({Max({start, 0}), n}) + Max({length, 0}) <= MaxLong

(* fy_trim: start runs up to a character that is no space, and end down.    *)
Trim(s) ==
  LET start == CHOOSE i \in 0 .. Len(s) :
                 /\ i = Len(s) \/ s[i + 1] \notin Space
                 /\ \A j \in 1 .. i : s[j] \in Space
      end   == CHOOSE i \in start .. Len(s) :
                 /\ i = start \/ s[i] \notin Space
                 /\ \A j \in i + 1 .. Len(s) : s[j] \in Space
  IN  SubSeq(s, start + 1, end)

(* hi - lo + 1 is a long. *)
RangeFits(lo, hi) == hi - lo + 1 <= MaxLong

(* What fy_random_int can give: no number that C defines when the one it    *)
(* divides by does not fit.                                                *)
RandomInts(lo, hi) ==
  IF hi <= lo THEN {lo}
  ELSE IF RangeFits(lo, hi) THEN {lo + (r % (hi - lo + 1)) : r \in 0 .. RandMax} ELSE {}

-------------------------------------------------------------------------------
(* The calls *)

Undefined == status' = "undefined" /\ UNCHANGED text

TextInit == text = <<>> /\ status = "running"

Assign(s) == text' = s /\ UNCHANGED status

(* text + s *)
Concat(s) ==
  /\ Len(text) + Len(s) <= MaxText
  /\ text' = text \o s /\ UNCHANGED status

SubstringCall(start, length) ==
  LET part == SubstringPart(Len(text), start, length) IN
  /\ Keeps("sums fit", SumFits(Len(text), start, length))
  /\ IF SumFits(Len(text), start, length) /\ part.from + part.count <= Len(text)
     THEN text' = SubSeq(text, part.from + 1, part.from + part.count) /\ UNCHANGED status
     ELSE Undefined

TrimCall == text' = Trim(text) /\ UNCHANGED status

(* text[i], which ends the program when i is no position. *)
CharAt(i) ==
  IF i < 0 \/ i >= Len(text)
  THEN status' = "exited" /\ UNCHANGED text
  ELSE text' = <<text[i + 1]>> /\ UNCHANGED status

(* text[random_int(lo, hi)] *)
RandomChar(lo, hi) ==
  /\ Keeps("ranges fit", RangeFits(lo, hi))
  /\ IF RandomInts(lo, hi) = {} THEN Undefined ELSE \E i \in RandomInts(lo, hi) : CharAt(i)

TextNext ==
  /\ Running
  /\ \/ \E s \in Literals : Assign(s) \/ Concat(s)
     \/ \E start, length \in Long : SubstringCall(start, length)
     \/ TrimCall
     \/ \E i \in Long : CharAt(i)
     \/ \E lo, hi \in Long : RandomChar(lo, hi)

-------------------------------------------------------------------------------
(* Properties *)

(* Every call has a result: README.md says what substring clamps a start    *)
(* and a length to, that random_int gives a number for any two, and that    *)
(* read_file gives "" rather than crash when a file cannot be read.         *)
CallsReturn == status # "undefined"

(* substring gives the characters at the positions start, start + 1, ...,   *)
(* length of them, as far as there are such positions, and a start below 0  *)
(* is 0: what README.md calls to clamp them.  Under "sums fit" this is said  *)
(* of those that the program may ask for, without that rule of all of them. *)
SubstringClamps ==
  \A start, length \in Long : Keeps("sums fit", SumFits(Len(text), start, length)) =>
    /\ SumFits(Len(text), start, length)
    /\ LET part == SubstringPart(Len(text), start, length)
           first == Max({start, 0})
           there == {p \in 0 .. Len(text) - 1 : first <= p /\ p - first < length}
       IN  {part.from + i : i \in 0 .. part.count - 1} = there

(* trim cuts spaces and nothing else, and all of them at both ends.         *)
TrimCutsSpaces ==
  LET r == Trim(text) IN
  /\ r # <<>> => r[1] \notin Space /\ Last(r) \notin Space
  /\ \E i, j \in 0 .. Len(text) :
       /\ i <= j /\ r = SubSeq(text, i + 1, j)
       /\ \A k \in 1 .. Len(text) : k \notin i + 1 .. j => text[k] \in Space

(* random_int(lo, hi) gives a number of lo .. hi, both ends included, and   *)
(* any of them while rand() has as many values.  Under "ranges fit" this is *)
(* said of ranges that have no more numbers than a long can count, without  *)
(* that rule of all.                                                       *)
RandomInRange ==
  \A lo, hi \in Long : lo <= hi /\ Keeps("ranges fit", RangeFits(lo, hi)) =>
    /\ RandomInts(lo, hi) # {} /\ RandomInts(lo, hi) \subseteq lo .. hi
    /\ hi - lo <= RandMax => RandomInts(lo, hi) = lo .. hi

(* What README.md says of the calls on strings and numbers, and that none   *)
(* of them, nor any other call, does what C does not define.               *)
TextAsDocumented == CallsReturn /\ SubstringClamps /\ TrimCutsSpaces /\ RandomInRange
================================================================================
