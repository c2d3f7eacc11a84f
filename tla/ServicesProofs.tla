---------------------------- MODULE ServicesProofs -----------------------------
(***************************************************************************)
(* Proofs about Services, for any literals, paths, contents and windows    *)
(* and for longs of any width: under the rules that each theorem names,    *)
(* the calls on strings and numbers are as documented and do nothing that  *)
(* C does not define, a true result of a write can be believed, and the    *)
(* pointers to the window are good.                                        *)
(***************************************************************************)
EXTENDS Services, SequenceTheorems, WellFoundedInduction, TLAPS

-------------------------------------------------------------------------------
(* The window *)

WindowInv ==
  /\ WindowSound
  /\ window \in Windows \cup {None} /\ onScreen \subseteq Windows

LEMMA WindowInvInit == Init => WindowInv
BY DEF Init, WindowInit, WindowInv, WindowSound

LEMMA WindowInvNext ==
  ASSUME OneWindow = TRUE, WindowInv, [Next]_vars
  PROVE  WindowInv'
<1>1. ASSUME UNCHANGED <<window, renderer, onScreen, drawable>> PROVE WindowInv'
  BY <1>1 DEF WindowInv, WindowSound
<1>2. ASSUME WindowOpen PROVE WindowInv'
  <2>1. window = None /\ onScreen = {} /\ drawable = {}
    BY <1>2, WindowAssumption DEF WindowOpen, WindowInv, WindowSound
  <2>2. renderer = None
    BY <2>1 DEF WindowInv, WindowSound
  <2>3. CASE OpenNoWindow
    BY <2>1, <2>2, <2>3 DEF OpenNoWindow, WindowInv, WindowSound
  <2>4. CASE OpenNoRenderer
    BY <2>1, <2>2, <2>4 DEF OpenNoRenderer, WindowInv, WindowSound
  <2>5. CASE OpenBoth
    BY <2>1, <2>2, <2>5 DEF OpenBoth, WindowInv, WindowSound
  <2>6. QED
    BY <1>2, <2>3, <2>4, <2>5 DEF WindowOpen
<1>3. ASSUME WindowClose PROVE WindowInv'
  BY <1>3 DEF WindowClose, WindowInv, WindowSound
<1>4. ASSUME PollEvents PROVE WindowInv'
  BY <1>1, <1>4 DEF PollEvents
<1>5. ASSUME User PROVE WindowInv'
  BY <1>1, <1>5 DEF User, ClickClose, OtherEvent
<1>6. ASSUME UNCHANGED windowVars PROVE WindowInv'
  BY <1>1, <1>6 DEF windowVars
<1>7. QED
  BY <1>2, <1>3, <1>4, <1>5, <1>6 DEF Next, WindowNext, vars

(* Whichever call of window_open fails, and in whatever order a program    *)
(* opens, polls and closes while the user acts, the globals are NULL or    *)
(* name what SDL has and no window stays behind.                           *)
THEOREM WindowIsSound ==
  ASSUME OneWindow = TRUE
  PROVE  Spec => []WindowSound
<1>1. WindowInv /\ [Next]_vars => WindowInv'
  BY WindowInvNext
<1>2. WindowInv => WindowSound
  BY DEF WindowInv
<1>3. QED
  BY <1>1, <1>2, WindowInvInit, PTL DEF Spec

-------------------------------------------------------------------------------
(* Least and greatest *)

LEMMA LeastIn ==
  ASSUME NEW T \in SUBSET Nat, T # {}
  PROVE  \E n \in T : \A m \in T : n <= m
<1>1. IsWellFoundedOn(OpToRel(<, Nat), Nat)
  BY NatLessThanWellFounded
<1>2. PICK n \in T : \A m \in T : ~(<<m, n>> \in OpToRel(<, Nat))
  BY <1>1, WFMin
<1>3. \A m \in T : ~(m < n)
  BY <1>2 DEF OpToRel
<1>4. QED
  BY <1>3

(* A set of numbers up to a bound has a greatest one.                      *)
LEMMA GreatestIn ==
  ASSUME NEW b \in Nat, NEW T \in SUBSET (0 .. b), T # {}
  PROVE  \E n \in T : \A m \in T : m <= n
<1> DEFINE Rest == {b - n : n \in T}
<1>1. Rest \in SUBSET Nat /\ Rest # {}
  <2>1. ASSUME NEW r \in Rest PROVE r \in Nat
    <3>1. PICK n \in T : r = b - n
      OBVIOUS
    <3>2. n \in 0 .. b
      OBVIOUS
    <3>3. QED
      BY <3>1, <3>2
  <2>2. PICK n : n \in T
    OBVIOUS
  <2>3. b - n \in Rest
    BY <2>2
  <2>4. QED
    BY <2>1, <2>3
<1>2. PICK r \in Rest : \A q \in Rest : r <= q
  BY <1>1, LeastIn
<1>3. PICK n \in T : r = b - n
  BY <1>2
<1>4. ASSUME NEW m \in T PROVE m <= n
  <2>1. b - m \in Rest
    OBVIOUS
  <2>2. r <= b - m
    BY <1>2, <2>1
  <2>3. QED
    BY <1>3, <2>2
<1>5. QED
  BY <1>4

(* A set that has 0, and with every number below a bound the next one, has *)
(* all numbers up to the bound.                                            *)
LEMMA UpTo ==
  ASSUME NEW b \in Nat, NEW T, 0 \in T, \A n \in 0 .. b - 1 : n \in T => n + 1 \in T
  PROVE  0 .. b \subseteq T
<1> DEFINE Missed == {n \in 0 .. b : n \notin T}
<1>1. SUFFICES ASSUME Missed # {} PROVE FALSE
  OBVIOUS
<1>2. Missed \in SUBSET Nat
  OBVIOUS
<1>3. PICK n \in Missed : \A m \in Missed : n <= m
  BY <1>1, <1>2, LeastIn
<1>4. n \in 0 .. b /\ n \notin T /\ n # 0
  BY <1>3
<1>5. n - 1 \in 0 .. b - 1 /\ n - 1 \notin Missed
  BY <1>3, <1>4
<1>6. n - 1 \in T
  BY <1>5
<1>7. n - 1 + 1 = n
  BY <1>4
<1>8. QED
  BY <1>4, <1>5, <1>6, <1>7


-------------------------------------------------------------------------------
(* The buffer of input() *)

(* The sizes that the definition of Capacity speaks of are there.          *)
LEMMA CapacitiesExist ==
  ASSUME NEW b \in Nat
  PROVE  \E cap : /\ cap \in [0 .. b -> Nat]
                  /\ cap = [i \in 0 .. b |-> IF i = 0 THEN FirstCap
                              ELSE IF i >= cap[i - 1] THEN 2 * cap[i - 1] ELSE cap[i - 1]]
<1> DEFINE Grow(i, size) == IF i >= size THEN 2 * size ELSE size
           Grows(cap, n) == /\ cap \in [0 .. n -> Nat] /\ cap[0] = FirstCap
                            /\ \A i \in 1 .. n : cap[i] = Grow(i, cap[i - 1])
           T == {n \in Nat : \E cap : Grows(cap, n)}
<1>1. 0 \in T
  <2>1. Grows([i \in 0 .. 0 |-> FirstCap], 0)
    BY FilesAssumption
  <2>2. QED
    BY <2>1
<1>2. ASSUME NEW n \in 0 .. b - 1, n \in T PROVE n + 1 \in T
  <2>1. PICK cap : Grows(cap, n)
    BY <1>2
  <2> DEFINE longer == [i \in 0 .. n + 1 |-> IF i = n + 1 THEN Grow(n + 1, cap[n]) ELSE cap[i]]
  <2>2. cap[n] \in Nat /\ Grow(n + 1, cap[n]) \in Nat
    BY <2>1
  <2>3. longer \in [0 .. n + 1 -> Nat]
    <3>1. ASSUME NEW i \in 0 .. n + 1 PROVE (IF i = n + 1 THEN Grow(n + 1, cap[n]) ELSE cap[i]) \in Nat
      <4>1. i = n + 1 \/ i \in 0 .. n
        OBVIOUS
      <4>2. QED
        BY <2>1, <2>2, <4>1
    <3>2. QED
      BY <3>1
  <2>4. longer[0] = FirstCap
    BY <2>1
  <2>5. ASSUME NEW i \in 1 .. n + 1 PROVE longer[i] = Grow(i, longer[i - 1])
    <3>1. CASE i = n + 1
      <4>1. longer[i] = Grow(n + 1, cap[n]) /\ i - 1 = n /\ n \in 0 .. n + 1 /\ n # n + 1
        BY <3>1
      <4>2. longer[i - 1] = cap[n]
        BY <4>1
      <4>3. QED
        BY <3>1, <4>1, <4>2
    <3>2. CASE i # n + 1
      <4>1. i \in 1 .. n /\ i - 1 \in 0 .. n /\ i - 1 # n + 1
        BY <3>2
      <4>2. longer[i] = cap[i] /\ longer[i - 1] = cap[i - 1]
        BY <3>2, <4>1
      <4>3. QED
        BY <2>1, <4>1, <4>2
    <3>3. QED
      BY <3>1, <3>2
  <2> HIDE DEF longer, Grow
  <2>6. Grows(longer, n + 1)
    BY <2>3, <2>4, <2>5
  <2>7. QED
    BY <2>6
<1> HIDE DEF T
<1>3. b \in T
  BY <1>1, <1>2, UpTo
<1>4. PICK cap : Grows(cap, b)
  BY <1>3 DEF T
<1>5. cap = [i \in 0 .. b |-> IF i = 0 THEN FirstCap
               ELSE IF i >= cap[i - 1] THEN 2 * cap[i - 1] ELSE cap[i - 1]]
  <2>1. cap = [i \in 0 .. b |-> cap[i]]
    BY <1>4
  <2>2. ASSUME NEW i \in 0 .. b
        PROVE  cap[i] = IF i = 0 THEN FirstCap
                        ELSE IF i >= cap[i - 1] THEN 2 * cap[i - 1] ELSE cap[i - 1]
    <3>1. i = 0 \/ (i \in 1 .. b /\ i # 0)
      OBVIOUS
    <3>2. QED
      BY <1>4, <3>1
  <2>3. QED
    BY <2>1, <2>2
<1>6. QED
  BY <1>4, <1>5

(* n characters and a final '\0' fit into the buffer, however long the line *)
(* and however small the first buffer.                                      *)
LEMMA LineFits ==
  ASSUME NEW n \in Nat
  PROVE  Fits(n)
<1>1. ASSUME NEW m \in Nat PROVE Capacity(m) \in Nat /\ m < Capacity(m)
  <2> DEFINE Grown(cap, i) == IF i = 0 THEN FirstCap
                              ELSE IF i >= cap[i - 1] THEN 2 * cap[i - 1] ELSE cap[i - 1]
             sizes == CHOOSE cap : cap = [i \in 0 .. m |-> Grown(cap, i)]
  <2>1. \E cap : cap = [i \in 0 .. m |-> Grown(cap, i)]
    BY CapacitiesExist
  <2>2. sizes = [i \in 0 .. m |-> Grown(sizes, i)]
    BY <2>1
  <2>3. Capacity(m) = sizes[m]
    BY DEF Capacity
  <2> HIDE DEF sizes
  <2> DEFINE T == {i \in 0 .. m : sizes[i] \in Nat /\ i < sizes[i]}
  <2>4. 0 \in T
    BY <2>2, FilesAssumption
  <2>5. ASSUME NEW i \in 0 .. m - 1, i \in T PROVE i + 1 \in T
    <3>1. i + 1 \in 0 .. m /\ i + 1 # 0 /\ i + 1 - 1 = i
      OBVIOUS
    <3>2. sizes[i + 1] = IF i + 1 >= sizes[i] THEN 2 * sizes[i] ELSE sizes[i]
      BY <2>2, <3>1
    <3>3. QED
      BY <2>5, <3>1, <3>2
  <2> HIDE DEF T
  <2>6. m \in T
    BY <2>4, <2>5, UpTo
  <2>7. QED
    BY <2>3, <2>6 DEF T
<1>2. ASSUME NEW i \in 1 .. n PROVE i - 1 < Capacity(i)
  <2>1. i \in Nat /\ Capacity(i) \in Nat /\ i < Capacity(i)
    BY <1>1
  <2>2. QED
    BY <2>1
<1>3. QED
  BY <1>1, <1>2 DEF Fits


-------------------------------------------------------------------------------
(* Strings *)

TextChar == Char \ {Nul}

(* Where the search for a mark stops, which is at the end of a sequence    *)
(* that does not have it.                                                  *)
Stop(s, mark) == SelectInSeq(s \o <<mark>>, LAMBDA ch : ch = mark)

LEMMA FirstMarkIs ==
  ASSUME NEW S, NEW s \in Seq(S), NEW mark
  PROVE  LET k == Stop(s, mark)
         IN  /\ k \in 1 .. Len(s) + 1 /\ \A j \in 1 .. k - 1 : s[j] # mark
             /\ k <= Len(s) => s[k] = mark
<1> DEFINE marked == s \o <<mark>>
           I == {i \in 1 .. Len(marked) : marked[i] = mark}
<1>1. Len(s) \in Nat
  BY LenProperties
<1>2. /\ Len(marked) = Len(s) + 1 /\ marked[Len(s) + 1] = mark
      /\ \A j \in 1 .. Len(s) : marked[j] = s[j]
  <2>1. s \in Seq(S \cup {mark}) /\ <<mark>> \in Seq(S \cup {mark})
    OBVIOUS
  <2>2. Len(<<mark>>) = 1 /\ <<mark>>[1] = mark
    OBVIOUS
  <2>3. QED
    BY <1>1, <2>1, <2>2, ConcatProperties
<1> HIDE DEF marked
<1>3. I \in SUBSET Nat /\ Len(s) + 1 \in I
  BY <1>1, <1>2
<1>4. PICK n \in I : \A m \in I : n <= m
  BY <1>3, LeastIn
<1>5. Min(I) \in I /\ \A m \in I : Min(I) <= m
  BY <1>4 DEF Min
<1>6. SelectInSeq(marked, LAMBDA ch : ch = mark) = Min(I)
  BY <1>3 DEF SelectInSeq
<1>7. Min(I) \in 1 .. Len(s) + 1
  BY <1>1, <1>2, <1>5
<1>8. ASSUME NEW j \in 1 .. Min(I) - 1 PROVE s[j] # mark
  <2>1. j \in 1 .. Len(s) /\ ~(Min(I) <= j)
    BY <1>1, <1>7
  <2>2. marked[j] = s[j] /\ j \in 1 .. Len(marked) /\ j \notin I
    BY <1>1, <1>2, <1>5, <2>1
  <2>3. QED
    BY <2>2
<1>9. Min(I) <= Len(s) => s[Min(I)] = mark
  BY <1>1, <1>2, <1>5, <1>7
<1>10. QED
  BY <1>6, <1>7, <1>8, <1>9 DEF marked, Stop

(* A part of a string is one.                                              *)
LEMMA PartIs ==
  ASSUME NEW S, NEW s \in Seq(S), NEW i \in Nat, i # 0, NEW j \in Int, j <= Len(s)
  PROVE  SubSeq(s, i, j) \in Seq(S)
<1>1. Len(s) \in Nat
  BY LenProperties
<1>2. \A k \in i .. j : k \in 1 .. Len(s)
  BY <1>1
<1>3. \A k \in i .. j : s[k] \in S
  BY <1>2, ElementOfSeq
<1>4. QED
  BY <1>3, SubSeqProperties

LEMMA StringIs ==
  ASSUME NEW s \in Seq(Char)
  PROVE  UpToNul(s) \in Seq(TextChar) /\ Line(s) \in Seq(Char)
<1>1. Len(s) \in Nat
  BY LenProperties
<1>2. PICK k : /\ k = Stop(s, Nul)
               /\ k \in 1 .. Len(s) + 1 /\ \A j \in 1 .. k - 1 : s[j] # Nul
  BY FirstMarkIs
<1>3. ASSUME NEW j \in 1 .. k - 1 PROVE s[j] \in TextChar
  <2>1. j \in 1 .. Len(s)
    BY <1>1, <1>2
  <2>2. s[j] \in Char
    BY <2>1, ElementOfSeq
  <2>3. QED
    BY <1>2, <2>2 DEF TextChar
<1>4. SubSeq(s, 1, k - 1) \in Seq(TextChar)
  <2>1. 1 \in Int /\ k - 1 \in Int
    BY <1>1, <1>2
  <2>2. QED
    BY <1>3, <2>1, SubSeqProperties
<1>5. PICK l : l = Stop(s, NewLine) /\ l \in 1 .. Len(s) + 1
  BY FirstMarkIs
<1>6. l - 1 \in Int /\ l - 1 <= Len(s)
  BY <1>1, <1>5
<1>7. SubSeq(s, 1, l - 1) \in Seq(Char)
  BY <1>6, PartIs
<1>8. QED
  BY <1>2, <1>4, <1>5, <1>7 DEF UpToNul, Line, Stop

(* A string without a NUL is read back whole.                              *)
LEMMA WholeString ==
  ASSUME NEW s \in Seq(TextChar)
  PROVE  UpToNul(s) = s
<1>1. Len(s) \in Nat
  BY LenProperties
<1>2. PICK k : /\ k = Stop(s, Nul)
               /\ k \in 1 .. Len(s) + 1 /\ UpToNul(s) = SubSeq(s, 1, k - 1)
               /\ k <= Len(s) => s[k] = Nul
  BY FirstMarkIs DEF UpToNul, Stop
<1>3. k = Len(s) + 1
  <2>1. SUFFICES ASSUME k # Len(s) + 1 PROVE FALSE
    OBVIOUS
  <2>2. k \in 1 .. Len(s)
    BY <1>1, <1>2, <2>1
  <2>3. s[k] \in TextChar
    BY <2>2, ElementOfSeq
  <2>4. QED
    BY <1>1, <1>2, <2>2, <2>3 DEF TextChar
<1>4. k - 1 = Len(s)
  BY <1>1, <1>3
<1>5. QED
  BY <1>2, <1>4, SubSeqFull


(* What trim cuts: the spaces at both ends.                                *)
LEMMA TrimIs ==
  ASSUME NEW S, NEW s \in Seq(S)
  PROVE  \E i, j \in 0 .. Len(s) :
           /\ i <= j /\ Trim(s) = SubSeq(s, i + 1, j)
           /\ i < j => s[i + 1] \notin Space /\ s[j] \notin Space
           /\ \A k \in 1 .. Len(s) : k \notin i + 1 .. j => s[k] \in Space
<1>1. PICK n \in Nat : n = Len(s)
  BY LenProperties
<1> DEFINE Starts(i) == /\ i = n \/ s[i + 1] \notin Space
                        /\ \A j \in 1 .. i : s[j] \in Space
           start == CHOOSE i \in 0 .. n : Starts(i)
           Ends(i) == /\ i = start \/ s[i] \notin Space
                      /\ \A j \in i + 1 .. n : s[j] \in Space
           end == CHOOSE i \in start .. n : Ends(i)
<1>2. Trim(s) = SubSeq(s, start + 1, end)
  BY <1>1 DEF Trim
<1>3. \E i \in 0 .. n : Starts(i)
  <2> DEFINE T == {i \in 0 .. n : i = n \/ s[i + 1] \notin Space}
  <2>1. T \in SUBSET Nat /\ n \in T
    OBVIOUS
  <2>2. PICK i \in T : \A m \in T : i <= m
    BY <2>1, LeastIn
  <2>3. ASSUME NEW j \in 1 .. i PROVE s[j] \in Space
    <3>1. j - 1 \in 0 .. n /\ ~(i <= j - 1) /\ j - 1 + 1 = j /\ j - 1 # n
      BY <2>2
    <3>2. j - 1 \notin T
      BY <2>2, <3>1
    <3>3. QED
      BY <3>1, <3>2
  <2>4. QED
    BY <2>2, <2>3
<1>4. start \in 0 .. n /\ Starts(start)
  BY <1>3
<1> HIDE DEF start
<1>5. \E i \in start .. n : Ends(i)
  <2> DEFINE T == {i \in start .. n : i = start \/ s[i] \notin Space}
  <2>1. T \in SUBSET (0 .. n) /\ start \in T
    BY <1>4
  <2>2. PICK i \in T : \A m \in T : m <= i
    BY <2>1, GreatestIn
  <2>3. ASSUME NEW j \in i + 1 .. n PROVE s[j] \in Space
    <3>1. j \in start .. n /\ ~(j <= i)
      BY <1>4, <2>2
    <3>2. j \notin T
      BY <2>2, <3>1
    <3>3. QED
      BY <3>1, <3>2
  <2>4. QED
    BY <2>2, <2>3
<1>6. end \in start .. n /\ Ends(end)
  BY <1>5
<1> HIDE DEF end
<1>7. start \in 0 .. Len(s) /\ end \in 0 .. Len(s) /\ start <= end
  BY <1>1, <1>4, <1>6
<1>8. start < end => s[start + 1] \notin Space /\ s[end] \notin Space
  BY <1>4, <1>6
<1>9. ASSUME NEW k \in 1 .. Len(s), k \notin start + 1 .. end PROVE s[k] \in Space
  <2>1. k \in 1 .. start \/ k \in end + 1 .. n
    BY <1>1, <1>4, <1>6, <1>9
  <2>2. QED
    BY <1>4, <1>6, <2>1
<1>10. QED
  BY <1>2, <1>7, <1>8, <1>9

LEMMA TrimCuts ==
  ASSUME NEW S, text \in Seq(S)
  PROVE  TrimCutsSpaces /\ Trim(text) \in Seq(S)
<1>1. PICK n \in Nat : n = Len(text)
  BY LenProperties
<1>2. PICK i \in 0 .. Len(text), j \in 0 .. Len(text) :
        /\ i <= j /\ Trim(text) = SubSeq(text, i + 1, j)
        /\ i < j => text[i + 1] \notin Space /\ text[j] \notin Space
        /\ \A k \in 1 .. Len(text) : k \notin i + 1 .. j => text[k] \in Space
  BY TrimIs
<1>3. i \in 0 .. n /\ j \in 0 .. n /\ i + 1 \in Nat /\ i + 1 # 0 /\ j \in Int /\ j <= Len(text)
  BY <1>1, <1>2
<1> DEFINE r == SubSeq(text, i + 1, j)
<1>4. r \in Seq(S)
  BY <1>3, PartIs
<1>5. \A k \in i + 1 .. j : text[k] \in S
  <2>1. \A k \in i + 1 .. j : k \in 1 .. Len(text)
    BY <1>1, <1>3
  <2>2. QED
    BY <2>1, ElementOfSeq
<1>6. /\ Len(r) = (IF i + 1 <= j THEN j - (i + 1) + 1 ELSE 0)
      /\ \A k \in 1 .. j - (i + 1) + 1 : r[k] = text[i + 1 + k - 1]
  <2>1. i + 1 \in Int /\ j \in Int
    BY <1>3
  <2>2. QED
    BY <1>5, <2>1, SubSeqProperties
<1>7. ASSUME r # <<>> PROVE r[1] \notin Space /\ Last(r) \notin Space
  <2>1. i < j
    <3>1. SUFFICES ASSUME ~(i < j) PROVE FALSE
      OBVIOUS
    <3>2. j < i + 1 /\ i + 1 \in Int /\ j \in Int
      BY <1>3, <3>1
    <3>3. r = <<>>
      BY <3>2, SubSeqEmpty
    <3>4. QED
      BY <1>7, <3>3
  <2>2. PICK m \in Nat : m = j - i /\ m >= 1
    BY <1>3, <2>1
  <2>3. Len(r) = m /\ r[1] = text[i + 1] /\ r[m] = text[j]
    <3>1. i + 1 <= j /\ j - (i + 1) + 1 = m /\ 1 \in 1 .. m /\ m \in 1 .. m
          /\ i + 1 + 1 - 1 = i + 1 /\ i + 1 + m - 1 = j
      BY <1>3, <2>1, <2>2
    <3>2. Len(r) = m
      BY <1>6, <3>1
    <3>3. \A k \in 1 .. m : r[k] = text[i + 1 + k - 1]
      BY <1>6, <3>1
    <3>4. QED
      BY <3>1, <3>2, <3>3
  <2>4. QED
    BY <1>2, <2>1, <2>3 DEF Last
<1> HIDE DEF r
<1>8. r = Trim(text)
  BY <1>2 DEF r
<1>9. QED
  BY <1>2, <1>4, <1>7, <1>8 DEF TrimCutsSpaces

LEMMA LongIs == Long \subseteq Int /\ MaxLong \in Nat
<1>1. MaxLong \in Nat
  BY TextAssumption
<1>2. QED
  BY <1>1 DEF Long

(* The positions that substring copies, when its sum has no bound          *)
LEMMA PartIsThere ==
  ASSUME NEW n \in Nat, NEW start \in Long, NEW length \in Long
  PROVE  LET part == SubstringPart(n, start, length)
             first == Max({start, 0})
             there == {p \in 0 .. n - 1 : first <= p /\ p - first < length}
         IN  {part.from + i : i \in 0 .. part.count - 1} = there
<1>1. start \in Int /\ length \in Int
  BY LongIs
<1>2. PICK first \in Nat : first = Max({start, 0}) /\ first = IF start < 0 THEN 0 ELSE start
  <2>1. PICK f \in {start, 0} : \A y \in {start, 0} : f >= y
    BY <1>1
  <2>2. Max({start, 0}) \in {start, 0} /\ \A y \in {start, 0} : Max({start, 0}) >= y
    BY <2>1 DEF Max
  <2>3. QED
    BY <1>1, <2>2
<1>3. PICK from \in Nat : from = SubstringPart(n, start, length).from
                          /\ from = IF first > n THEN n ELSE first
  BY <1>1, <1>2 DEF SubstringPart
<1>4. PICK most \in Nat : most = IF length < 0 THEN 0 ELSE length
  BY <1>1
<1>5. PICK count \in Nat : /\ count = SubstringPart(n, start, length).count
                          /\ count = IF from + most > n THEN n - from ELSE most
  <2>1. from = IF start < 0 THEN 0 ELSE IF start > n THEN n ELSE start
    BY <1>3 DEF SubstringPart
  <2>2. SubstringPart(n, start, length).count = IF from + most > n THEN n - from ELSE most
    BY <1>4, <2>1 DEF SubstringPart
  <2>3. from <= n
    BY <1>3
  <2>4. PICK c \in Nat : c = IF from + most > n THEN n - from ELSE most
    <3>1. n - from \in Nat
      BY <2>3
    <3>2. QED
      BY <3>1
  <2>5. QED
    BY <2>2, <2>4
<1>6. ASSUME NEW p \in Int
      PROVE  from <= p /\ p < from + count <=> 0 <= p /\ p <= n - 1 /\ first <= p /\ p - first < length
  <2>1. CASE first > n
    BY <1>1, <1>3, <1>5, <2>1
  <2>2. CASE first <= n
    <3>1. from = first
      BY <1>3, <2>2
    <3>2. CASE length <= 0
      BY <1>1, <1>4, <1>5, <3>1, <3>2
    <3>3. CASE length > 0 /\ from + length > n
      BY <1>1, <1>4, <1>5, <3>1, <3>3
    <3>4. CASE length > 0 /\ from + length <= n
      BY <1>1, <1>4, <1>5, <3>1, <3>4
    <3>5. QED
      BY <1>1, <3>2, <3>3, <3>4
  <2>3. QED
    BY <2>1, <2>2
<1>7. ASSUME NEW p \in {from + i : i \in 0 .. count - 1}
      PROVE  p \in {q \in 0 .. n - 1 : first <= q /\ q - first < length}
  <2>1. p \in Int /\ from <= p /\ p < from + count
    BY <1>7
  <2>2. QED
    BY <1>6, <2>1
<1>8. ASSUME NEW p \in {q \in 0 .. n - 1 : first <= q /\ q - first < length}
      PROVE  p \in {from + i : i \in 0 .. count - 1}
  <2>1. p \in Int /\ 0 <= p /\ p <= n - 1 /\ first <= p /\ p - first < length
    OBVIOUS
  <2>2. from <= p /\ p < from + count
    BY <1>6, <2>1
  <2>3. p - from \in 0 .. count - 1 /\ p = from + (p - from)
    BY <2>1, <2>2
  <2>4. QED
    BY <2>3
<1>9. QED
  BY <1>2, <1>3, <1>5, <1>7, <1>8

(* substring, for any start and length whose sum is a long                 *)
LEMMA ClampsHold ==
  ASSUME "sums fit" \in Rules, Len(text) \in Nat
  PROVE  SubstringClamps
BY PartIsThere DEF SubstringClamps, Keeps

(* random_int stays between its bounds and reaches each number there, when *)
(* a long can count them.                                                  *)
LEMMA RandomGives ==
  ASSUME NEW lo \in Long, NEW hi \in Long, lo <= hi, RangeFits(lo, hi)
  PROVE  /\ RandomInts(lo, hi) # {} /\ RandomInts(lo, hi) \subseteq lo .. hi
         /\ hi - lo <= RandMax => RandomInts(lo, hi) = lo .. hi
<1>1. lo \in Int /\ hi \in Int /\ RandMax \in Nat
  BY LongIs, TextAssumption
<1>2. CASE hi <= lo
  <2>1. lo = hi /\ RandomInts(lo, hi) = {lo} /\ lo .. hi = {lo}
    BY <1>1, <1>2 DEF RandomInts
  <2>2. QED
    BY <1>1, <2>1
<1>3. CASE hi > lo
  <2>1. PICK m \in Nat : m = hi - lo + 1 /\ m > 0
    BY <1>1, <1>3
  <2>2. RandomInts(lo, hi) = {lo + (r % m) : r \in 0 .. RandMax}
    BY <1>1, <1>3, <2>1 DEF RandomInts
  <2>3. ASSUME NEW r \in Nat PROVE r % m \in 0 .. m - 1
    BY <2>1
  <2>4. ASSUME NEW v \in RandomInts(lo, hi) PROVE v \in lo .. hi
    <3>1. PICK r \in 0 .. RandMax : v = lo + (r % m)
      BY <2>2
    <3>2. r % m \in 0 .. m - 1
      BY <2>3, <3>1, <1>1
    <3>3. QED
      BY <1>1, <2>1, <3>1, <3>2
  <2>5. ASSUME hi - lo <= RandMax, NEW v \in lo .. hi PROVE v \in RandomInts(lo, hi)
    <3>1. PICK r \in Nat : r = v - lo /\ r < m /\ r \in 0 .. RandMax
      BY <1>1, <2>1, <2>5
    <3>2. r % m = r
      BY <2>1, <3>1
    <3>3. v = lo + (r % m)
      BY <1>1, <3>1, <3>2
    <3>4. QED
      BY <2>2, <3>1, <3>3
  <2>6. RandomInts(lo, hi) # {}
    <3>1. lo + (0 % m) \in RandomInts(lo, hi)
      BY <1>1, <2>2
    <3>2. QED
      BY <3>1
  <2>7. QED
    BY <2>4, <2>5, <2>6
<1>4. QED
  BY <1>1, <1>2, <1>3

LEMMA RandomIs ==
  ASSUME "ranges fit" \in Rules
  PROVE  RandomInRange
BY RandomGives DEF RandomInRange, Keeps

(* Whatever it gives, it gives a number, when its range can be counted.    *)
LEMMA RandomHas ==
  ASSUME NEW lo \in Long, NEW hi \in Long, RangeFits(lo, hi)
  PROVE  RandomInts(lo, hi) # {}
<1>1. lo \in Int /\ hi \in Int /\ RandMax \in Nat
  BY LongIs, TextAssumption
<1>2. CASE hi <= lo
  BY <1>2 DEF RandomInts
<1>3. CASE hi > lo
  <2>1. RandomInts(lo, hi) = {lo + (r % (hi - lo + 1)) : r \in 0 .. RandMax}
    BY <1>1, <1>3 DEF RandomInts
  <2>2. lo + (0 % (hi - lo + 1)) \in RandomInts(lo, hi)
    BY <1>1, <2>1
  <2>3. QED
    BY <2>2
<1>4. QED
  BY <1>1, <1>2, <1>3

LEMMA RandomIsInt ==
  ASSUME NEW lo \in Long, NEW hi \in Long
  PROVE  RandomInts(lo, hi) \subseteq Int
<1>1. lo \in Int /\ hi \in Int /\ RandMax \in Nat
  BY LongIs, TextAssumption
<1>2. CASE hi <= lo
  BY <1>1, <1>2 DEF RandomInts
<1>3. CASE hi > lo
  <2>1. PICK m \in Nat : m = hi - lo + 1 /\ m > 0
    BY <1>1, <1>3
  <2>2. \A r \in 0 .. RandMax : lo + (r % m) \in Int
    BY <1>1, <2>1
  <2>3. QED
    BY <1>1, <1>3, <2>1, <2>2 DEF RandomInts
<1>4. QED
  BY <1>1, <1>2, <1>3


-------------------------------------------------------------------------------
(* What a program's strings, files and input are made of *)

DataInv ==
  /\ text \in Seq(TextChar) /\ stdin \in Seq(Char)
  /\ disk \in [Paths -> Seq(Char) \cup {Missing, Directory}]
  /\ promised \in [Paths -> Seq(TextChar) \cup {Unknown}]

(* What the program believes of a file is what is on the disk.             *)
Believed == \A p \in Paths : promised[p] # Unknown => disk[p] = promised[p]

LEMMA TextIsChars ==
  ASSUME NEW s \in Seq(TextChar)
  PROVE  s \in Seq(Char)
<1>1. Len(s) \in Nat /\ s \in [1 .. Len(s) -> TextChar]
  BY SeqDef, LenProperties
<1>2. s \in [1 .. Len(s) -> Char]
  BY <1>1 DEF TextChar
<1>3. QED
  BY <1>1, <1>2, SeqDef

LEMMA FilesInitHolds == FilesInit => DataInv /\ Believed /\ CallsReturn
<1> SUFFICES ASSUME FilesInit PROVE DataInv /\ Believed /\ CallsReturn
  OBVIOUS
<1>1. text = <<>> /\ status = "running"
  BY DEF FilesInit, TextInit
<1>2. disk \in [Paths -> Contents \cup {Missing, Directory}] /\ stdin \in Contents
      /\ promised = [p \in Paths |-> Unknown]
  BY DEF FilesInit
<1>3. Contents \subseteq Seq(Char)
  BY FilesAssumption
<1>4. DataInv
  BY <1>1, <1>2, <1>3 DEF DataInv
<1>5. QED
  BY <1>1, <1>2, <1>4 DEF Believed, CallsReturn

(* The characters of a text and of another one                             *)
LEMMA JoinIs ==
  ASSUME NEW S, NEW s \in Seq(S), NEW t \in Seq(S)
  PROVE  s \o t \in Seq(S)
BY ConcatProperties

(* The calls of Text *)
LEMMA TextKeeps ==
  ASSUME DataInv, TextNext
  PROVE  text' \in Seq(TextChar)
<1>1. text \in Seq(TextChar) /\ Literals \subseteq Seq(TextChar)
  BY FilesAssumption DEF DataInv, TextChar
<1>2. ASSUME NEW s \in Literals, Assign(s) PROVE text' \in Seq(TextChar)
  BY <1>1, <1>2 DEF Assign
<1>3. ASSUME NEW s \in Literals, Concat(s) PROVE text' \in Seq(TextChar)
  <2>1. text' = text \o s /\ s \in Seq(TextChar)
    BY <1>1, <1>3 DEF Concat
  <2>2. QED
    BY <1>1, <2>1, JoinIs
<1>4. ASSUME NEW start \in Long, NEW length \in Long, SubstringCall(start, length)
      PROVE  text' \in Seq(TextChar)
  <2>1. PICK n \in Nat : n = Len(text)
    BY <1>1, LenProperties
  <2>2. PICK part : part = SubstringPart(n, start, length)
    OBVIOUS
  <2>3. part.from \in Nat /\ part.count \in Int
    BY <2>1, <2>2, LongIs DEF SubstringPart
  <2>4. \/ part.from + part.count <= n /\ text' = SubSeq(text, part.from + 1, part.from + part.count)
        \/ text' = text
    BY <1>4, <2>1, <2>2 DEF SubstringCall, Undefined
  <2>5. ASSUME part.from + part.count <= n
        PROVE  SubSeq(text, part.from + 1, part.from + part.count) \in Seq(TextChar)
    <3>1. PICK i, j : i = part.from + 1 /\ j = part.from + part.count
      OBVIOUS
    <3>2. i \in Nat /\ i # 0 /\ j \in Int /\ j <= Len(text)
      BY <2>1, <2>3, <2>5, <3>1
    <3>3. QED
      BY <1>1, <3>1, <3>2, PartIs
  <2>6. QED
    BY <1>1, <2>4, <2>5
<1>5. ASSUME TrimCall PROVE text' \in Seq(TextChar)
  BY <1>1, <1>5, TrimCuts DEF TrimCall
<1>6. ASSUME NEW i \in Int, CharAt(i) PROVE text' \in Seq(TextChar)
  <2>1. i \in Int /\ Len(text) \in Nat
    BY <1>1, LenProperties
  <2>2. CASE i < 0 \/ i >= Len(text)
    BY <1>1, <1>6, <2>2 DEF CharAt
  <2>3. CASE ~(i < 0 \/ i >= Len(text))
    <3>1. text' = <<text[i + 1]>> /\ i + 1 \in 1 .. Len(text)
      BY <1>6, <2>1, <2>3 DEF CharAt
    <3>2. text[i + 1] \in TextChar
      BY <1>1, <3>1, ElementOfSeq
    <3>3. QED
      BY <3>1, <3>2
  <2>4. QED
    BY <2>2, <2>3
<1>7. ASSUME NEW lo \in Long, NEW hi \in Long, RandomChar(lo, hi)
      PROVE  text' \in Seq(TextChar)
  <2>1. CASE RandomInts(lo, hi) = {}
    BY <1>1, <1>7, <2>1 DEF RandomChar, Undefined
  <2>2. CASE RandomInts(lo, hi) # {}
    <3>1. PICK i \in RandomInts(lo, hi) : CharAt(i)
      BY <1>7, <2>2 DEF RandomChar
    <3>2. i \in Int
      BY RandomIsInt
    <3>3. QED
      BY <1>6, <3>1, <3>2
  <2>3. QED
    BY <2>1, <2>2
<1>8. \A i \in Long : i \in Int
  BY LongIs
<1>9. QED
  BY <1>2, <1>3, <1>4, <1>5, <1>6, <1>7, <1>8 DEF TextNext

(* The part of the length said of the string                               *)
LEMMA EndingsAre ==
  ASSUME NEW S, NEW s \in Seq(S), NEW e \in Endings(s)
  PROVE  /\ SubSeq(s, 1, e.kept) \in Seq(S)
         /\ "disk has room" \in Rules /\ e.said = Len(s) => SubSeq(s, 1, e.kept) = s
<1>1. Len(s) \in Nat /\ e.kept \in 0 .. Len(s) /\ ("disk has room" \in Rules => e.kept = e.said)
  BY LenProperties DEF Endings
<1>2. e.kept \in Int /\ e.kept <= Len(s)
  <2>1. PICK n \in Nat : n = Len(s)
    BY <1>1
  <2>2. e.kept \in 0 .. n
    BY <1>1, <2>1
  <2>3. QED
    BY <2>1, <2>2
<1>3. SubSeq(s, 1, e.kept) \in Seq(S)
  BY <1>2, PartIs
<1>4. SubSeq(s, 1, Len(s)) = s
  BY SubSeqFull
<1>5. QED
  BY <1>1, <1>3, <1>4


LEMMA InputKeeps ==
  ASSUME DataInv, Input
  PROVE  DataInv' /\ (Believed => Believed') /\ status' = status
<1>1. stdin \in Seq(Char) /\ text \in Seq(TextChar)
  BY DEF DataInv
<1>2. PICK line : line = Line(stdin) /\ line \in Seq(Char)
  BY <1>1, StringIs
<1>3. Len(line) \in Nat /\ Len(stdin) \in Nat
  BY <1>1, <1>2, LenProperties
<1>4. Fits(Len(line))
  BY <1>3, LineFits
<1>5. /\ disk' = disk /\ promised' = promised /\ status' = status
      /\ stdin' = SubSeq(stdin, Len(line) + 2, Len(stdin)) /\ text' = UpToNul(line)
  BY <1>2, <1>4 DEF Input, Assign
<1>6. text' \in Seq(TextChar)
  BY <1>2, <1>5, StringIs
<1>7. stdin' \in Seq(Char)
  <2>1. PICK i, j : i = Len(line) + 2 /\ j = Len(stdin)
    OBVIOUS
  <2>2. i \in Nat /\ i # 0 /\ j \in Int /\ j <= Len(stdin)
    BY <1>3, <2>1
  <2>3. QED
    BY <1>1, <1>5, <2>1, <2>2, PartIs
<1>8. QED
  BY <1>5, <1>6, <1>7 DEF DataInv, Believed

(* What read_file gives                                                    *)
LEMMA ReadOutcomesAre ==
  ASSUME DataInv, NEW p \in Paths, NEW s \in ReadOutcomes(p)
  PROVE  s \in Seq(TextChar)
<1>1. CASE s = <<>>
  BY <1>1
<1>2. CASE s # <<>>
  <2>1. IsFile(p) /\ s \in {UpToNul(SubSeq(disk[p], 1, n)) : n \in 0 .. Len(disk[p])}
    BY <1>2 DEF ReadOutcomes
  <2>2. disk[p] \in Seq(Char)
    BY <2>1 DEF IsFile, DataInv
  <2>3. PICK l \in Nat : l = Len(disk[p])
    BY <2>2, LenProperties
  <2>4. PICK n \in 0 .. l : s = UpToNul(SubSeq(disk[p], 1, n))
    BY <2>1, <2>3
  <2>5. n \in Int /\ n <= Len(disk[p])
    BY <2>3
  <2>6. SubSeq(disk[p], 1, n) \in Seq(Char)
    BY <2>2, <2>5, PartIs
  <2>7. QED
    BY <2>4, <2>6, StringIs
<1>3. QED
  BY <1>1, <1>2

LEMMA ReadKeeps ==
  ASSUME DataInv, NEW p \in Paths, ReadFile(p)
  PROVE  /\ DataInv' /\ (Believed => Believed')
         /\ "only files" \in Rules => status' = status
<1>1. /\ disk' = disk /\ promised' = promised /\ stdin' = stdin
      /\ "only files" \in Rules => disk[p] # Directory
      /\ IF disk[p] = Directory THEN Undefined ELSE \E s \in ReadOutcomes(p) : Assign(s)
  BY DEF ReadFile
<1>2. text' \in Seq(TextChar) /\ ("only files" \in Rules => status' = status)
  <2>1. CASE disk[p] = Directory
    BY <1>1, <2>1 DEF Undefined, DataInv
  <2>2. CASE disk[p] # Directory
    <3>1. PICK s \in ReadOutcomes(p) : Assign(s)
      BY <1>1, <2>2
    <3>2. QED
      BY <3>1, ReadOutcomesAre DEF Assign
  <2>3. QED
    BY <2>1, <2>2
<1>3. QED
  BY <1>1, <1>2 DEF DataInv, Believed

(* A call that leaves new on the disk and says done of it                  *)
LEMMA WroteKeeps ==
  ASSUME DataInv, NEW p \in Paths, NEW new \in Seq(Char), NEW done \in BOOLEAN, NEW told \in Seq(TextChar),
         disk' = [disk EXCEPT ![p] = new], Told(p, done, told),
         UNCHANGED <<text, stdin>>
  PROVE  DataInv' /\ (Believed /\ (done => new = told) => Believed')
<1>1. promised' = [promised EXCEPT ![p] = IF done THEN told ELSE Unknown]
  BY DEF Told
<1>2. DataInv'
  <2>1. disk' \in [Paths -> Seq(Char) \cup {Missing, Directory}]
    BY DEF DataInv
  <2>2. promised' \in [Paths -> Seq(TextChar) \cup {Unknown}]
    BY <1>1 DEF DataInv
  <2>3. QED
    BY <2>1, <2>2 DEF DataInv
<1>3. ASSUME Believed, done => new = told, NEW q \in Paths, promised'[q] # Unknown
      PROVE  disk'[q] = promised'[q]
  <2>1. CASE q = p
    BY <1>1, <1>3, <2>1 DEF DataInv
  <2>2. CASE q # p
    BY <1>1, <1>3, <2>2 DEF DataInv, Believed
  <2>3. QED
    BY <2>1, <2>2
<1>4. QED
  BY <1>2, <1>3 DEF Believed

LEMMA OpenFailsKeeps ==
  ASSUME DataInv, NEW p \in Paths, OpenFails(p), UNCHANGED <<text, stdin>>
  PROVE  DataInv' /\ (Believed => Believed')
<1>1. promised' = [promised EXCEPT ![p] = Unknown] /\ disk' = disk
  BY DEF OpenFails, Told
<1>2. promised' \in [Paths -> Seq(TextChar) \cup {Unknown}]
  BY <1>1 DEF DataInv
<1>3. DataInv'
  BY <1>1, <1>2 DEF DataInv
<1>4. ASSUME Believed, NEW q \in Paths, promised'[q] # Unknown PROVE disk'[q] = promised'[q]
  BY <1>1, <1>4 DEF DataInv, Believed
<1>5. QED
  BY <1>3, <1>4 DEF Believed

LEMMA WriteKeeps ==
  ASSUME DataInv, NEW p \in Paths, WriteFile(p)
  PROVE  /\ DataInv' /\ status' = status
         /\ "disk has room" \in Rules /\ Believed => Believed'
<1>1. text' = text /\ status' = status /\ stdin' = stdin /\ text \in Seq(TextChar)
  BY DEF WriteFile, DataInv
<1>2. CASE OpenFails(p)
  BY <1>1, <1>2, OpenFailsKeeps
<1>3. ASSUME NEW e \in Endings(text), disk' = [disk EXCEPT ![p] = SubSeq(text, 1, e.kept)],
             Told(p, e.said = Len(text), text)
      PROVE  DataInv' /\ ("disk has room" \in Rules /\ Believed => Believed')
  <2>1. PICK new : new = SubSeq(text, 1, e.kept)
    OBVIOUS
  <2>2. new \in Seq(TextChar) /\ ("disk has room" \in Rules /\ e.said = Len(text) => new = text)
    BY <1>1, <2>1, EndingsAre
  <2>3. PICK done \in BOOLEAN : done <=> e.said = Len(text)
    OBVIOUS
  <2>4. new \in Seq(Char) /\ disk' = [disk EXCEPT ![p] = new] /\ Told(p, done, text)
    BY <1>3, <2>1, <2>2, <2>3, TextIsChars DEF Told
  <2>5. DataInv' /\ (Believed /\ (done => new = text) => Believed')
    BY <1>1, <2>4, WroteKeeps
  <2>6. QED
    BY <2>2, <2>3, <2>5
<1>4. QED
  BY <1>1, <1>2, <1>3 DEF WriteFile

LEMMA AppendKeeps ==
  ASSUME DataInv, NEW p \in Paths, AppendFile(p)
  PROVE  /\ DataInv' /\ status' = status
         /\ "disk has room" \in Rules /\ Believed => Believed'
<1>1. text' = text /\ status' = status /\ stdin' = stdin /\ text \in Seq(TextChar)
  BY DEF AppendFile, DataInv
<1>2. CASE OpenFails(p)
  BY <1>1, <1>2, OpenFailsKeeps
<1>3. CASE ~OpenFails(p)
  <2>1. PICK old : old = IF disk[p] = Missing THEN <<>> ELSE disk[p]
    OBVIOUS
  <2>2. PICK e \in Endings(text) :
          /\ disk' = [disk EXCEPT ![p] = old \o SubSeq(text, 1, e.kept)]
          /\ Told(p, e.said = Len(text) /\ promised[p] # Unknown,
                  IF promised[p] = Unknown THEN <<>> ELSE promised[p] \o text)
    BY <1>3, <2>1 DEF AppendFile
  <2>3. disk[p] # Directory
    BY <1>3 DEF AppendFile
  <2>4. old \in Seq(Char)
    BY <2>1, <2>3 DEF DataInv
  <2>5. PICK part : part = SubSeq(text, 1, e.kept)
    OBVIOUS
  <2>6. part \in Seq(TextChar) /\ ("disk has room" \in Rules /\ e.said = Len(text) => part = text)
    BY <1>1, <2>5, EndingsAre
  <2>7. PICK done \in BOOLEAN : done <=> e.said = Len(text) /\ promised[p] # Unknown
    OBVIOUS
  <2>8. PICK told : told = IF promised[p] = Unknown THEN <<>> ELSE promised[p] \o text
    OBVIOUS
  <2>9. told \in Seq(TextChar)
    <3>1. CASE promised[p] = Unknown
      BY <2>8, <3>1
    <3>2. CASE promised[p] # Unknown
      BY <1>1, <2>8, <3>2, JoinIs DEF DataInv
    <3>3. QED
      BY <3>1, <3>2
  <2>10. old \o part \in Seq(Char)
    BY <2>4, <2>6, TextIsChars, JoinIs
  <2>11. disk' = [disk EXCEPT ![p] = old \o part] /\ Told(p, done, told)
    BY <2>2, <2>5, <2>7, <2>8 DEF Told
  <2>12. DataInv' /\ (Believed /\ (done => old \o part = told) => Believed')
    BY <1>1, <2>9, <2>10, <2>11, WroteKeeps
  <2>13. ASSUME "disk has room" \in Rules, Believed, done PROVE old \o part = told
    <3>1. promised[p] # Unknown /\ disk[p] = promised[p] /\ promised[p] \in Seq(TextChar)
      BY <2>7, <2>13 DEF Believed, DataInv
    <3>2. disk[p] # Missing
      BY <3>1, TextIsChars, FilesAssumption
    <3>3. part = text
      BY <2>6, <2>7, <2>13
    <3>4. QED
      BY <2>1, <2>8, <3>1, <3>2, <3>3
  <2>14. QED
    BY <1>1, <2>12, <2>13
<1>4. QED
  BY <1>2, <1>3


-------------------------------------------------------------------------------
(* Every step *)

LEMMA PartFits ==
  ASSUME NEW n \in Nat, NEW start \in Long, NEW length \in Long
  PROVE  LET part == SubstringPart(n, start, length) IN part.from + part.count <= n
<1>1. start \in Int /\ length \in Int
  BY LongIs
<1>2. PICK from \in 0 .. n : from = IF start < 0 THEN 0 ELSE IF start > n THEN n ELSE start
  BY <1>1
<1>3. PICK most \in Nat : most = IF length < 0 THEN 0 ELSE length
  BY <1>1
<1>4. PICK part : part = SubstringPart(n, start, length)
  OBVIOUS
<1>5. part.from = from /\ part.count = IF from + most > n THEN n - from ELSE most
  BY <1>2, <1>3, <1>4 DEF SubstringPart
<1>6. CASE from + most > n
  BY <1>4, <1>5, <1>6
<1>7. CASE from + most <= n
  BY <1>4, <1>5, <1>7
<1>8. QED
  BY <1>6, <1>7

LEMMA TextDefined ==
  ASSUME DataInv, "sums fit" \in Rules, "ranges fit" \in Rules, CallsReturn, TextNext
  PROVE  CallsReturn'
<1>1. PICK n \in Nat : n = Len(text)
  BY LenProperties DEF DataInv
<1>2. ASSUME NEW start \in Long, NEW length \in Long, SubstringCall(start, length)
      PROVE  status' = status
  <2>1. LET part == SubstringPart(n, start, length) IN part.from + part.count <= n
    BY PartFits
  <2>2. SumFits(n, start, length)
    BY <1>1, <1>2 DEF SubstringCall, Keeps
  <2>3. QED
    BY <1>1, <1>2, <2>1, <2>2 DEF SubstringCall
<1>3. ASSUME NEW i, CharAt(i) PROVE status' \in {status, "exited"}
  BY <1>3 DEF CharAt
<1>4. ASSUME NEW s, Assign(s) \/ Concat(s) PROVE status' = status
  BY <1>4 DEF Assign, Concat
<1>5. ASSUME TrimCall PROVE status' = status
  BY <1>5 DEF TrimCall
<1>6. ASSUME NEW lo \in Long, NEW hi \in Long, RandomChar(lo, hi)
      PROVE  status' \in {status, "exited"}
  <2>1. RandomInts(lo, hi) # {}
    BY <1>6, RandomHas DEF RandomChar, Keeps
  <2>2. QED
    BY <1>3, <1>6, <2>1 DEF RandomChar
<1>7. QED
  BY <1>2, <1>3, <1>4, <1>5, <1>6 DEF TextNext, CallsReturn

LEMMA FilesKeep ==
  ASSUME DataInv, FilesNext
  PROVE  /\ DataInv'
         /\ "disk has room" \in Rules /\ Believed => Believed'
         /\ {"sums fit", "ranges fit", "only files"} \subseteq Rules /\ CallsReturn => CallsReturn'
<1> DEFINE Kept == /\ DataInv'
                   /\ "disk has room" \in Rules /\ Believed => Believed'
                   /\ {"sums fit", "ranges fit", "only files"} \subseteq Rules /\ CallsReturn => CallsReturn'
<1>1. ASSUME TextNext, UNCHANGED <<disk, promised, stdin>> PROVE Kept
  BY <1>1, TextKeeps, TextDefined DEF DataInv, Believed
<1>2. ASSUME Input PROVE Kept
  BY <1>2, InputKeeps DEF CallsReturn
<1>3. ASSUME NEW p \in Paths, ReadFile(p) PROVE Kept
  BY <1>3, ReadKeeps DEF CallsReturn
<1>4. ASSUME NEW p \in Paths, WriteFile(p) PROVE Kept
  BY <1>4, WriteKeeps DEF CallsReturn
<1>5. ASSUME NEW p \in Paths, AppendFile(p) PROVE Kept
  BY <1>5, AppendKeeps DEF CallsReturn
<1>6. QED
  BY <1>1, <1>2, <1>3, <1>4, <1>5 DEF FilesNext

LEMMA DataInvNext ==
  ASSUME DataInv, [Next]_vars
  PROVE  /\ DataInv'
         /\ "disk has room" \in Rules /\ Believed => Believed'
         /\ {"sums fit", "ranges fit", "only files"} \subseteq Rules /\ CallsReturn => CallsReturn'
<1>1. CASE FilesNext
  BY <1>1, FilesKeep
<1>2. CASE UNCHANGED filesVars
  BY <1>2 DEF filesVars, DataInv, Believed, CallsReturn
<1>3. QED
  BY <1>1, <1>2 DEF Next, vars

LEMMA DataInvInit == Init => DataInv /\ Believed /\ CallsReturn
BY FilesInitHolds DEF Init

-------------------------------------------------------------------------------
(* What is read back *)

(* The beginning of a string, as read_file gives it                        *)
LEMMA BeginningIs ==
  ASSUME NEW d \in Seq(TextChar), NEW l \in Nat, l = Len(d), NEW n \in 0 .. l
  PROVE  UpToNul(SubSeq(d, 1, n)) = SubSeq(d, 1, n) /\ IsPrefix(SubSeq(d, 1, n), d)
<1>1. n \in Int /\ 1 \in Int /\ n <= Len(d)
  OBVIOUS
<1>2. PICK q : q = SubSeq(d, 1, n)
  OBVIOUS
<1>3. q \in Seq(TextChar)
  BY <1>1, <1>2, PartIs
<1>4. \A k \in 1 .. n : d[k] \in TextChar
  <2>1. \A k \in 1 .. n : k \in 1 .. Len(d)
    OBVIOUS
  <2>2. QED
    BY <2>1, ElementOfSeq
<1>5. Len(q) = IF 1 <= n THEN n - 1 + 1 ELSE 0
  BY <1>1, <1>2, <1>4, SubSeqProperties
<1>6. Len(q) = n
  BY <1>5
<1>7. UpToNul(q) = q /\ SubSeq(q, 1, Len(q)) = q
  BY <1>3, WholeString, SubSeqFull
<1>8. QED
  BY <1>1, <1>2, <1>6, <1>7 DEF IsPrefix

LEMMA BelievedIsRead ==
  ASSUME DataInv, Believed
  PROVE  PromisesKept
<1>1. SUFFICES ASSUME NEW p \in Paths, promised[p] # Unknown
               PROVE  /\ promised[p] \in ReadOutcomes(p)
                      /\ \A s \in ReadOutcomes(p) : IsPrefix(s, promised[p])
  BY DEF PromisesKept
<1>2. PICK d \in Seq(TextChar) : d = disk[p] /\ d = promised[p]
  BY <1>1 DEF DataInv, Believed
<1>3. PICK l \in Nat : l = Len(d)
  BY LenProperties
<1>4. IsFile(p)
  BY <1>2, TextIsChars, FilesAssumption DEF IsFile
<1>5. ReadOutcomes(p) = {<<>>} \cup {UpToNul(SubSeq(d, 1, n)) : n \in 0 .. l}
  BY <1>2, <1>3, <1>4 DEF ReadOutcomes
<1>6. d \in ReadOutcomes(p)
  <2>1. SubSeq(d, 1, l) = d
    BY <1>3, SubSeqFull
  <2>2. UpToNul(SubSeq(d, 1, l)) = d
    BY <2>1, WholeString
  <2>3. l \in 0 .. l
    OBVIOUS
  <2>4. QED
    BY <1>5, <2>2, <2>3
<1>7. IsPrefix(<<>>, d)
  <2>1. SubSeq(<<>>, 1, 0) = <<>> /\ SubSeq(d, 1, 0) = <<>>
    BY SubSeqEmpty
  <2>2. Len(<<>>) = 0 /\ 0 <= Len(d)
    BY <1>3
  <2>3. QED
    BY <2>1, <2>2 DEF IsPrefix
<1>8. ASSUME NEW n \in 0 .. l PROVE IsPrefix(UpToNul(SubSeq(d, 1, n)), d)
  BY <1>3, BeginningIs
<1>9. QED
  BY <1>2, <1>5, <1>6, <1>7, <1>8

-------------------------------------------------------------------------------
(* What the specification has *)

(* What README.md says of substring, trim and random_int holds of every    *)
(* string a program comes to and of all the longs it may ask for, whatever *)
(* order its calls come in, and no call does what C does not define,       *)
(* input() with its growing buffer included.  That takes a program that    *)
(* keeps to three rules, for none of which README.md asks: the sum in       *)
(* substring and the range of random_int are longs, and read_file is given *)
(* files.                                                                  *)
THEOREM CallsAsDocumented ==
  ASSUME {"sums fit", "ranges fit", "only files"} \subseteq Rules
  PROVE  Spec => []TextAsDocumented
<1>1. DataInv /\ CallsReturn /\ [Next]_vars => DataInv' /\ CallsReturn'
  BY DataInvNext
<1>2. Init => DataInv /\ CallsReturn
  BY DataInvInit
<1>3. DataInv /\ CallsReturn => TextAsDocumented
  <2>1. SUFFICES ASSUME DataInv, CallsReturn PROVE TextAsDocumented
    OBVIOUS
  <2>2. Len(text) \in Nat
    BY <2>1, LenProperties DEF DataInv
  <2>3. SubstringClamps
    BY <2>2, ClampsHold
  <2>4. TrimCutsSpaces
    BY <2>1, TrimCuts DEF DataInv
  <2>5. RandomInRange
    BY RandomIs
  <2>6. QED
    BY <2>1, <2>3, <2>4, <2>5 DEF TextAsDocumented
<1>4. QED
  BY <1>1, <1>2, <1>3, PTL DEF Spec

(* A file of which the program was told only by true results of write_file *)
(* and append_file has what was written, in that order and no more, when   *)
(* what is buffered is written at fclose: read_file gives it, or the       *)
(* beginning of it when reading stops early.                               *)
THEOREM TrueResultsHold ==
  ASSUME "disk has room" \in Rules
  PROVE  Spec => []PromisesKept
<1>1. DataInv /\ Believed /\ [Next]_vars => DataInv' /\ Believed'
  BY DataInvNext
<1>2. DataInv /\ Believed => PromisesKept
  BY BelievedIsRead
<1>3. Init => DataInv /\ Believed
  BY DataInvInit
<1>4. QED
  BY <1>1, <1>2, <1>3, PTL DEF Spec
================================================================================
