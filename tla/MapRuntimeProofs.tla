--------------------------- MODULE MapRuntimeProofs ---------------------------
(***************************************************************************)
(* Proofs about MapRuntime, for every set of variables, keys, values and   *)
(* addresses: the types for any program, the safety of the memory and the  *)
(* promise of ValueMaps for programs that change a map only through the    *)
(* sole handle of its block.                                               *)
(***************************************************************************)
EXTENDS MapRuntime, SequenceTheorems, FiniteSetTheorems, TLAPS

-------------------------------------------------------------------------------
(* Sequences and least places *)

(* A function on 1 .. n is a sequence of length n. *)
LEMMA Tabulated ==
  ASSUME NEW S, NEW n \in Nat, NEW f, f \in [1 .. n -> S]
  PROVE  f \in Seq(S) /\ Len(f) = n
BY LenProperties, IsASeq

(* The least member of a set of numbers that is not empty is a member. *)
LEMMA MinOfNat ==
  ASSUME NEW S \in SUBSET Nat, S # {}
  PROVE  Min(S) \in S
<1>1. \E x \in S : \A y \in S : ~(<<y, x>> \in OpToRel(<, Nat))
  BY WFMin, NatLessThanWellFounded
<1>2. \A x, y \in Nat : ~(<<y, x>> \in OpToRel(<, Nat)) => x =< y
  BY DEF OpToRel
<1>3. \E x \in S : \A y \in S : x =< y
  BY <1>1, <1>2
<1>4. QED
  BY <1>3 DEF Min

(* The place a scan finds is one of an entry with the key. *)
LEMMA PlaceMatches ==
  ASSUME NEW h, NEW k, h.len \in Nat, Found(h, k)
  PROVE  Place(h, k) \in 1 .. h.len /\ heap[h.entries][Place(h, k)].key = k
<1>1. Matches(h, k) \in SUBSET Nat /\ Matches(h, k) # {}
  BY DEF Matches, Found
<1>2. Place(h, k) \in Matches(h, k)
  BY <1>1, MinOfNat DEF Place
<1>3. QED
  BY <1>2 DEF Matches

-------------------------------------------------------------------------------
(* Types, for any program *)

(* A map has entries from its literal on, and no operation takes one away. *)
HasEntries == \A v \in Vars : InScope(v) => handle[v].len > 0

LEMMA HandleParts ==
  ASSUME TypeOK, NEW v \in Vars, InScope(v)
  PROVE  /\ handle[v] \in Handle
         /\ handle[v].entries \in Addrs /\ handle[v].len \in Nat /\ handle[v].cap \in Nat
BY DEF TypeOK, InScope, Handle

LEMMA BlockType ==
  ASSUME TypeOK, NEW a \in Addrs, Live(a)
  PROVE  heap[a] \in Seq(Cells) /\ Len(heap[a]) \in Nat
BY LenProperties DEF TypeOK, Live

LEMMA ReachedType ==
  ASSUME NEW m, m \in [Addrs -> Seq(Cells) \cup {Free}]
  PROVE  Reached(m) \in [Addrs -> Seq(Cells) \cup {Free}]
BY DEF Reached

LEMMA ReachedStoreType ==
  ASSUME TypeOK, NEW a \in Addrs, NEW c \in Seq(Cells)
  PROVE  Reached([heap EXCEPT ![a] = c]) \in [Addrs -> Seq(Cells) \cup {Free}]
<1>1. [heap EXCEPT ![a] = c] \in [Addrs -> Seq(Cells) \cup {Free}]
  BY DEF TypeOK
<1>2. QED
  BY <1>1, ReachedType

(* Cells that hold members of a set without Uninit are cells of a block.   *)
LEMMA HeldCells ==
  ASSUME TypeOK, NEW a \in Addrs, NEW n \in Nat, n > 0, NEW S, Uninit \notin S, Holds(a, n, S)
  PROVE  /\ Live(a) /\ heap[a] \in Seq(Cells) /\ Len(heap[a]) \in Nat /\ n <= Len(heap[a])
         /\ \A i \in 1 .. n : heap[a][i] \in S
<1>1. \A i \in 1 .. n : Live(a) /\ i <= Len(heap[a]) /\ heap[a][i] \in S
  BY DEF Holds, Cell
<1>2. 1 \in 1 .. n /\ n \in 1 .. n
  OBVIOUS
<1>3. QED
  BY <1>1, <1>2, BlockType

LEMMA ScannedEntries ==
  ASSUME TypeOK, HasEntries, NEW v \in Vars, InScope(v),
         Holds(handle[v].entries, handle[v].len, Entry)
  PROVE  /\ Live(handle[v].entries) /\ heap[handle[v].entries] \in Seq(Cells)
         /\ Len(heap[handle[v].entries]) \in Nat /\ handle[v].len <= Len(heap[handle[v].entries])
         /\ \A i \in 1 .. handle[v].len : heap[handle[v].entries][i] \in Entry
<1>1. /\ handle[v].entries \in Addrs /\ handle[v].len \in Nat /\ handle[v].len > 0
      /\ Uninit \notin Entry
  BY HandleParts, ConstantsAssumption DEF HasEntries
<1>2. QED
  BY <1>1, HeldCells

LEMMA UndefinedType ==
  ASSUME TypeOK, HasEntries, Undefined
  PROVE  TypeOK' /\ HasEntries'
<1>1. <<>> \in Seq(Int \cup Keys)
  OBVIOUS
<1>2. QED
  BY <1>1 DEF TypeOK, HasEntries, Undefined, InScope

LEMMA EvaluateType ==
  ASSUME TypeOK, HasEntries, NEW v \in Vars, NEW r,
         Holds(handle[v].entries, handle[v].len, Entry) => r \in Int \cup Keys, Evaluate(v, r)
  PROVE  TypeOK' /\ HasEntries'
<1>1. CASE Holds(handle[v].entries, handle[v].len, Entry)
  <2>1. result' \in Seq(Int \cup Keys)
    <3>1. r \in Int \cup Keys /\ result' = <<r>>
      BY <1>1 DEF Evaluate
    <3>2. \A q \in Int \cup Keys : <<q>> \in Seq(Int \cup Keys)
      OBVIOUS
    <3>3. QED
      BY <3>1, <3>2
  <2>2. UNCHANGED <<heap, handle, listed, status>>
    BY <1>1 DEF Evaluate
  <2>3. QED
    BY <2>1, <2>2 DEF TypeOK, HasEntries, InScope
<1>2. CASE ~Holds(handle[v].entries, handle[v].len, Entry)
  BY <1>2, UndefinedType DEF Evaluate
<1>3. QED
  BY <1>1, <1>2

LEMMA MapNewType ==
  ASSUME TypeOK, HasEntries, NEW v \in Vars, NEW s \in Literals, MapNew(v, s)
  PROVE  TypeOK' /\ HasEntries'
<1> DEFINE c == [i \in 1 .. Len(s) |-> [key |-> s[i][1], value |-> s[i][2]]]
<1>1. PICK a \in Addrs :
        /\ handle' = [handle EXCEPT ![v] = [entries |-> a, len |-> Len(s), cap |-> Len(s)]]
        /\ heap' = Reached([heap EXCEPT ![a] = c])
  BY DEF MapNew
<1>2. s \in Seq(Keys \X Values) /\ Len(s) \in Nat /\ Len(s) > 0
  <2>1. s \in Seq(Keys \X Values) /\ s # <<>>
    BY ConstantsAssumption
  <2>2. QED
    BY <2>1, EmptySeq, LenProperties
<1>3. c \in Seq(Cells)
  <2>1. \A i \in 1 .. Len(s) : s[i] \in Keys \X Values
    BY <1>2, ElementOfSeq
  <2>2. \A i \in 1 .. Len(s) : [key |-> s[i][1], value |-> s[i][2]] \in Cells
    BY <2>1 DEF Cells, Entry
  <2>3. QED
    BY <1>2, <2>2, Tabulated
<1> HIDE DEF c
<1>4. heap' \in [Addrs -> Seq(Cells) \cup {Free}]
  BY <1>1, <1>3, ReachedStoreType
<1>5. handle' \in [Vars -> Handle \cup {NoMap}] /\ HasEntries'
  BY <1>1, <1>2 DEF TypeOK, HasEntries, Handle, InScope
<1>6. listed' = listed /\ status' = status /\ result' = <<>>
  BY DEF MapNew
<1>7. QED
  BY <1>4, <1>5, <1>6 DEF TypeOK

LEMMA OverwriteType ==
  ASSUME TypeOK, HasEntries, NEW v \in Vars, InScope(v), NEW k \in Keys, NEW x \in Values,
         Holds(handle[v].entries, handle[v].len, Entry), Found(handle[v], k), Overwrite(v, k, x)
  PROVE  TypeOK' /\ HasEntries'
<1> DEFINE a == handle[v].entries
           p == Place(handle[v], k)
           c == [heap[a] EXCEPT ![p].value = x]
<1>1. /\ a \in Addrs /\ heap[a] \in Seq(Cells) /\ p \in 1 .. Len(heap[a]) /\ heap[a][p] \in Entry
  BY HandleParts, ScannedEntries, PlaceMatches
<1>2. c \in Seq(Cells)
  <2>1. [heap[a][p] EXCEPT !.value = x] \in Cells
    BY <1>1 DEF Entry, Cells
  <2> DEFINE e == [heap[a][p] EXCEPT !.value = x]
  <2>2. c = [heap[a] EXCEPT ![p] = e]
    OBVIOUS
  <2> HIDE DEF e, p, a, c
  <2>3. QED
    BY <1>1, <2>1, <2>2, ExceptSeq DEF e
<1>3. heap' = [heap EXCEPT ![a] = c]
  BY DEF Overwrite
<1> HIDE DEF c, a
<1>4. heap' \in [Addrs -> Seq(Cells) \cup {Free}]
  BY <1>1, <1>2, <1>3 DEF TypeOK
<1>5. UNCHANGED <<handle, listed, status>> /\ result' = <<>>
  BY DEF Overwrite
<1>6. QED
  BY <1>4, <1>5 DEF TypeOK, HasEntries, InScope

LEMMA AddInPlaceType ==
  ASSUME TypeOK, HasEntries, NEW v \in Vars, InScope(v), NEW k \in Keys, NEW x \in Values,
         Holds(handle[v].entries, handle[v].len, Entry), AddInPlace(v, k, x)
  PROVE  TypeOK' /\ HasEntries'
<1> DEFINE h == handle[v]
           e == [key |-> k, value |-> x]
           c == [heap[h.entries] EXCEPT ![h.len + 1] = e]
<1>1. /\ h.entries \in Addrs /\ h.len \in Nat /\ h.cap \in Nat /\ h \in Handle
      /\ heap[h.entries] \in Seq(Cells) /\ Len(heap[h.entries]) \in Nat
  BY HandleParts, ScannedEntries
<1>2. CASE h.len < Len(heap[h.entries])
  <2>1. e \in Cells
    BY DEF Cells, Entry
  <2>2. c \in Seq(Cells)
    <3> HIDE DEF e, h
    <3>1. QED
      BY <1>1, <1>2, <2>1, ExceptSeq
  <2>3. /\ handle' = [handle EXCEPT ![v].len = @ + 1]
        /\ heap' = [heap EXCEPT ![h.entries] = c]
        /\ result' = <<>> /\ UNCHANGED <<listed, status>>
    BY <1>2 DEF AddInPlace
  <2>4. heap' \in [Addrs -> Seq(Cells) \cup {Free}]
    <3> HIDE DEF c
    <3>1. QED
      BY <1>1, <2>2, <2>3 DEF TypeOK
  <2>5. handle' \in [Vars -> Handle \cup {NoMap}] /\ HasEntries'
    BY <1>1, <2>3 DEF TypeOK, HasEntries, Handle, InScope
  <2>6. QED
    BY <2>3, <2>4, <2>5 DEF TypeOK
<1>3. CASE ~(h.len < Len(heap[h.entries]))
  BY <1>3, UndefinedType DEF AddInPlace
<1>4. QED
  BY <1>2, <1>3

(* The block of h after realloc to n cells and the write of a new entry e. *)
Grown(h, n, e) ==
  [i \in 1 .. n |-> IF i <= h.len THEN heap[h.entries][i] ELSE IF i = h.len + 1 THEN e ELSE Uninit]

DoubledCap(cap) == IF cap = 0 THEN 4 ELSE 2 * cap

LEMMA AddGrowIs ==
  ASSUME NEW v, NEW k, NEW x, AddGrow(v, k, x)
  PROVE  /\ handle[v].len = handle[v].cap
         /\ result' = <<>> /\ UNCHANGED <<listed, status>>
         /\ \E a \in Addrs :
              /\ a = handle[v].entries \/ ~Live(a)
              /\ handle' = [handle EXCEPT ![v] = [entries |-> a, len |-> handle[v].len + 1,
                                                  cap |-> DoubledCap(handle[v].cap)]]
              /\ heap' = Reached([heap EXCEPT ![handle[v].entries] = Free,
                                    ![a] = Grown(handle[v], DoubledCap(handle[v].cap),
                                                 [key |-> k, value |-> x])])
BY DEF AddGrow, Grown, DoubledCap

LEMMA GrownType ==
  ASSUME TypeOK, HasEntries, NEW v \in Vars, InScope(v), NEW e \in Entry,
         Holds(handle[v].entries, handle[v].len, Entry), handle[v].len = handle[v].cap
  PROVE  /\ DoubledCap(handle[v].cap) \in Nat
         /\ handle[v].len < DoubledCap(handle[v].cap)
         /\ Grown(handle[v], DoubledCap(handle[v].cap), e) \in Seq(Cells)
         /\ Len(Grown(handle[v], DoubledCap(handle[v].cap), e)) = DoubledCap(handle[v].cap)
<1> DEFINE h == handle[v]
           n == DoubledCap(h.cap)
<1>1. h.len \in Nat /\ h.cap \in Nat /\ h.len > 0
  BY HandleParts DEF HasEntries
<1>2. n \in Nat /\ h.len < n
  BY <1>1 DEF DoubledCap
<1>3. \A i \in 1 .. h.len : heap[h.entries][i] \in Entry
  BY ScannedEntries
<1> HIDE DEF n, h
<1>4. \A i \in 1 .. n : Grown(h, n, e)[i] \in Cells
  BY <1>1, <1>2, <1>3 DEF Grown, Cells
<1>5. Grown(h, n, e) \in [1 .. n -> Cells]
  BY <1>4 DEF Grown
<1>6. Grown(h, n, e) \in Seq(Cells) /\ Len(Grown(h, n, e)) = n
  BY <1>2, <1>5, Tabulated
<1>7. QED
  BY <1>2, <1>6 DEF n, h

LEMMA AddGrowType ==
  ASSUME TypeOK, HasEntries, NEW v \in Vars, InScope(v), NEW k \in Keys, NEW x \in Values,
         Holds(handle[v].entries, handle[v].len, Entry), AddGrow(v, k, x)
  PROVE  TypeOK' /\ HasEntries'
<1> DEFINE n == DoubledCap(handle[v].cap)
           e == [key |-> k, value |-> x]
           c == Grown(handle[v], n, e)
<1>1. e \in Entry
  BY DEF Entry
<1>2. n \in Nat /\ handle[v].len < n /\ c \in Seq(Cells)
  BY <1>1, AddGrowIs, GrownType
<1>3. handle[v].entries \in Addrs /\ handle[v].len \in Nat
  BY HandleParts
<1>4. PICK a \in Addrs :
        /\ handle' = [handle EXCEPT ![v] = [entries |-> a, len |-> handle[v].len + 1, cap |-> n]]
        /\ heap' = Reached([heap EXCEPT ![handle[v].entries] = Free, ![a] = c])
  BY AddGrowIs
<1> HIDE DEF n, c, e
<1>5. heap' \in [Addrs -> Seq(Cells) \cup {Free}]
  <2>1. [heap EXCEPT ![handle[v].entries] = Free, ![a] = c] \in [Addrs -> Seq(Cells) \cup {Free}]
    BY <1>2, <1>3 DEF TypeOK
  <2>2. QED
    BY <1>4, <2>1, ReachedType
<1>6. handle' \in [Vars -> Handle \cup {NoMap}] /\ HasEntries'
  BY <1>2, <1>3, <1>4 DEF TypeOK, HasEntries, Handle, InScope
<1>7. listed' = listed /\ status' = status /\ result' = <<>>
  BY DEF AddGrow
<1>8. QED
  BY <1>5, <1>6, <1>7 DEF TypeOK

LEMMA MapSetType ==
  ASSUME TypeOK, HasEntries, NEW v \in Vars, NEW k \in Keys, NEW x \in Values, MapSet(v, k, x)
  PROVE  TypeOK' /\ HasEntries'
<1>1. InScope(v)
  BY DEF MapSet
<1>2. CASE ~Holds(handle[v].entries, handle[v].len, Entry)
  BY <1>2, UndefinedType DEF MapSet
<1>3. CASE Holds(handle[v].entries, handle[v].len, Entry)
  <2>1. (Found(handle[v], k) /\ Overwrite(v, k, x)) \/ AddInPlace(v, k, x) \/ AddGrow(v, k, x)
    BY <1>3 DEF MapSet
  <2>2. QED
    BY <1>1, <1>3, <2>1, OverwriteType, AddInPlaceType, AddGrowType
<1>4. QED
  BY <1>2, <1>3

(* The value of a key, as Place finds it. *)
LEMMA PlaceEntry ==
  ASSUME TypeOK, HasEntries, NEW v \in Vars, InScope(v), NEW k, Found(handle[v], k),
         Holds(handle[v].entries, handle[v].len, Entry)
  PROVE  heap[handle[v].entries][Place(handle[v], k)] \in Entry
BY HandleParts, ScannedEntries, PlaceMatches

LEMMA ExpressionType ==
  ASSUME TypeOK, HasEntries, NEW v \in Vars, NEW k,
         MapGet(v, k) \/ MapHas(v, k) \/ MapLen(v)
  PROVE  TypeOK' /\ HasEntries'
<1>1. CASE MapGet(v, k)
  <2> DEFINE r == IF Found(handle[v], k) THEN heap[handle[v].entries][Place(handle[v], k)].value ELSE Zero
  <2>1. InScope(v) /\ Evaluate(v, r)
    BY <1>1 DEF MapGet
  <2>2. Holds(handle[v].entries, handle[v].len, Entry) => r \in Int \cup Keys
    BY <2>1, PlaceEntry, ConstantsAssumption DEF Entry
  <2> HIDE DEF r
  <2>3. QED
    BY <2>1, <2>2, EvaluateType
<1>2. CASE MapHas(v, k)
  <2> DEFINE r == IF Found(handle[v], k) THEN 1 ELSE 0
  <2>1. Evaluate(v, r) /\ r \in Int \cup Keys
    BY <1>2 DEF MapHas
  <2> HIDE DEF r
  <2>2. QED
    BY <2>1, EvaluateType
<1>3. CASE MapLen(v)
  <2>1. handle[v].len \in Int \cup Keys
    BY <1>3, HandleParts DEF MapLen
  <2>2. result' = <<handle[v].len>> /\ UNCHANGED <<heap, handle, listed, status>>
    BY <1>3 DEF MapLen
  <2>3. \A q \in Int \cup Keys : <<q>> \in Seq(Int \cup Keys)
    OBVIOUS
  <2>4. QED
    BY <2>1, <2>2, <2>3 DEF TypeOK, HasEntries, InScope
<1>4. QED
  BY <1>1, <1>2, <1>3

LEMMA MapKeysType ==
  ASSUME TypeOK, HasEntries, NEW v \in Vars, MapKeys(v)
  PROVE  TypeOK' /\ HasEntries'
<1> DEFINE h == handle[v]
           c == [i \in 1 .. h.len |-> heap[h.entries][i].key]
<1>1. InScope(v) /\ h.len \in Nat
  BY HandleParts DEF MapKeys
<1>2. CASE ~Holds(h.entries, h.len, Entry)
  BY <1>2, UndefinedType DEF MapKeys
<1>3. CASE Holds(h.entries, h.len, Entry)
  <2>1. result' = <<>> /\ handle' = handle /\ status' = status
    BY <1>3 DEF MapKeys
  <2>2. PICK a \in Addrs : /\ listed' = [data |-> a, len |-> h.len]
                          /\ heap' = Reached([heap EXCEPT ![a] = c])
    BY <1>3 DEF MapKeys
  <2>3. \A i \in 1 .. h.len : c[i] \in Cells
    BY <1>1, <1>3, ScannedEntries DEF Entry, Cells
  <2>4. c \in Seq(Cells)
    BY <1>1, <2>3, Tabulated
  <2> HIDE DEF c, h
  <2>5. heap' \in [Addrs -> Seq(Cells) \cup {Free}]
    BY <2>2, <2>4, ReachedStoreType
  <2>6. listed' \in KeyList \cup {NoMap}
    BY <1>1, <2>2 DEF KeyList
  <2>7. QED
    BY <2>1, <2>5, <2>6 DEF TypeOK, HasEntries, InScope
<1>4. QED
  BY <1>2, <1>3

LEMMA KeyAtType ==
  ASSUME TypeOK, HasEntries, NEW i, KeyAt(i)
  PROVE  TypeOK' /\ HasEntries'
<1>1. /\ i \in 1 .. listed.len
      /\ listed \in KeyList /\ listed.data \in Addrs /\ listed.len \in Nat
  BY DEF KeyAt, TypeOK, KeyList
<1>2. CASE ~Holds(listed.data, i, Keys)
  BY <1>2, UndefinedType DEF KeyAt
<1>3. CASE Holds(listed.data, i, Keys)
  <2>1. i \in Nat /\ i > 0 /\ Uninit \notin Keys
    BY <1>1, ConstantsAssumption
  <2>2. heap[listed.data][i] \in Keys
    BY <1>1, <1>3, <2>1, HeldCells
  <2>3. result' = <<heap[listed.data][i]>> /\ UNCHANGED <<heap, handle, listed, status>>
    BY <1>3 DEF KeyAt
  <2>4. \A q \in Int \cup Keys : <<q>> \in Seq(Int \cup Keys)
    OBVIOUS
  <2>5. QED
    BY <2>2, <2>3, <2>4 DEF TypeOK, HasEntries, InScope
<1>4. QED
  BY <1>2, <1>3

LEMMA HandleMovesType ==
  ASSUME TypeOK, HasEntries, NEW v \in Vars, NEW w \in Vars, Copy(v, w) \/ Drop(v)
  PROVE  TypeOK' /\ HasEntries'
<1>1. heap' \in [Addrs -> Seq(Cells) \cup {Free}]
  BY ReachedType DEF TypeOK, Copy, Drop
<1>2. handle' \in [Vars -> Handle \cup {NoMap}] /\ HasEntries'
  BY DEF TypeOK, HasEntries, InScope, Copy, Drop
<1>3. listed' \in KeyList \cup {NoMap} /\ status' = status /\ result' = <<>>
  BY DEF TypeOK, Copy, Drop
<1>4. QED
  BY <1>1, <1>2, <1>3 DEF TypeOK

LEMMA TypeNext ==
  ASSUME TypeOK, HasEntries, [Next]_vars
  PROVE  TypeOK' /\ HasEntries'
<1>1. CASE UNCHANGED vars
  BY <1>1 DEF vars, TypeOK, HasEntries, InScope
<1>2. ASSUME NEW v \in Vars, NEW s \in Literals, MapNew(v, s)
      PROVE  TypeOK' /\ HasEntries'
  BY <1>2, MapNewType
<1>3. ASSUME NEW v \in Vars, NEW w \in Vars, Copy(v, w) \/ Drop(v)
      PROVE  TypeOK' /\ HasEntries'
  BY <1>3, HandleMovesType
<1>4. ASSUME NEW v \in Vars, NEW k \in Keys, MapGet(v, k) \/ MapHas(v, k)
      PROVE  TypeOK' /\ HasEntries'
  BY <1>4, ExpressionType
<1>5. ASSUME NEW v \in Vars, MapLen(v)
      PROVE  TypeOK' /\ HasEntries'
  BY <1>5, ExpressionType
<1>6. ASSUME NEW v \in Vars, MapKeys(v)
      PROVE  TypeOK' /\ HasEntries'
  BY <1>6, MapKeysType
<1>7. ASSUME NEW v \in Vars, NEW k \in Keys, NEW x \in Values, MapSet(v, k, x)
      PROVE  TypeOK' /\ HasEntries'
  BY <1>7, MapSetType
<1>8. ASSUME NEW i, KeyAt(i)
      PROVE  TypeOK' /\ HasEntries'
  BY <1>8, KeyAtType
<1>9. CASE DropKeys
  <2>1. listed' = NoMap /\ status' = status /\ result' = <<>> /\ handle' = handle
    BY <1>9 DEF DropKeys
  <2>2. heap' \in [Addrs -> Seq(Cells) \cup {Free}]
    BY <1>9, ReachedType DEF TypeOK, DropKeys
  <2>3. QED
    BY <2>1, <2>2 DEF TypeOK, HasEntries, InScope
<1>10. QED
  BY <1>1, <1>2, <1>3, <1>4, <1>5, <1>6, <1>7, <1>8, <1>9 DEF Next

LEMMA TypeInit ==
  ASSUME Init
  PROVE  TypeOK /\ HasEntries
BY DEF Init, TypeOK, HasEntries, InScope

(* The memory, the handles and the list of keys of any program keep their  *)
(* shape.                                                                  *)
THEOREM TypeCorrect == Spec => []TypeOK
<1>1. Init => TypeOK /\ HasEntries
  BY TypeInit
<1>2. TypeOK /\ HasEntries /\ [Next]_vars => (TypeOK /\ HasEntries)'
  BY TypeNext
<1>3. QED
  BY <1>1, <1>2, PTL DEF Spec

-------------------------------------------------------------------------------
(* The memory of a program that adds to a map only through the sole handle *)
(* of its block                                                            *)

(* A handle h whose block is block, and a list of keys l whose block is block. *)
MapSound(h, block) ==
  /\ block # Free
  /\ h.len <= h.cap /\ h.cap <= Len(block)
  /\ \A i \in 1 .. h.len : block[i] \in Entry

ListSound(l, block) ==
  /\ block # Free
  /\ l.len <= Len(block)
  /\ \A i \in 1 .. l.len : block[i] \in Keys

MapsSound == \A v \in Vars : InScope(v) => MapSound(handle[v], heap[handle[v].entries])

(* The list of keys has a block of its own. *)
ListedSound ==
  listed # NoMap => /\ ListSound(listed, heap[listed.data])
                    /\ \A v \in Vars : InScope(v) => handle[v].entries # listed.data

IInv == TypeOK /\ HasEntries /\ MapsSound /\ ListedSound /\ status # "undefined"

(* Only v's handle and block change: they become h and c.                  *)
OneMapChanges(v, h, c) ==
  /\ handle' = [handle EXCEPT ![v] = h] /\ listed' = listed
  /\ heap'[h.entries] = c
  /\ \A w \in Vars \ {v} : InScope(w) => heap'[handle[w].entries] = heap[handle[w].entries]
  /\ listed # NoMap => listed.data # h.entries /\ heap'[listed.data] = heap[listed.data]

LEMMA ChangeSound ==
  ASSUME TypeOK, MapsSound, ListedSound, NEW v \in Vars, NEW h, h # NoMap, NEW c,
         OneMapChanges(v, h, c), MapSound(h, c)
  PROVE  MapsSound' /\ ListedSound'
<1>1. \A w \in Vars : handle'[w] = IF w = v THEN h ELSE handle[w]
  BY DEF OneMapChanges, TypeOK
<1>2. MapsSound'
  BY <1>1 DEF OneMapChanges, MapsSound, InScope
<1>3. ListedSound'
  BY <1>1 DEF OneMapChanges, ListedSound, InScope
<1>4. QED
  BY <1>2, <1>3

(* No map and no list of keys names a block that is not there. *)
LEMMA FreshUnnamed ==
  ASSUME MapsSound, ListedSound, NEW a, ~Live(a)
  PROVE  /\ \A w \in Vars : InScope(w) => handle[w].entries # a
         /\ listed # NoMap => listed.data # a
BY DEF MapsSound, ListedSound, MapSound, ListSound, Live

(* What a step that ends in Reached leaves of the blocks named after it. *)
LEMMA ReachedKeeps ==
  ASSUME NEW m, heap' = Reached(m)
  PROVE  /\ \A w \in Vars : handle'[w] # NoMap /\ handle'[w].entries \in Addrs =>
              heap'[handle'[w].entries] = m[handle'[w].entries]
         /\ listed' # NoMap /\ listed'.data \in Addrs => heap'[listed'.data] = m[listed'.data]
BY DEF Reached

LEMMA ListedParts ==
  ASSUME TypeOK, listed # NoMap
  PROVE  listed.data \in Addrs /\ listed.len \in Nat
BY DEF TypeOK, KeyList

(* A block stored at an address that was free, or that only v named. *)
LEMMA StoreChanges ==
  ASSUME TypeOK, MapsSound, ListedSound, NEW v \in Vars, NEW h \in Handle, NEW c,
         handle' = [handle EXCEPT ![v] = h], listed' = listed,
         NEW m \in [Addrs -> Seq(Cells) \cup {Free}], heap' = Reached(m), m[h.entries] = c,
         \A w \in Vars \ {v} : InScope(w) => m[handle[w].entries] = heap[handle[w].entries],
         listed # NoMap => listed.data # h.entries /\ m[listed.data] = heap[listed.data]
  PROVE  OneMapChanges(v, h, c)
<1>1. h # NoMap /\ h.entries \in Addrs
  BY ConstantsAssumption DEF Handle
<1>2. \A w \in Vars : handle'[w] = IF w = v THEN h ELSE handle[w]
  BY DEF TypeOK
<1>3. heap'[h.entries] = c
  BY <1>1, <1>2, ReachedKeeps
<1>4. ASSUME NEW w \in Vars \ {v}, InScope(w)
      PROVE  heap'[handle[w].entries] = heap[handle[w].entries]
  BY <1>2, <1>4, HandleParts, ReachedKeeps DEF InScope
<1>5. ASSUME listed # NoMap
      PROVE  listed.data # h.entries /\ heap'[listed.data] = heap[listed.data]
  BY <1>5, ListedParts, ReachedKeeps
<1>6. QED
  BY <1>3, <1>4, <1>5 DEF OneMapChanges

(* The entries a literal becomes *)
LiteralCells(s) == [i \in 1 .. Len(s) |-> [key |-> s[i][1], value |-> s[i][2]]]

LEMMA LiteralIs ==
  ASSUME NEW s \in Literals
  PROVE  /\ Len(s) \in Nat /\ Len(s) > 0
         /\ \A i \in 1 .. Len(s) : s[i] \in Keys \X Values
         /\ LiteralCells(s) \in Seq(Cells) /\ Len(LiteralCells(s)) = Len(s)
         /\ \A i \in 1 .. Len(s) : LiteralCells(s)[i] \in Entry
<1>1. s \in Seq(Keys \X Values) /\ s # <<>>
  BY ConstantsAssumption
<1>2. Len(s) \in Nat /\ Len(s) > 0
  BY <1>1, EmptySeq, LenProperties
<1>3. \A i \in 1 .. Len(s) : s[i] \in Keys \X Values
  BY <1>1, ElementOfSeq
<1>4. \A i \in 1 .. Len(s) : LiteralCells(s)[i] \in Entry
  BY <1>3 DEF LiteralCells, Entry
<1>5. LiteralCells(s) \in [1 .. Len(s) -> Cells]
  BY <1>4 DEF LiteralCells, Cells
<1>6. LiteralCells(s) \in Seq(Cells) /\ Len(LiteralCells(s)) = Len(s)
  BY <1>2, <1>5, Tabulated
<1>7. QED
  BY <1>2, <1>3, <1>4, <1>6

LEMMA MapNewChanges ==
  ASSUME TypeOK, MapsSound, ListedSound, NEW v \in Vars, NEW s \in Literals, MapNew(v, s)
  PROVE  \E h \in Handle : /\ OneMapChanges(v, h, LiteralCells(s)) /\ MapSound(h, LiteralCells(s))
                           /\ h.len = Len(s)
<1> DEFINE c == LiteralCells(s)
<1>1. PICK a \in Addrs :
        /\ ~Live(a)
        /\ handle' = [handle EXCEPT ![v] = [entries |-> a, len |-> Len(s), cap |-> Len(s)]]
        /\ heap' = Reached([heap EXCEPT ![a] = c])
  BY DEF MapNew, LiteralCells
<1>2. /\ Len(s) \in Nat /\ c \in Seq(Cells) /\ Len(c) = Len(s)
      /\ \A i \in 1 .. Len(s) : c[i] \in Entry
  BY LiteralIs
<1> DEFINE h == [entries |-> a, len |-> Len(s), cap |-> Len(s)]
           m == [heap EXCEPT ![a] = c]
<1>3. h \in Handle /\ h.entries = a /\ h.len = Len(s) /\ h.cap = Len(s)
  BY <1>2 DEF Handle
<1>4. listed' = listed
  BY DEF MapNew
<1> HIDE DEF c
<1>5. m \in [Addrs -> Seq(Cells) \cup {Free}] /\ m[a] = c
  BY <1>2 DEF TypeOK
<1>6. /\ \A w \in Vars \ {v} : InScope(w) => m[handle[w].entries] = heap[handle[w].entries]
      /\ listed # NoMap => listed.data # a /\ m[listed.data] = heap[listed.data]
  BY <1>1, FreshUnnamed, HandleParts, ListedParts DEF TypeOK
<1> HIDE DEF m
<1>7. OneMapChanges(v, h, c)
  BY <1>1, <1>3, <1>4, <1>5, <1>6, StoreChanges DEF m
<1>8. MapSound(h, c)
  BY <1>2, <1>3, ConstantsAssumption DEF MapSound
<1>9. QED
  BY <1>3, <1>7, <1>8 DEF c

LEMMA CopyChanges ==
  ASSUME TypeOK, MapsSound, ListedSound, NEW v \in Vars, NEW w \in Vars, Copy(v, w)
  PROVE  /\ InScope(w)
         /\ OneMapChanges(v, handle[w], heap[handle[w].entries])
         /\ MapSound(handle[w], heap[handle[w].entries])
<1>1. /\ InScope(w) /\ listed' = listed
      /\ handle' = [handle EXCEPT ![v] = handle[w]] /\ heap' = Reached(heap)
  BY DEF Copy
<1>2. handle[w] \in Handle /\ MapSound(handle[w], heap[handle[w].entries])
  BY <1>1, HandleParts DEF MapsSound
<1>3. listed # NoMap => listed.data # handle[w].entries
  BY <1>1 DEF ListedSound
<1>4. heap \in [Addrs -> Seq(Cells) \cup {Free}]
  BY DEF TypeOK
<1>5. OneMapChanges(v, handle[w], heap[handle[w].entries])
  BY <1>1, <1>2, <1>3, <1>4, StoreChanges
<1>6. QED
  BY <1>1, <1>2, <1>5

(* The cells of v's block with the value in cell p set to x. *)
Overwritten(b, p, x) == [b EXCEPT ![p].value = x]

LEMMA OverwrittenIs ==
  ASSUME NEW b \in Seq(Cells), NEW p \in 1 .. Len(b), b[p] \in Entry, NEW x \in Values
  PROVE  /\ Overwritten(b, p, x) \in Seq(Cells) /\ Len(Overwritten(b, p, x)) = Len(b)
         /\ \A i \in 1 .. Len(b) :
              Overwritten(b, p, x)[i] = IF i = p THEN [key |-> b[p].key, value |-> x] ELSE b[i]
<1> DEFINE e == [b[p] EXCEPT !.value = x]
<1>1. e = [key |-> b[p].key, value |-> x] /\ e \in Cells
  BY DEF Entry, Cells
<1>2. Overwritten(b, p, x) = [b EXCEPT ![p] = e]
  BY DEF Overwritten
<1> HIDE DEF e
<1>3. /\ [b EXCEPT ![p] = e] \in Seq(Cells) /\ Len([b EXCEPT ![p] = e]) = Len(b)
      /\ \A i \in 1 .. Len(b) : [b EXCEPT ![p] = e][i] = IF i = p THEN e ELSE b[i]
  BY <1>1, ExceptSeq
<1>4. QED
  BY <1>1, <1>2, <1>3

LEMMA OverwriteIs ==
  ASSUME TypeOK, HasEntries, MapsSound, NEW v \in Vars, InScope(v),
         NEW k \in Keys, NEW x \in Values, Found(handle[v], k), Overwrite(v, k, x)
  PROVE  LET h == handle[v]
             c == Overwritten(heap[h.entries], Place(h, k), x)
         IN  /\ heap' = [heap EXCEPT ![h.entries] = c] /\ handle' = handle /\ listed' = listed
             /\ c # Free /\ Len(c) = Len(heap[h.entries])
             /\ \A i \in 1 .. Len(heap[h.entries]) : heap[h.entries][i] \in Entry => c[i] \in Entry
<1> DEFINE h == handle[v]
           a == h.entries
           p == Place(h, k)
           c == Overwritten(heap[a], p, x)
<1>1. /\ h \in Handle /\ a \in Addrs /\ h.len \in Nat /\ h.cap \in Nat /\ MapSound(h, heap[a])
      /\ heap[a] \in Seq(Cells) /\ Len(heap[a]) \in Nat
  BY HandleParts, BlockType DEF MapsSound, MapSound, Live
<1>2. p \in 1 .. h.len
  BY <1>1, PlaceMatches
<1>3. p \in 1 .. Len(heap[a]) /\ heap[a][p] \in Entry
  BY <1>1, <1>2 DEF MapSound
<1>4. /\ heap' = [heap EXCEPT ![a] = c] /\ handle' = handle /\ listed' = listed
  BY DEF Overwrite, Overwritten
<1>5. /\ c \in Seq(Cells) /\ Len(c) = Len(heap[a])
      /\ \A i \in 1 .. Len(heap[a]) : c[i] = IF i = p THEN [key |-> heap[a][p].key, value |-> x] ELSE heap[a][i]
  BY <1>1, <1>3, OverwrittenIs
<1> HIDE DEF c, p
<1>6. \A i \in 1 .. Len(heap[a]) : heap[a][i] \in Entry => c[i] \in Entry
  BY <1>3, <1>5 DEF Entry
<1>7. QED
  BY <1>4, <1>5, <1>6, ConstantsAssumption DEF c, p

(* A block that is overwritten stays sound for every handle that names it. *)
LEMMA OverwriteSound ==
  ASSUME TypeOK, HasEntries, MapsSound, ListedSound, NEW v \in Vars, InScope(v),
         NEW k \in Keys, NEW x \in Values, Found(handle[v], k), Overwrite(v, k, x)
  PROVE  MapsSound' /\ ListedSound'
<1> DEFINE a == handle[v].entries
           c == Overwritten(heap[a], Place(handle[v], k), x)
<1>1. /\ heap' = [heap EXCEPT ![a] = c] /\ handle' = handle /\ listed' = listed
      /\ c # Free /\ Len(c) = Len(heap[a])
      /\ \A i \in 1 .. Len(heap[a]) : heap[a][i] \in Entry => c[i] \in Entry
  BY OverwriteIs
<1>2. a \in Addrs /\ heap \in [Addrs -> Seq(Cells) \cup {Free}]
  BY HandleParts DEF TypeOK
<1> HIDE DEF c, a
<1>3. ASSUME NEW w \in Vars, InScope(w)
      PROVE  MapSound(handle[w], heap'[handle[w].entries])
  <2>1. /\ MapSound(handle[w], heap[handle[w].entries])
        /\ handle[w].entries \in Addrs /\ handle[w].len \in Nat /\ handle[w].cap \in Nat
    BY <1>3, HandleParts DEF MapsSound
  <2>2. CASE handle[w].entries # a
    BY <1>1, <1>2, <2>1, <2>2
  <2>3. CASE handle[w].entries = a
    <3>1. heap'[handle[w].entries] = c
      BY <1>1, <1>2, <2>3
    <3>2. \A i \in 1 .. handle[w].len : i \in 1 .. Len(heap[a]) /\ heap[a][i] \in Entry
      BY <1>2, <2>1, <2>3, BlockType DEF MapSound, Live
    <3>3. handle[w].len <= handle[w].cap /\ handle[w].cap <= Len(c)
      BY <1>1, <2>1, <2>3 DEF MapSound
    <3>4. MapSound(handle[w], c)
      BY <1>1, <3>2, <3>3 DEF MapSound
    <3>5. QED
      BY <3>1, <3>4
  <2>4. QED
    BY <2>2, <2>3
<1>4. listed # NoMap => heap'[listed.data] = heap[listed.data]
  BY <1>1, <1>2, ListedParts DEF ListedSound, a
<1>5. QED
  BY <1>1, <1>3, <1>4 DEF MapsSound, ListedSound, InScope

LEMMA OverwriteChanges ==
  ASSUME TypeOK, HasEntries, MapsSound, ListedSound, NEW v \in Vars, InScope(v), Sole(v),
         NEW k \in Keys, NEW x \in Values, Found(handle[v], k), Overwrite(v, k, x)
  PROVE  LET h == handle[v]
             c == Overwritten(heap[h.entries], Place(h, k), x)
         IN  OneMapChanges(v, h, c) /\ MapSound(h, c)
<1> DEFINE h == handle[v]
           a == h.entries
           c == Overwritten(heap[a], Place(h, k), x)
<1>1. /\ heap' = [heap EXCEPT ![a] = c] /\ handle' = handle /\ listed' = listed
  BY OverwriteIs
<1>2. a \in Addrs
  BY HandleParts
<1> HIDE DEF c
<1>3. handle' = [handle EXCEPT ![v] = h]
  BY <1>1 DEF TypeOK
<1>4. heap'[a] = c
  BY <1>1, <1>2 DEF TypeOK
<1>5. \A w \in Vars \ {v} : InScope(w) => heap'[handle[w].entries] = heap[handle[w].entries]
  BY <1>1, HandleParts DEF TypeOK, Sole
<1>6. listed # NoMap => listed.data # a /\ heap'[listed.data] = heap[listed.data]
  BY <1>1, ListedParts DEF TypeOK, ListedSound
<1>7. MapsSound'
  BY OverwriteSound
<1>8. MapSound(h, c)
  BY <1>1, <1>4, <1>7 DEF MapsSound, InScope
<1>9. QED
  BY <1>1, <1>3, <1>4, <1>5, <1>6, <1>8 DEF OneMapChanges, c

LEMMA AddInPlaceChanges ==
  ASSUME TypeOK, HasEntries, MapsSound, ListedSound, NEW v \in Vars, InScope(v), Sole(v),
         NEW k \in Keys, NEW x \in Values, AddInPlace(v, k, x)
  PROVE  \E h \in Handle, c \in Seq(Cells) :
           /\ OneMapChanges(v, h, c) /\ MapSound(h, c) /\ h.len = handle[v].len + 1
           /\ \A i \in 1 .. handle[v].len : c[i] = heap[handle[v].entries][i]
           /\ c[handle[v].len + 1] = [key |-> k, value |-> x]
<1> DEFINE g == handle[v]
           a == g.entries
           e == [key |-> k, value |-> x]
           c == [heap[a] EXCEPT ![g.len + 1] = e]
           h == [g EXCEPT !.len = @ + 1]
<1>1. /\ g \in Handle /\ a \in Addrs /\ g.len \in Nat /\ g.cap \in Nat /\ MapSound(g, heap[a])
      /\ heap[a] \in Seq(Cells) /\ Len(heap[a]) \in Nat
  BY HandleParts, BlockType DEF MapsSound, MapSound, Live
<1>2. g.len # g.cap
  BY DEF AddInPlace
<1>3. g.len < g.cap /\ g.cap <= Len(heap[a])
  BY <1>1, <1>2 DEF MapSound
<1>4. /\ handle' = [handle EXCEPT ![v] = h] /\ heap' = [heap EXCEPT ![a] = c]
      /\ listed' = listed
  BY <1>1, <1>3 DEF AddInPlace, TypeOK
<1>5. /\ h \in Handle /\ h.entries = a /\ h.len = g.len + 1 /\ h.cap = g.cap
  BY <1>1 DEF Handle
<1>6. e \in Entry /\ e \in Cells
  BY DEF Entry, Cells
<1>7. /\ c \in Seq(Cells) /\ Len(c) = Len(heap[a])
      /\ \A i \in 1 .. Len(heap[a]) : c[i] = IF i = g.len + 1 THEN e ELSE heap[a][i]
  <2> HIDE DEF e, g, a
  <2>1. g.len + 1 \in 1 .. Len(heap[a])
    BY <1>1, <1>3
  <2>2. QED
    BY <1>1, <1>6, <2>1, ExceptSeq
<1> HIDE DEF c, h, e
<1>8. /\ \A i \in 1 .. g.len : c[i] = heap[a][i]
      /\ c[g.len + 1] = e
  <2>1. /\ \A i \in 1 .. g.len : i \in 1 .. Len(heap[a]) /\ i # g.len + 1
        /\ g.len + 1 \in 1 .. Len(heap[a])
    BY <1>1, <1>3
  <2> HIDE DEF g, a
  <2>2. QED
    BY <1>7, <2>1
<1>9. MapSound(h, c)
  <2>1. \A i \in 1 .. h.len : c[i] \in Entry
    <3>1. \A i \in 1 .. g.len : heap[a][i] \in Entry
      BY <1>1 DEF MapSound
    <3>2. \A i \in 1 .. h.len : i \in 1 .. g.len \/ i = g.len + 1
      BY <1>1, <1>5
    <3> HIDE DEF g, a
    <3>3. QED
      BY <1>6, <1>8, <3>1, <3>2
  <2>2. h.len <= h.cap /\ h.cap <= Len(c)
    BY <1>1, <1>3, <1>5, <1>7
  <2>3. QED
    BY <1>7, <2>1, <2>2, ConstantsAssumption DEF MapSound
<1>10. OneMapChanges(v, h, c)
  <2>1. heap'[h.entries] = c
    BY <1>1, <1>4, <1>5 DEF TypeOK
  <2>2. \A w \in Vars \ {v} : InScope(w) => heap'[handle[w].entries] = heap[handle[w].entries]
    BY <1>4, HandleParts DEF TypeOK, Sole
  <2>3. listed # NoMap => listed.data # h.entries /\ heap'[listed.data] = heap[listed.data]
    BY <1>4, <1>5, ListedParts DEF TypeOK, ListedSound
  <2>4. QED
    BY <1>4, <2>1, <2>2, <2>3 DEF OneMapChanges
<1>11. QED
  BY <1>5, <1>7, <1>8, <1>9, <1>10 DEF e

LEMMA AddGrowChanges ==
  ASSUME TypeOK, HasEntries, MapsSound, ListedSound, NEW v \in Vars, InScope(v), Sole(v),
         NEW k \in Keys, NEW x \in Values, AddGrow(v, k, x),
         Holds(handle[v].entries, handle[v].len, Entry)
  PROVE  \E h \in Handle, c \in Seq(Cells) :
           /\ OneMapChanges(v, h, c) /\ MapSound(h, c) /\ h.len = handle[v].len + 1
           /\ \A i \in 1 .. handle[v].len : c[i] = heap[handle[v].entries][i]
           /\ c[handle[v].len + 1] = [key |-> k, value |-> x]
<1> DEFINE g == handle[v]
           b == g.entries
           n == DoubledCap(g.cap)
           e == [key |-> k, value |-> x]
           c == Grown(g, n, e)
<1>1. e \in Entry
  BY DEF Entry
<1>2. n \in Nat /\ g.len < n /\ c \in Seq(Cells) /\ Len(c) = n
  BY <1>1, AddGrowIs, GrownType
<1>3. /\ g.entries \in Addrs /\ g.len \in Nat /\ MapSound(g, heap[b])
  BY HandleParts DEF MapsSound
<1>4. PICK a \in Addrs :
        /\ a = b \/ ~Live(a)
        /\ handle' = [handle EXCEPT ![v] = [entries |-> a, len |-> g.len + 1, cap |-> n]]
        /\ heap' = Reached([heap EXCEPT ![b] = Free, ![a] = c])
  BY AddGrowIs
<1>5. listed' = listed
  BY DEF AddGrow
<1> DEFINE h == [entries |-> a, len |-> g.len + 1, cap |-> n]
           m == [heap EXCEPT ![b] = Free, ![a] = c]
<1>6. h \in Handle /\ h.entries = a /\ h.len = g.len + 1 /\ h.cap = n
  BY <1>2, <1>3 DEF Handle
<1>7. /\ \A i \in 1 .. g.len : c[i] = heap[b][i]
      /\ c[g.len + 1] = e
  BY <1>2, <1>3 DEF Grown
<1> HIDE DEF c, n, e
<1>8. m \in [Addrs -> Seq(Cells) \cup {Free}] /\ m[a] = c
  BY <1>2 DEF TypeOK
<1>9. /\ \A w \in Vars \ {v} : InScope(w) => m[handle[w].entries] = heap[handle[w].entries]
      /\ listed # NoMap => listed.data # a /\ m[listed.data] = heap[listed.data]
  BY <1>4, FreshUnnamed, HandleParts, ListedParts DEF TypeOK, Sole, ListedSound
<1>10. MapSound(h, c)
  <2>1. \A i \in 1 .. h.len : c[i] \in Entry
    BY <1>1, <1>3, <1>6, <1>7 DEF MapSound
  <2>2. QED
    BY <1>2, <1>3, <1>6, <2>1, ConstantsAssumption DEF MapSound
<1> HIDE DEF m
<1>11. OneMapChanges(v, h, c)
  BY <1>4, <1>5, <1>6, <1>8, <1>9, StoreChanges DEF m
<1>12. QED
  BY <1>2, <1>6, <1>7, <1>10, <1>11 DEF e

(* What a sound handle counts can be read. *)
LEMMA SoundHolds ==
  ASSUME TypeOK, MapsSound, NEW v \in Vars, InScope(v)
  PROVE  Holds(handle[v].entries, handle[v].len, Entry)
<1>1. /\ handle[v].len \in Nat /\ handle[v].cap \in Nat
      /\ MapSound(handle[v], heap[handle[v].entries])
  BY HandleParts DEF MapsSound
<1>2. Live(handle[v].entries) /\ Len(heap[handle[v].entries]) \in Nat
  BY <1>1, HandleParts, BlockType DEF MapSound, Live
<1>3. QED
  BY <1>1, <1>2 DEF MapSound, Holds, Cell

LEMMA SoundKeys ==
  ASSUME TypeOK, ListedSound, listed # NoMap, NEW i \in 0 .. listed.len
  PROVE  Holds(listed.data, i, Keys)
<1>1. listed.data \in Addrs /\ listed.len \in Nat /\ ListSound(listed, heap[listed.data])
  BY ListedParts DEF ListedSound
<1>2. Live(listed.data) /\ Len(heap[listed.data]) \in Nat
  BY <1>1, BlockType DEF ListSound, Live
<1>3. QED
  BY <1>1, <1>2 DEF ListSound, Holds, Cell

LEMMA MapSetSound ==
  ASSUME TypeOK, HasEntries, MapsSound, ListedSound, Discipline # "none",
         NEW v \in Vars, NEW k \in Keys, NEW x \in Values, MapSet(v, k, x)
  PROVE  MapsSound' /\ ListedSound' /\ status' = status
<1>1. InScope(v)
  BY DEF MapSet
<1>2. Holds(handle[v].entries, handle[v].len, Entry)
  BY <1>1, SoundHolds
<1>3. CASE Found(handle[v], k)
  <2>1. Overwrite(v, k, x)
    BY <1>2, <1>3 DEF MapSet
  <2>2. MapsSound' /\ ListedSound'
    BY <1>1, <1>3, <2>1, OverwriteSound
  <2>3. QED
    BY <2>1, <2>2 DEF Overwrite
<1>4. CASE ~Found(handle[v], k)
  <2>1. Sole(v) /\ (AddInPlace(v, k, x) \/ AddGrow(v, k, x))
    BY <1>2, <1>4, ConstantsAssumption DEF MapSet
  <2>2. \E h \in Handle, c \in Seq(Cells) : OneMapChanges(v, h, c) /\ MapSound(h, c)
    BY <1>1, <1>2, <2>1, AddInPlaceChanges, AddGrowChanges
  <2>3. MapsSound' /\ ListedSound'
    BY <2>2, ChangeSound, ConstantsAssumption
  <2>4. status' = status
    <3>1. CASE AddInPlace(v, k, x)
      <4>1. handle[v].len < Len(heap[handle[v].entries])
        BY <1>1, <3>1, HandleParts, BlockType DEF AddInPlace, MapsSound, MapSound, Live
      <4>2. QED
        BY <3>1, <4>1 DEF AddInPlace
    <3>2. CASE AddGrow(v, k, x)
      BY <3>2 DEF AddGrow
    <3>3. QED
      BY <2>1, <3>1, <3>2
  <2>5. QED
    BY <2>3, <2>4
<1>5. QED
  BY <1>3, <1>4

LEMMA DropSound ==
  ASSUME TypeOK, MapsSound, ListedSound, NEW v \in Vars, Drop(v)
  PROVE  MapsSound' /\ ListedSound' /\ status' = status
<1>1. /\ handle' = [handle EXCEPT ![v] = NoMap] /\ heap' = Reached(heap)
      /\ listed' = listed /\ status' = status
  BY DEF Drop
<1>2. \A w \in Vars : handle'[w] # NoMap => w # v /\ handle'[w] = handle[w] /\ InScope(w)
  BY <1>1 DEF TypeOK, InScope
<1>3. \A w \in Vars : handle'[w] # NoMap => heap'[handle'[w].entries] = heap[handle[w].entries]
  BY <1>1, <1>2, HandleParts, ReachedKeeps
<1>4. listed' # NoMap => heap'[listed'.data] = heap[listed.data]
  BY <1>1, ListedParts, ReachedKeeps
<1>5. QED
  BY <1>1, <1>2, <1>3, <1>4 DEF MapsSound, ListedSound, InScope

(* The block of keys of v's entries *)
KeyCells(v) == [i \in 1 .. handle[v].len |-> heap[handle[v].entries][i].key]

LEMMA MapKeysIs ==
  ASSUME TypeOK, HasEntries, MapsSound, ListedSound, NEW v \in Vars, MapKeys(v)
  PROVE  /\ InScope(v) /\ result' = <<>> /\ handle' = handle /\ status' = status
         /\ KeyCells(v) \in Seq(Keys) /\ Len(KeyCells(v)) = handle[v].len
         /\ listed' # NoMap /\ listed'.len = handle[v].len /\ heap'[listed'.data] = KeyCells(v)
         /\ \A w \in Vars : InScope(w) => /\ handle[w].entries # listed'.data
                                          /\ heap'[handle[w].entries] = heap[handle[w].entries]
<1>1. InScope(v) /\ Holds(handle[v].entries, handle[v].len, Entry)
  BY SoundHolds DEF MapKeys
<1>2. result' = <<>> /\ handle' = handle /\ status' = status
  BY <1>1 DEF MapKeys
<1>3. PICK a \in Addrs : /\ ~Live(a)
                         /\ listed' = [data |-> a, len |-> handle[v].len]
                         /\ heap' = Reached([heap EXCEPT ![a] = KeyCells(v)])
  BY <1>1 DEF MapKeys, KeyCells
<1>4. handle[v].len \in Nat
  BY <1>1, HandleParts
<1>5. KeyCells(v) \in [1 .. handle[v].len -> Keys]
  BY <1>1, ScannedEntries DEF KeyCells, Entry
<1>6. KeyCells(v) \in Seq(Keys) /\ Len(KeyCells(v)) = handle[v].len
  BY <1>4, <1>5, Tabulated
<1>7. listed' # NoMap /\ listed'.len = handle[v].len /\ listed'.data = a
  <2>1. listed' \in KeyList
    BY <1>3, <1>4 DEF KeyList
  <2>2. QED
    BY <1>3, <2>1, ConstantsAssumption
<1> DEFINE m == [heap EXCEPT ![a] = KeyCells(v)]
<1>8. m[a] = KeyCells(v)
  BY DEF TypeOK
<1>9. \A w \in Vars : InScope(w) => handle[w].entries # a /\ m[handle[w].entries] = heap[handle[w].entries]
  BY <1>3, FreshUnnamed, HandleParts DEF TypeOK
<1> HIDE DEF m
<1>10. heap' = Reached(m)
  BY <1>3 DEF m
<1>11. heap'[a] = KeyCells(v)
  BY <1>7, <1>8, <1>10, ReachedKeeps
<1>12. \A w \in Vars : InScope(w) => heap'[handle[w].entries] = heap[handle[w].entries]
  BY <1>2, <1>9, <1>10, HandleParts, ReachedKeeps DEF InScope
<1>13. QED
  BY <1>1, <1>2, <1>6, <1>7, <1>9, <1>11, <1>12

LEMMA MapKeysSound ==
  ASSUME TypeOK, HasEntries, MapsSound, ListedSound, NEW v \in Vars, MapKeys(v)
  PROVE  MapsSound' /\ ListedSound' /\ status' = status
<1>1. MapsSound' /\ status' = status
  BY MapKeysIs DEF MapsSound, InScope
<1>2. ListSound(listed', KeyCells(v))
  <2>1. Free \notin Seq(Keys)
    BY ConstantsAssumption DEF Cells
  <2>2. handle[v].len \in Nat
    BY MapKeysIs, HandleParts
  <2>3. \A i \in 1 .. Len(KeyCells(v)) : KeyCells(v)[i] \in Keys
    BY MapKeysIs, ElementOfSeq
  <2>4. QED
    BY MapKeysIs, <2>1, <2>2, <2>3 DEF ListSound
<1>3. ListedSound'
  BY <1>2, MapKeysIs DEF ListedSound, InScope
<1>4. QED
  BY <1>1, <1>3

(* The steps that leave memory, handles and the list of keys alone. *)
LEMMA ReadSound ==
  ASSUME MapsSound, ListedSound, UNCHANGED <<heap, handle, listed, status>>
  PROVE  MapsSound' /\ ListedSound' /\ status' = status
BY DEF MapsSound, ListedSound, InScope

LEMMA SoundNext ==
  ASSUME IInv, Discipline # "none", [Next]_vars
  PROVE  MapsSound' /\ ListedSound' /\ status' = status
<1> USE DEF IInv
<1>1. CASE UNCHANGED vars
  BY <1>1, ReadSound DEF vars
<1>2. ASSUME NEW v \in Vars, NEW s \in Literals, MapNew(v, s)
      PROVE  MapsSound' /\ ListedSound' /\ status' = status
  <2>1. PICK h \in Handle : OneMapChanges(v, h, LiteralCells(s)) /\ MapSound(h, LiteralCells(s))
    BY <1>2, MapNewChanges
  <2>2. h # NoMap
    BY ConstantsAssumption
  <2>3. MapsSound' /\ ListedSound'
    BY <2>1, <2>2, ChangeSound
  <2>4. QED
    BY <1>2, <2>3 DEF MapNew
<1>3. ASSUME NEW v \in Vars, NEW w \in Vars, Copy(v, w)
      PROVE  MapsSound' /\ ListedSound' /\ status' = status
  <2>1. MapsSound' /\ ListedSound'
    BY <1>3, CopyChanges, ChangeSound DEF InScope
  <2>2. QED
    BY <1>3, <2>1 DEF Copy
<1>4. ASSUME NEW v \in Vars, Drop(v)
      PROVE  MapsSound' /\ ListedSound' /\ status' = status
  BY <1>4, DropSound
<1>5. ASSUME NEW v \in Vars, NEW k \in Keys, MapGet(v, k) \/ MapHas(v, k)
      PROVE  MapsSound' /\ ListedSound' /\ status' = status
  <2>1. Holds(handle[v].entries, handle[v].len, Entry)
    BY <1>5, SoundHolds DEF MapGet, MapHas
  <2>2. UNCHANGED <<heap, handle, listed, status>>
    BY <1>5, <2>1 DEF MapGet, MapHas, Evaluate
  <2>3. QED
    BY <2>2, ReadSound
<1>6. ASSUME NEW v \in Vars, MapLen(v)
      PROVE  MapsSound' /\ ListedSound' /\ status' = status
  BY <1>6, ReadSound DEF MapLen
<1>7. ASSUME NEW v \in Vars, MapKeys(v)
      PROVE  MapsSound' /\ ListedSound' /\ status' = status
  BY <1>7, MapKeysSound
<1>8. ASSUME NEW v \in Vars, NEW k \in Keys, NEW x \in Values, MapSet(v, k, x)
      PROVE  MapsSound' /\ ListedSound' /\ status' = status
  BY <1>8, MapSetSound
<1>9. ASSUME NEW i, KeyAt(i)
      PROVE  MapsSound' /\ ListedSound' /\ status' = status
  <2>1. Holds(listed.data, i, Keys)
    BY <1>9, ListedParts, SoundKeys DEF KeyAt
  <2>2. QED
    BY <1>9, <2>1, ReadSound DEF KeyAt
<1>10. CASE DropKeys
  <2>1. /\ listed' = NoMap /\ handle' = handle /\ status' = status /\ heap' = Reached(heap)
    BY <1>10 DEF DropKeys
  <2>2. \A w \in Vars : InScope(w) => heap'[handle[w].entries] = heap[handle[w].entries]
    BY <2>1, HandleParts, ReachedKeeps DEF InScope
  <2>3. QED
    BY <2>1, <2>2 DEF MapsSound, ListedSound, InScope
<1>11. QED
  BY <1>1, <1>2, <1>3, <1>4, <1>5, <1>6, <1>7, <1>8, <1>9, <1>10 DEF Next

LEMMA IInvInit ==
  ASSUME Init
  PROVE  IInv
BY TypeInit DEF Init, IInv, MapsSound, ListedSound, InScope

LEMMA IInvNext ==
  ASSUME IInv, Discipline # "none", [Next]_vars
  PROVE  IInv'
<1>1. TypeOK' /\ HasEntries'
  BY TypeNext DEF IInv
<1>2. MapsSound' /\ ListedSound' /\ status' = status
  BY SoundNext
<1>3. QED
  BY <1>1, <1>2 DEF IInv

LEMMA IInvSafe ==
  ASSUME IInv
  PROVE  MemorySafe
BY DEF IInv, MapsSound, MapSound, ListedSound, ListSound, MemorySafe, Live

(* No order of statements of a program that adds keys to a map only        *)
(* through the sole handle of its block touches memory that is not the     *)
(* map's; values of keys that are there it may change through any handle.  *)
THEOREM MapMemorySafe ==
  ASSUME Discipline # "none"
  PROVE  Spec => []MemorySafe
<1>1. Init => IInv
  BY IInvInit
<1>2. IInv /\ [Next]_vars => IInv'
  BY IInvNext
<1>3. IInv => MemorySafe
  BY IInvSafe
<1>4. QED
  BY <1>1, <1>2, <1>3, PTL DEF Spec

-------------------------------------------------------------------------------
(* The function a block of entries stands for *)

FunctionOf(b, n) ==
  [k \in {b[i].key : i \in 1 .. n} |-> b[Min({i \in 1 .. n : b[i].key = k})].value]

(* No two of the first n entries of b have the same key. *)
Once(b, n) == \A i, j \in 1 .. n : b[i].key = b[j].key => i = j

LEMMA FunctionIs ==
  ASSUME NEW n \in Nat, NEW b, Once(b, n)
  PROVE  /\ DOMAIN FunctionOf(b, n) = {b[i].key : i \in 1 .. n}
         /\ \A i \in 1 .. n : FunctionOf(b, n)[b[i].key] = b[i].value
<1>1. DOMAIN FunctionOf(b, n) = {b[i].key : i \in 1 .. n}
  BY DEF FunctionOf
<1>2. ASSUME NEW i \in 1 .. n
      PROVE  FunctionOf(b, n)[b[i].key] = b[i].value
  <2> DEFINE S == {j \in 1 .. n : b[j].key = b[i].key}
  <2>1. S \in SUBSET Nat /\ S # {} /\ \A j \in S : j = i
    BY DEF Once
  <2> HIDE DEF S
  <2>2. Min(S) = i
    BY <2>1, MinOfNat
  <2>3. QED
    BY <2>2 DEF FunctionOf, S
<1>3. QED
  BY <1>1, <1>2

LEMMA FunctionType ==
  ASSUME NEW n \in Nat, NEW b, \A i \in 1 .. n : b[i] \in Entry
  PROVE  FunctionOf(b, n) # NoMap
<1> DEFINE S == {b[i].key : i \in 1 .. n}
<1>1. S \in SUBSET Keys
  BY DEF Entry
<1>2. ASSUME NEW k \in S
      PROVE  b[Min({i \in 1 .. n : b[i].key = k})].value \in Values
  <2> DEFINE T == {i \in 1 .. n : b[i].key = k}
  <2>1. T \in SUBSET Nat /\ T # {} /\ T \subseteq 1 .. n
    OBVIOUS
  <2>2. Min(T) \in 1 .. n
    <3> HIDE DEF T
    <3>1. QED
      BY <2>1, MinOfNat
  <2>3. QED
    BY <2>2 DEF Entry
<1>3. FunctionOf(b, n) \in [S -> Values]
  BY <1>2 DEF FunctionOf
<1>4. QED
  BY <1>1, <1>3, ConstantsAssumption

LEMMA SameFunction ==
  ASSUME NEW n \in Nat, NEW b, NEW c, \A i \in 1 .. n : c[i] = b[i]
  PROVE  FunctionOf(c, n) = FunctionOf(b, n) /\ (Once(b, n) => Once(c, n))
<1>1. {c[i].key : i \in 1 .. n} = {b[i].key : i \in 1 .. n}
  OBVIOUS
<1>2. ASSUME NEW k \in {b[i].key : i \in 1 .. n}
      PROVE  c[Min({i \in 1 .. n : c[i].key = k})].value = b[Min({i \in 1 .. n : b[i].key = k})].value
  <2> DEFINE T == {i \in 1 .. n : b[i].key = k}
  <2>1. T \in SUBSET Nat /\ T # {} /\ T \subseteq 1 .. n /\ {i \in 1 .. n : c[i].key = k} = T
    OBVIOUS
  <2> HIDE DEF T
  <2>2. Min(T) \in 1 .. n
    BY <2>1, MinOfNat
  <2>3. QED
    BY <2>1, <2>2 DEF T
<1>3. FunctionOf(c, n) = FunctionOf(b, n)
  BY <1>1, <1>2 DEF FunctionOf
<1>4. Once(b, n) => Once(c, n)
  BY DEF Once
<1>5. QED
  BY <1>3, <1>4

(* f after f[k] = x *)
Updated(f, k, x) == [l \in DOMAIN f \cup {k} |-> IF l = k THEN x ELSE f[l]]

(* The value of one of the first n entries is overwritten. *)
LEMMA OverwrittenFunction ==
  ASSUME NEW n \in Nat, NEW b, Once(b, n), NEW p \in 1 .. n, NEW x, NEW c,
         \A i \in 1 .. n : c[i] = IF i = p THEN [key |-> b[p].key, value |-> x] ELSE b[i]
  PROVE  /\ Once(c, n)
         /\ FunctionOf(c, n) = Updated(FunctionOf(b, n), b[p].key, x)
<1>1. \A i \in 1 .. n : c[i].key = b[i].key /\ c[i].value = IF i = p THEN x ELSE b[i].value
  OBVIOUS
<1>2. Once(c, n)
  BY <1>1 DEF Once
<1> DEFINE f == FunctionOf(b, n)
           g == FunctionOf(c, n)
           S == {b[i].key : i \in 1 .. n}
<1>3. /\ DOMAIN f = S /\ \A i \in 1 .. n : f[b[i].key] = b[i].value
  BY FunctionIs
<1>4. /\ DOMAIN g = S /\ \A i \in 1 .. n : g[b[i].key] = IF i = p THEN x ELSE b[i].value
  <2>1. /\ DOMAIN g = {c[i].key : i \in 1 .. n} /\ \A i \in 1 .. n : g[c[i].key] = c[i].value
    BY <1>2, FunctionIs
  <2>2. {c[i].key : i \in 1 .. n} = S
    BY <1>1
  <2> HIDE DEF g
  <2>3. QED
    BY <1>1, <2>1, <2>2
<1>5. g = [l \in DOMAIN g |-> g[l]]
  BY DEF FunctionOf
<1> HIDE DEF f, g
<1>6. S \cup {b[p].key} = S
  OBVIOUS
<1>7. \A l \in S : g[l] = IF l = b[p].key THEN x ELSE f[l]
  <2>1. SUFFICES ASSUME NEW i \in 1 .. n
                 PROVE  g[b[i].key] = IF b[i].key = b[p].key THEN x ELSE f[b[i].key]
    OBVIOUS
  <2>2. b[i].key = b[p].key <=> i = p
    BY DEF Once
  <2>3. QED
    BY <1>3, <1>4, <2>2
<1> HIDE DEF S
<1>8. g = [l \in DOMAIN f \cup {b[p].key} |-> IF l = b[p].key THEN x ELSE f[l]]
  BY <1>3, <1>4, <1>5, <1>6, <1>7
<1>9. QED
  BY <1>2, <1>8 DEF f, g, Updated

(* An entry with a new key comes after the first n. *)
LEMMA AddedFunction ==
  ASSUME NEW n \in Nat, NEW b, Once(b, n), NEW k, NEW x, NEW c,
         \A i \in 1 .. n : b[i].key # k /\ c[i] = b[i],
         c[n + 1] = [key |-> k, value |-> x]
  PROVE  /\ Once(c, n + 1)
         /\ FunctionOf(c, n + 1) = Updated(FunctionOf(b, n), k, x)
<1>1. \A i \in 1 .. n + 1 : i \in 1 .. n \/ i = n + 1
  OBVIOUS
<1>2. c[n + 1].key = k /\ c[n + 1].value = x /\ n + 1 \in 1 .. n + 1 /\ n + 1 \in Nat
  OBVIOUS
<1>3. Once(c, n + 1)
  BY <1>1, <1>2 DEF Once
<1> DEFINE f == FunctionOf(b, n)
           g == FunctionOf(c, n + 1)
           S == {b[i].key : i \in 1 .. n}
<1>4. /\ DOMAIN f = S /\ \A i \in 1 .. n : f[b[i].key] = b[i].value
  BY FunctionIs
<1>5. /\ DOMAIN g = {c[i].key : i \in 1 .. n + 1} /\ \A i \in 1 .. n + 1 : g[c[i].key] = c[i].value
  BY <1>2, <1>3, FunctionIs
<1>6. g = [l \in DOMAIN g |-> g[l]]
  BY DEF FunctionOf
<1>7. {c[i].key : i \in 1 .. n + 1} = S \cup {k}
  <2>1. \A i \in 1 .. n : i \in 1 .. n + 1
    OBVIOUS
  <2>2. QED
    BY <1>1, <1>2, <2>1
<1> HIDE DEF f, g
<1>8. \A l \in S : g[l] = f[l] /\ l # k
  <2>1. SUFFICES ASSUME NEW i \in 1 .. n
                 PROVE  g[b[i].key] = f[b[i].key] /\ b[i].key # k
    OBVIOUS
  <2>2. i \in 1 .. n + 1 /\ c[i] = b[i]
    OBVIOUS
  <2>3. QED
    BY <1>4, <1>5, <2>2
<1>9. g[k] = x
  BY <1>2, <1>5
<1> HIDE DEF S
<1>10. g = [l \in DOMAIN f \cup {k} |-> IF l = k THEN x ELSE f[l]]
  BY <1>4, <1>5, <1>6, <1>7, <1>8, <1>9
<1>11. QED
  BY <1>3, <1>10 DEF f, g, Updated

(* The keys of n entries that have different ones, in their order *)
LEMMA KeysOnce ==
  ASSUME NEW n \in Nat, NEW b, Once(b, n)
  PROVE  LET S == {b[i].key : i \in 1 .. n}
             q == [i \in 1 .. n |-> b[i].key]
         IN  Cardinality(S) = n /\ q \in SetToSeqs(S)
<1> DEFINE S == {b[i].key : i \in 1 .. n}
           q == [i \in 1 .. n |-> b[i].key]
<1>1. q \in [1 .. n -> S] /\ \A i, j \in 1 .. n : i # j => q[i] # q[j]
  BY DEF Once
<1>2. \A s \in S : \E i \in 1 .. n : q[i] = s
  OBVIOUS
<1>3. q \in Bijection(1 .. n, S)
  BY <1>1, <1>2 DEF Bijection, Injection, Surjection, IsInjective
<1>4. Cardinality(S) = n
  BY <1>3, FS_CountingElements DEF ExistsBijection
<1>5. q \in SetToSeqs(S)
  BY <1>1, <1>4 DEF SetToSeqs
<1>6. QED
  BY <1>4, <1>5

(* The entries of a literal without a repeated key stand for its function. *)
LEMMA LiteralFunction ==
  ASSUME NEW s \in Literals, \A i, j \in 1 .. Len(s) : s[i][1] = s[j][1] => i = j
  PROVE  /\ Once(LiteralCells(s), Len(s))
         /\ FunctionOf(LiteralCells(s), Len(s)) =
              [k \in {s[i][1] : i \in 1 .. Len(s)} |->
                 CHOOSE x \in Values : \E i \in 1 .. Len(s) : s[i] = <<k, x>>]
<1> DEFINE c == LiteralCells(s)
           n == Len(s)
           g == FunctionOf(c, n)
           S == {s[i][1] : i \in 1 .. n}
<1>1. n \in Nat /\ \A i \in 1 .. n : s[i] \in Keys \X Values
  BY LiteralIs
<1>2. \A i \in 1 .. n : c[i].key = s[i][1] /\ c[i].value = s[i][2]
  BY DEF LiteralCells
<1>3. Once(c, n)
  BY <1>2 DEF Once
<1>4. /\ DOMAIN g = {c[i].key : i \in 1 .. n} /\ \A i \in 1 .. n : g[c[i].key] = c[i].value
  BY <1>1, <1>3, FunctionIs
<1>5. g = [k \in DOMAIN g |-> g[k]]
  BY DEF FunctionOf
<1> HIDE DEF g
<1>6. DOMAIN g = S
  BY <1>2, <1>4
<1> DEFINE V(k) == CHOOSE x \in Values : \E i \in 1 .. n : s[i] = <<k, x>>
<1>7. ASSUME NEW i \in 1 .. n
      PROVE  g[s[i][1]] = V(s[i][1])
  <2>1. s[i] = <<s[i][1], s[i][2]>> /\ s[i][2] \in Values
    BY <1>1
  <2>2. ASSUME NEW x \in Values, NEW j \in 1 .. n, s[j] = <<s[i][1], x>>
        PROVE  x = s[i][2]
    <3>1. s[j][1] = s[i][1] /\ s[j][2] = x
      BY <2>2
    <3>2. QED
      BY <3>1
  <2>3. V(s[i][1]) = s[i][2]
    BY <2>1, <2>2
  <2>4. QED
    BY <1>2, <1>4, <2>3
<1> HIDE DEF V
<1>8. \A k \in S : g[k] = V(k)
  BY <1>7
<1>9. g = [k \in S |-> V(k)]
  BY <1>5, <1>6, <1>8
<1>10. QED
  BY <1>3, <1>9 DEF g, V

-------------------------------------------------------------------------------
(* The promise of ValueMaps, for programs that change a map only through   *)
(* the sole handle of its block and whose literals repeat no key           *)

Maps == [v \in Vars |-> Meaning(v)]

EntriesOnce == \A v \in Vars : InScope(v) => Once(heap[handle[v].entries], handle[v].len)

LiteralsOnce == \A s \in Literals : \A i, j \in 1 .. Len(s) : s[i][1] = s[j][1] => i = j

LEMMA MeaningIs ==
  ASSUME NEW v \in Vars
  PROVE  Maps[v] = IF InScope(v) THEN FunctionOf(heap[handle[v].entries], handle[v].len) ELSE NoMap
BY DEF Maps, Meaning, FunctionOf, Place, Matches

LEMMA MeaningNext ==
  ASSUME NEW v \in Vars
  PROVE  Maps'[v] = IF handle'[v] # NoMap THEN FunctionOf(heap'[handle'[v].entries], handle'[v].len)
                    ELSE NoMap
BY DEF Maps, Meaning, FunctionOf, Place, Matches, InScope

(* A map in scope is a function, with a key for every entry. *)
LEMMA MeaningOf ==
  ASSUME TypeOK, MapsSound, EntriesOnce, NEW v \in Vars, InScope(v)
  PROVE  LET b == heap[handle[v].entries]
             n == handle[v].len
         IN  /\ n \in Nat /\ Once(b, n)
             /\ Maps[v] = FunctionOf(b, n) /\ Maps[v] # NoMap
             /\ DOMAIN Maps[v] = {b[i].key : i \in 1 .. n}
             /\ \A i \in 1 .. n : Maps[v][b[i].key] = b[i].value
<1> DEFINE b == heap[handle[v].entries]
           n == handle[v].len
<1>1. n \in Nat /\ Once(b, n) /\ \A i \in 1 .. n : b[i] \in Entry
  BY HandleParts DEF MapsSound, MapSound, EntriesOnce
<1>2. Maps[v] = FunctionOf(b, n)
  BY MeaningIs
<1> HIDE DEF b, n
<1>3. /\ FunctionOf(b, n) # NoMap /\ DOMAIN FunctionOf(b, n) = {b[i].key : i \in 1 .. n}
      /\ \A i \in 1 .. n : FunctionOf(b, n)[b[i].key] = b[i].value
  BY <1>1, FunctionIs, FunctionType
<1>4. /\ n \in Nat /\ Once(b, n)
      /\ Maps[v] = FunctionOf(b, n) /\ Maps[v] # NoMap
      /\ DOMAIN Maps[v] = {b[i].key : i \in 1 .. n}
      /\ \A i \in 1 .. n : Maps[v][b[i].key] = b[i].value
  BY <1>1, <1>2, <1>3
<1>5. QED
  BY <1>4 DEF b, n

LEMMA ChangeMaps ==
  ASSUME TypeOK, NEW v \in Vars, NEW h, h # NoMap, NEW c, OneMapChanges(v, h, c)
  PROVE  Maps' = [Maps EXCEPT ![v] = FunctionOf(c, h.len)]
<1>1. \A w \in Vars : handle'[w] = IF w = v THEN h ELSE handle[w]
  BY DEF OneMapChanges, TypeOK
<1>2. Maps'[v] = FunctionOf(c, h.len)
  BY <1>1, MeaningNext DEF OneMapChanges
<1>3. \A w \in Vars \ {v} : Maps'[w] = Maps[w]
  BY <1>1, MeaningNext, MeaningIs DEF OneMapChanges, InScope
<1>4. QED
  BY <1>2, <1>3 DEF Maps

LEMMA ChangeListing ==
  ASSUME NEW v, NEW h, NEW c, OneMapChanges(v, h, c)
  PROVE  Listing' = Listing
BY DEF OneMapChanges, Listing, Cell, Live

LEMMA ChangeOnce ==
  ASSUME TypeOK, EntriesOnce, NEW v \in Vars, NEW h, NEW c, OneMapChanges(v, h, c), Once(c, h.len)
  PROVE  EntriesOnce'
<1>1. \A w \in Vars : handle'[w] = IF w = v THEN h ELSE handle[w]
  BY DEF OneMapChanges, TypeOK
<1>2. QED
  BY <1>1 DEF OneMapChanges, EntriesOnce, InScope

LEMMA MapNewPromised ==
  ASSUME TypeOK, MapsSound, ListedSound, LiteralsOnce, NEW v \in Vars, NEW s \in Literals,
         MapNew(v, s)
  PROVE  Promise!MapNew(v, s)
<1> DEFINE F == [k \in {s[i][1] : i \in 1 .. Len(s)} |->
                   CHOOSE x \in Values : \E i \in 1 .. Len(s) : s[i] = <<k, x>>]
<1>1. PICK h \in Handle : /\ OneMapChanges(v, h, LiteralCells(s)) /\ h.len = Len(s)
  BY MapNewChanges
<1>2. h # NoMap
  BY ConstantsAssumption
<1>3. Maps' = [Maps EXCEPT ![v] = FunctionOf(LiteralCells(s), Len(s))] /\ Listing' = Listing
  BY <1>1, <1>2, ChangeMaps, ChangeListing
<1>4. FunctionOf(LiteralCells(s), Len(s)) = F
  BY LiteralFunction DEF LiteralsOnce
<1>5. Maps' = [Maps EXCEPT ![v] = F]
  BY <1>3, <1>4
<1>6. Maps[v] = NoMap /\ op' = <<"new", v, s>> /\ result' = <<>>
  BY MeaningIs DEF MapNew
<1>7. QED
  BY <1>3, <1>5, <1>6 DEF Maps, Promise!MapNew, Promise!InScope

LEMMA MapNewOnce ==
  ASSUME TypeOK, MapsSound, ListedSound, EntriesOnce, LiteralsOnce, NEW v \in Vars,
         NEW s \in Literals, MapNew(v, s)
  PROVE  EntriesOnce'
<1>1. PICK h \in Handle : /\ OneMapChanges(v, h, LiteralCells(s)) /\ h.len = Len(s)
  BY MapNewChanges
<1>2. Once(LiteralCells(s), Len(s))
  BY LiteralFunction DEF LiteralsOnce
<1>3. QED
  BY <1>1, <1>2, ChangeOnce

LEMMA CopyPromised ==
  ASSUME TypeOK, MapsSound, ListedSound, EntriesOnce, NEW v \in Vars, NEW w \in Vars, Copy(v, w)
  PROVE  Promise!Copy(v, w) /\ EntriesOnce'
<1> DEFINE c == heap[handle[w].entries]
<1>1. InScope(w) /\ OneMapChanges(v, handle[w], c)
  BY CopyChanges
<1>2. Maps' = [Maps EXCEPT ![v] = FunctionOf(c, handle[w].len)] /\ Listing' = Listing
  BY <1>1, ChangeMaps, ChangeListing DEF InScope
<1>3. Maps[w] # NoMap /\ Maps[w] = FunctionOf(c, handle[w].len) /\ Once(c, handle[w].len)
  BY <1>1, MeaningOf
<1>4. v # w /\ op' = <<"copy", v, w>> /\ result' = <<>>
  BY DEF Copy
<1>5. EntriesOnce'
  BY <1>1, <1>3, ChangeOnce
<1> HIDE DEF c
<1>6. QED
  BY <1>2, <1>3, <1>4, <1>5 DEF Maps, Promise!Copy, Promise!InScope

LEMMA DropPromised ==
  ASSUME TypeOK, MapsSound, ListedSound, EntriesOnce, NEW v \in Vars, Drop(v)
  PROVE  Promise!Drop(v) /\ EntriesOnce'
<1>1. /\ InScope(v) /\ handle' = [handle EXCEPT ![v] = NoMap] /\ heap' = Reached(heap)
      /\ listed' = listed /\ op' = <<"drop", v>> /\ result' = <<>>
  BY DEF Drop
<1>2. \A w \in Vars : handle'[w] = IF w = v THEN NoMap ELSE handle[w]
  BY <1>1 DEF TypeOK
<1>3. \A w \in Vars \ {v} : InScope(w) => heap'[handle[w].entries] = heap[handle[w].entries]
  BY <1>1, <1>2, HandleParts, ReachedKeeps DEF InScope
<1>4. EntriesOnce'
  BY <1>2, <1>3 DEF EntriesOnce, InScope
<1>5. \A w \in Vars : Maps'[w] = IF w = v THEN NoMap ELSE Maps[w]
  BY <1>2, <1>3, MeaningIs, MeaningNext DEF InScope
<1>6. Maps' = [Maps EXCEPT ![v] = NoMap]
  BY <1>5 DEF Maps
<1>7. listed # NoMap => heap'[listed.data] = heap[listed.data]
  BY <1>1, ListedParts, ReachedKeeps
<1>8. Listing' = Listing
  BY <1>1, <1>7 DEF Listing, Cell, Live
<1>9. Maps[v] # NoMap
  BY <1>1, MeaningOf
<1>10. QED
  BY <1>1, <1>4, <1>6, <1>8, <1>9 DEF Maps, Promise!Drop, Promise!InScope

(* A key is found exactly when it is one of the function's. *)
LEMMA FoundIs ==
  ASSUME TypeOK, MapsSound, EntriesOnce, NEW v \in Vars, InScope(v), NEW k
  PROVE  /\ Found(handle[v], k) <=> k \in DOMAIN Maps[v]
         /\ Found(handle[v], k) => heap[handle[v].entries][Place(handle[v], k)].value = Maps[v][k]
<1>1. DOMAIN Maps[v] = {heap[handle[v].entries][i].key : i \in 1 .. handle[v].len}
  BY MeaningOf
<1>2. Maps[v] = FunctionOf(heap[handle[v].entries], handle[v].len)
  BY MeaningOf
<1>3. Found(handle[v], k) <=> k \in DOMAIN Maps[v]
  BY <1>1 DEF Found, Matches
<1>4. ASSUME k \in DOMAIN Maps[v]
      PROVE  heap[handle[v].entries][Place(handle[v], k)].value = Maps[v][k]
  BY <1>1, <1>2, <1>4 DEF FunctionOf, Place, Matches
<1>5. QED
  BY <1>3, <1>4

LEMMA MapSetPromised ==
  ASSUME TypeOK, HasEntries, MapsSound, ListedSound, EntriesOnce, Discipline = "writes",
         NEW v \in Vars, NEW k \in Keys, NEW x \in Values, MapSet(v, k, x)
  PROVE  Promise!MapSet(v, k, x) /\ EntriesOnce'
<1> DEFINE g == handle[v]
           b == heap[g.entries]
           n == g.len
           f == Maps[v]
           F == Updated(f, k, x)
<1>1. InScope(v) /\ Sole(v) /\ Holds(g.entries, n, Entry) /\ op' = <<"set", v, k, x>>
  BY SoundHolds DEF MapSet
<1>2. /\ n \in Nat /\ Once(b, n) /\ f = FunctionOf(b, n) /\ f # NoMap
      /\ DOMAIN f = {b[i].key : i \in 1 .. n}
  BY <1>1, MeaningOf
<1>3. PICK h, c : /\ h # NoMap /\ OneMapChanges(v, h, c)
                  /\ Once(c, h.len) /\ FunctionOf(c, h.len) = F /\ result' = <<>>
  <2>1. CASE Found(g, k)
    <3> DEFINE p == Place(g, k)
               c == Overwritten(b, p, x)
    <3>1. Overwrite(v, k, x)
      BY <1>1, <2>1 DEF MapSet
    <3>2. OneMapChanges(v, g, c)
      BY <1>1, <2>1, <3>1, OverwriteChanges
    <3>3. p \in 1 .. n /\ b[p].key = k
      BY <1>2, <2>1, PlaceMatches
    <3>4. \A i \in 1 .. n : c[i] = IF i = p THEN [key |-> b[p].key, value |-> x] ELSE b[i]
      <4>1. /\ b \in Seq(Cells) /\ n <= Len(b) /\ Len(b) \in Nat /\ b[p] \in Entry
        BY <1>1, <3>3, ScannedEntries
      <4>2. p \in 1 .. Len(b) /\ \A i \in 1 .. n : i \in 1 .. Len(b)
        BY <1>2, <3>3, <4>1
      <4> HIDE DEF p, b, n, c
      <4>3. QED
        BY <4>1, <4>2, OverwrittenIs DEF c
    <3>5. Once(c, n) /\ FunctionOf(c, n) = F
      <4> HIDE DEF p, b, n, c, f
      <4>1. Once(c, n) /\ FunctionOf(c, n) = Updated(FunctionOf(b, n), b[p].key, x)
        <5> HIDE DEF F, g
        <5>1. n \in Nat /\ Once(b, n) /\ p \in 1 .. n
          BY <1>2, <3>3
        <5>2. QED
          BY <3>4, <5>1, OverwrittenFunction
      <4>2. QED
        BY <1>2, <3>3, <4>1
    <3>6. result' = <<>> /\ g # NoMap
      BY <1>1, <3>1 DEF Overwrite, InScope
    <3> HIDE DEF c, F
    <3>7. QED
      BY <3>2, <3>5, <3>6
  <2>2. CASE ~Found(g, k)
    <3>1. AddInPlace(v, k, x) \/ AddGrow(v, k, x)
      BY <1>1, <2>2 DEF MapSet
    <3>2. PICK h \in Handle, c \in Seq(Cells) :
            /\ OneMapChanges(v, h, c) /\ h.len = n + 1
            /\ \A i \in 1 .. n : c[i] = b[i]
            /\ c[n + 1] = [key |-> k, value |-> x]
      BY <1>1, <3>1, AddInPlaceChanges, AddGrowChanges
    <3>3. \A i \in 1 .. n : b[i].key # k
      BY <2>2 DEF Found, Matches
    <3>4. Once(c, n + 1) /\ FunctionOf(c, n + 1) = F
      <4> HIDE DEF b, n, f
      <4>1. Once(c, n + 1) /\ FunctionOf(c, n + 1) = Updated(FunctionOf(b, n), k, x)
        <5> HIDE DEF F, g
        <5>1. n \in Nat /\ Once(b, n) /\ c[n + 1] = [key |-> k, value |-> x]
          BY <1>2, <3>2
        <5>2. \A i \in 1 .. n : b[i].key # k /\ c[i] = b[i]
          BY <3>2, <3>3
        <5>3. QED
          BY <5>1, <5>2, AddedFunction
      <4>2. QED
        BY <1>2, <4>1
    <3>5. result' = <<>>
      BY <3>1 DEF AddInPlace, AddGrow, Undefined
    <3>6. h # NoMap
      BY ConstantsAssumption
    <3> HIDE DEF F
    <3>7. QED
      BY <3>2, <3>4, <3>5, <3>6
  <2>3. QED
    BY <2>1, <2>2
<1>4. EntriesOnce' /\ Listing' = Listing
  BY <1>3, ChangeOnce, ChangeListing
<1>5. Maps' = [Maps EXCEPT ![v] = F]
  <2> HIDE DEF F
  <2>1. QED
    BY <1>3, ChangeMaps
<1>6. QED
  <2> HIDE DEF g, b, n
  <2>1. QED
    BY <1>1, <1>2, <1>3, <1>4, <1>5 DEF Maps, Updated, Promise!MapSet, Promise!InScope

LEMMA MapGetPromised ==
  ASSUME TypeOK, MapsSound, EntriesOnce, NEW v \in Vars, NEW k \in Keys, MapGet(v, k)
  PROVE  Promise!MapGet(v, k)
<1>1. InScope(v) /\ Holds(handle[v].entries, handle[v].len, Entry)
  BY SoundHolds DEF MapGet
<1>2. /\ op' = <<"get", v, k>> /\ UNCHANGED <<heap, handle, listed>>
      /\ result' = <<IF Found(handle[v], k) THEN heap[handle[v].entries][Place(handle[v], k)].value
                     ELSE Zero>>
  BY <1>1 DEF MapGet, Evaluate
<1>3. Maps[v] # NoMap
  BY <1>1, MeaningOf
<1>4. result' = <<IF k \in DOMAIN Maps[v] THEN Maps[v][k] ELSE Zero>>
  BY <1>1, <1>2, FoundIs
<1>5. Maps' = Maps /\ Listing' = Listing
  BY <1>2 DEF Maps, Meaning, InScope, Place, Matches, Listing, Cell, Live
<1>6. QED
  BY <1>2, <1>3, <1>4, <1>5 DEF Maps, Promise!MapGet, Promise!InScope, Promise!Present

LEMMA MapHasPromised ==
  ASSUME TypeOK, MapsSound, EntriesOnce, NEW v \in Vars, NEW k \in Keys, MapHas(v, k)
  PROVE  Promise!MapHas(v, k)
<1>1. InScope(v) /\ Holds(handle[v].entries, handle[v].len, Entry)
  BY SoundHolds DEF MapHas
<1>2. /\ op' = <<"has", v, k>> /\ UNCHANGED <<heap, handle, listed>>
      /\ result' = <<IF Found(handle[v], k) THEN 1 ELSE 0>>
  BY <1>1 DEF MapHas, Evaluate
<1>3. Maps[v] # NoMap
  BY <1>1, MeaningOf
<1>4. result' = <<IF k \in DOMAIN Maps[v] THEN 1 ELSE 0>>
  BY <1>1, <1>2, FoundIs
<1>5. Maps' = Maps /\ Listing' = Listing
  BY <1>2 DEF Maps, Meaning, InScope, Place, Matches, Listing, Cell, Live
<1>6. QED
  BY <1>2, <1>3, <1>4, <1>5 DEF Maps, Promise!MapHas, Promise!InScope, Promise!Present

(* ValueMaps's operators of the library are this module's. *)
LEMMA SameOperators ==
  ASSUME NEW S
  PROVE  Promise!Cardinality(S) = Cardinality(S) /\ Promise!SetToSeqs(S) = SetToSeqs(S)
<1>1. Promise!Cardinality(S) = Cardinality(S)
  BY DEF Cardinality, Promise!Cardinality
<1>2. Promise!SetToSeqs(S) = SetToSeqs(S)
  BY <1>1 DEF SetToSeqs, Promise!SetToSeqs
<1>3. QED
  BY <1>1, <1>2

(* len counts a key once. *)
LEMMA MapLenPromised ==
  ASSUME TypeOK, MapsSound, EntriesOnce, NEW v \in Vars, MapLen(v)
  PROVE  Promise!MapLen(v)
<1>1. /\ InScope(v) /\ op' = <<"len", v>> /\ UNCHANGED <<heap, handle, listed>>
      /\ result' = <<handle[v].len>>
  BY DEF MapLen
<1>2. Maps[v] # NoMap /\ Cardinality(DOMAIN Maps[v]) = handle[v].len
  <2> DEFINE b == heap[handle[v].entries]
             n == handle[v].len
  <2>1. n \in Nat /\ Once(b, n) /\ Maps[v] # NoMap /\ DOMAIN Maps[v] = {b[i].key : i \in 1 .. n}
    BY <1>1, MeaningOf
  <2> HIDE DEF b, n
  <2>2. Cardinality({b[i].key : i \in 1 .. n}) = n
    BY <2>1, KeysOnce
  <2>3. QED
    BY <2>1, <2>2 DEF n
<1>3. Maps' = Maps /\ Listing' = Listing
  BY <1>1 DEF Maps, Meaning, InScope, Place, Matches, Listing, Cell, Live
<1>4. Promise!Cardinality(DOMAIN Maps[v]) = Cardinality(DOMAIN Maps[v])
  BY SameOperators
<1>5. QED
  BY <1>1, <1>2, <1>3, <1>4 DEF Maps, Promise!MapLen, Promise!InScope

(* keys gives every key once. *)
LEMMA MapKeysPromised ==
  ASSUME TypeOK, HasEntries, MapsSound, ListedSound, EntriesOnce, NEW v \in Vars, MapKeys(v)
  PROVE  Promise!MapKeys(v) /\ EntriesOnce'
<1>1. InScope(v) /\ handle' = handle /\ result' = <<>> /\ op' = <<"keys", v>>
  BY MapKeysIs DEF MapKeys
<1>2. \A w \in Vars : InScope(w) => heap'[handle[w].entries] = heap[handle[w].entries]
  BY MapKeysIs
<1>3. EntriesOnce'
  BY <1>1, <1>2 DEF EntriesOnce, InScope
<1>4. \A w \in Vars : Maps'[w] = Maps[w]
  BY <1>1, <1>2, MeaningIs, MeaningNext DEF InScope
<1>5. Maps' = Maps
  BY <1>4 DEF Maps
<1>6. Listing' = KeyCells(v)
  <2>1. Free \notin Seq(Keys)
    BY ConstantsAssumption DEF Cells
  <2>2. handle[v].len \in Nat
    BY <1>1, HandleParts
  <2>3. heap'[listed'.data] # Free
    BY <2>1, MapKeysIs
  <2>4. Listing' = [i \in 1 .. handle[v].len |-> KeyCells(v)[i]]
    BY <2>2, <2>3, MapKeysIs DEF Listing, Cell, Live
  <2>5. QED
    BY <2>4 DEF KeyCells
<1>7. /\ DOMAIN Maps[v] = {heap[handle[v].entries][i].key : i \in 1 .. handle[v].len}
      /\ handle[v].len \in Nat /\ Once(heap[handle[v].entries], handle[v].len) /\ Maps[v] # NoMap
  BY <1>1, MeaningOf
<1>8. KeyCells(v) \in SetToSeqs(DOMAIN Maps[v])
  BY <1>7, KeysOnce DEF KeyCells
<1>9. SetToSeqs(DOMAIN Maps[v]) = Promise!SetToSeqs(DOMAIN Maps[v])
  BY SameOperators
<1>10. QED
  BY <1>1, <1>3, <1>5, <1>6, <1>7, <1>8, <1>9 DEF Maps, Promise!MapKeys, Promise!InScope

(* The list of keys is a sequence of keys. *)
LEMMA ListingIs ==
  ASSUME TypeOK, ListedSound, listed # NoMap
  PROVE  /\ Listing \in Seq(Keys) /\ Len(Listing) = listed.len /\ Listing # NoMap
         /\ \A i \in 1 .. listed.len : Listing[i] = heap[listed.data][i]
<1>1. listed.data \in Addrs /\ listed.len \in Nat /\ ListSound(listed, heap[listed.data])
  BY ListedParts DEF ListedSound
<1>2. Live(listed.data) /\ Len(heap[listed.data]) \in Nat
  BY <1>1, BlockType DEF ListSound, Live
<1>3. \A i \in 1 .. listed.len : Cell(listed.data, i) = heap[listed.data][i] /\ heap[listed.data][i] \in Keys
  BY <1>1, <1>2 DEF ListSound, Cell
<1>4. Listing = [i \in 1 .. listed.len |-> Cell(listed.data, i)]
  BY DEF Listing
<1>5. Listing \in [1 .. listed.len -> Keys] /\ \A i \in 1 .. listed.len : Listing[i] = heap[listed.data][i]
  BY <1>3, <1>4
<1>6. Listing \in Seq(Keys) /\ Len(Listing) = listed.len
  BY <1>1, <1>5, Tabulated
<1>7. QED
  BY <1>5, <1>6, ConstantsAssumption

LEMMA KeyAtPromised ==
  ASSUME TypeOK, ListedSound, NEW i, KeyAt(i)
  PROVE  Listing # NoMap /\ i \in 1 .. Len(Listing) /\ Promise!KeyAt(i)
<1>1. listed # NoMap /\ i \in 1 .. listed.len /\ op' = <<"key", i>>
  BY DEF KeyAt
<1>2. Holds(listed.data, i, Keys)
  BY <1>1, ListedParts, SoundKeys
<1>3. result' = <<heap[listed.data][i]>> /\ UNCHANGED <<heap, handle, listed>>
  BY <1>2 DEF KeyAt
<1>4. Listing # NoMap /\ Len(Listing) = listed.len /\ Listing[i] = heap[listed.data][i]
  BY <1>1, ListingIs
<1>5. Maps' = Maps /\ Listing' = Listing
  BY <1>3 DEF Maps, Meaning, InScope, Place, Matches, Listing, Cell, Live
<1>6. QED
  BY <1>1, <1>3, <1>4, <1>5 DEF Maps, Promise!KeyAt

LEMMA DropKeysPromised ==
  ASSUME TypeOK, MapsSound, ListedSound, EntriesOnce, DropKeys
  PROVE  Promise!DropKeys /\ EntriesOnce'
<1>1. /\ listed # NoMap /\ listed' = NoMap /\ handle' = handle /\ heap' = Reached(heap)
      /\ op' = <<"drop keys">> /\ result' = <<>>
  BY DEF DropKeys
<1>2. \A w \in Vars : InScope(w) => heap'[handle[w].entries] = heap[handle[w].entries]
  BY <1>1, HandleParts, ReachedKeeps DEF InScope
<1>3. EntriesOnce'
  BY <1>1, <1>2 DEF EntriesOnce, InScope
<1>4. \A w \in Vars : Maps'[w] = Maps[w]
  BY <1>1, <1>2, MeaningIs, MeaningNext DEF InScope
<1>5. Maps' = Maps
  BY <1>4 DEF Maps
<1>6. Listing' = NoMap /\ Listing # NoMap
  BY <1>1, ListingIs DEF Listing
<1>7. QED
  BY <1>1, <1>3, <1>5, <1>6 DEF Maps, Promise!DropKeys

LEMMA PromisedInit ==
  ASSUME Init
  PROVE  Promise!Init /\ EntriesOnce
BY DEF Init, Promise!Init, Meaning, Listing, InScope, EntriesOnce

LEMMA ReadOnce ==
  ASSUME EntriesOnce, UNCHANGED <<heap, handle>>
  PROVE  EntriesOnce'
BY DEF EntriesOnce, InScope

LEMMA PromisedNext ==
  ASSUME IInv, EntriesOnce, LiteralsOnce, Discipline = "writes", [Next]_vars
  PROVE  [Promise!Next]_Promise!vars /\ EntriesOnce'
<1> USE DEF IInv
<1>1. CASE UNCHANGED vars
  <2>1. Maps' = Maps /\ Listing' = Listing /\ op' = op /\ result' = result
    BY <1>1 DEF vars, Maps, Meaning, InScope, Place, Matches, Listing, Cell, Live
  <2>2. UNCHANGED Promise!vars
    BY <2>1 DEF Maps, Promise!vars
  <2>3. EntriesOnce'
    BY <1>1, ReadOnce DEF vars
  <2>4. QED
    BY <2>2, <2>3
<1>2. ASSUME NEW v \in Vars, NEW s \in Literals, MapNew(v, s)
      PROVE  Promise!MapNew(v, s) /\ EntriesOnce'
  BY <1>2, MapNewPromised, MapNewOnce
<1>3. ASSUME NEW v \in Vars, NEW w \in Vars, Copy(v, w)
      PROVE  Promise!Copy(v, w) /\ EntriesOnce'
  BY <1>3, CopyPromised
<1>4. ASSUME NEW v \in Vars, Drop(v)
      PROVE  Promise!Drop(v) /\ EntriesOnce'
  BY <1>4, DropPromised
<1>5. ASSUME NEW v \in Vars, NEW k \in Keys, MapGet(v, k)
      PROVE  Promise!MapGet(v, k) /\ EntriesOnce'
  <2>1. Holds(handle[v].entries, handle[v].len, Entry)
    BY <1>5, SoundHolds DEF MapGet
  <2>2. QED
    BY <1>5, <2>1, MapGetPromised, ReadOnce DEF MapGet, Evaluate
<1>6. ASSUME NEW v \in Vars, NEW k \in Keys, MapHas(v, k)
      PROVE  Promise!MapHas(v, k) /\ EntriesOnce'
  <2>1. Holds(handle[v].entries, handle[v].len, Entry)
    BY <1>6, SoundHolds DEF MapHas
  <2>2. QED
    BY <1>6, <2>1, MapHasPromised, ReadOnce DEF MapHas, Evaluate
<1>7. ASSUME NEW v \in Vars, MapLen(v)
      PROVE  Promise!MapLen(v) /\ EntriesOnce'
  BY <1>7, MapLenPromised, ReadOnce DEF MapLen
<1>8. ASSUME NEW v \in Vars, MapKeys(v)
      PROVE  Promise!MapKeys(v) /\ EntriesOnce'
  BY <1>8, MapKeysPromised
<1>9. ASSUME NEW v \in Vars, NEW k \in Keys, NEW x \in Values, MapSet(v, k, x)
      PROVE  Promise!MapSet(v, k, x) /\ EntriesOnce'
  BY <1>9, MapSetPromised
<1>10. ASSUME NEW i \in 1 .. MaxEntries, KeyAt(i)
       PROVE  Listing # NoMap /\ i \in 1 .. Len(Listing) /\ Promise!KeyAt(i) /\ EntriesOnce'
  <2>1. Holds(listed.data, i, Keys)
    BY <1>10, ListedParts, SoundKeys DEF KeyAt
  <2>2. QED
    BY <1>10, <2>1, KeyAtPromised, ReadOnce DEF KeyAt
<1>11. ASSUME DropKeys
       PROVE  Promise!DropKeys /\ EntriesOnce'
  BY <1>11, DropKeysPromised
<1>12. ASSUME Next
       PROVE  Promise!Next /\ EntriesOnce'
  BY <1>2, <1>3, <1>4, <1>5, <1>6, <1>7, <1>8, <1>9, <1>10, <1>11, <1>12 DEF Next, Promise!Next
<1>13. QED
  BY <1>1, <1>12

(* The maps of a program that changes a map only through the sole handle   *)
(* of its block, and repeats no key in a literal, are the functions the    *)
(* language promises: every statement does to them, and every expression   *)
(* gives, what ValueMaps says of the same call.                            *)
THEOREM MapsByValue ==
  ASSUME Discipline = "writes", LiteralsOnce
  PROVE  Spec => ImplementsValueMaps
<1>1. Init => IInv /\ EntriesOnce /\ Promise!Init
  BY IInvInit, PromisedInit
<1>2. IInv /\ EntriesOnce /\ [Next]_vars => IInv' /\ EntriesOnce'
  BY IInvNext, PromisedNext
<1>3. IInv /\ EntriesOnce /\ [Next]_vars => [Promise!Next]_Promise!vars
  BY PromisedNext
<1>4. QED
  BY <1>1, <1>2, <1>3, PTL DEF Spec, ImplementsValueMaps, Promise!Spec
===============================================================================
