--------------------------- MODULE ListRuntimeProofs ---------------------------
(***************************************************************************)
(* Proofs about ListRuntime, for every set of variables, elements and      *)
(* addresses: the types; the soundness of every handle under the push      *)
(* discipline, and that no step then touches memory it may not touch; and  *)
(* that the runtime implements ValueLists, the lists by value of the       *)
(* README, for every program that pushes, writes, removes, reverses and    *)
(* sorts only through the sole handle of a block.                          *)
(***************************************************************************)
EXTENDS ListRuntime, SequenceTheorems, TLAPS

Cells == Values \cup {Uninit}

-------------------------------------------------------------------------------
(* A function on 1 .. n is a sequence of length n. *)
LEMMA Tabulated ==
  ASSUME NEW S, NEW n \in Nat, NEW f, f \in [1 .. n -> S]
  PROVE  f \in Seq(S) /\ Len(f) = n
BY LenProperties, IsASeq

(* A memory keeps its shape when one block of cells is stored and what no  *)
(* handle names is forgotten.                                              *)
LEMMA ReachedType ==
  ASSUME NEW m, m \in [Addrs -> Seq(Cells) \cup {Free}]
  PROVE  Reached(m) \in [Addrs -> Seq(Cells) \cup {Free}]
BY DEF Reached

LEMMA StoreType ==
  ASSUME TypeOK, NEW v \in Names, NEW a \in Addrs, NEW c \in Seq(Cells),
         NEW len \in Nat, NEW cap \in Nat, Store(v, a, c, len, cap)
  PROVE  TypeOK'
<1>1. [heap EXCEPT ![a] = c] \in [Addrs -> Seq(Cells) \cup {Free}]
  BY DEF TypeOK, Cells
<1>2. heap' \in [Addrs -> Seq(Cells) \cup {Free}]
  BY <1>1, ReachedType DEF Store
<1>3. handle' \in [Names -> Handle \cup {NoList}]
  BY DEF TypeOK, Store, Handle
<1>4. pos' \in Nat /\ result' \in Int /\ status' \in Status
  BY DEF TypeOK, Store
<1>5. QED
  BY <1>2, <1>3, <1>4 DEF TypeOK, Cells

LEMMA RewriteType ==
  ASSUME TypeOK, NEW v \in Names, InScope(v), NEW c \in Seq(Cells), Rewrite(v, c)
  PROVE  TypeOK'
<1>1. handle[v].data \in Addrs
  BY DEF TypeOK, InScope, Handle
<1>2. heap' \in [Addrs -> Seq(Cells) \cup {Free}]
  BY <1>1 DEF TypeOK, Rewrite, Cells
<1>3. handle' = handle /\ pos' \in Nat /\ result' \in Int /\ status' \in Status
  BY DEF TypeOK, Rewrite
<1>4. QED
  BY <1>2, <1>3 DEF TypeOK, Cells

LEMMA UndefinedType ==
  ASSUME TypeOK, Undefined
  PROVE  TypeOK'
BY DEF TypeOK, Undefined, Status

(* A handle in scope, taken apart. *)
LEMMA HandleParts ==
  ASSUME TypeOK, NEW n \in Names, InScope(n)
  PROVE  /\ handle[n] \in Handle
         /\ handle[n].data \in Addrs
         /\ handle[n].len \in Nat
         /\ handle[n].cap \in Nat
BY DEF TypeOK, InScope, Handle

(* A cell that is not unwritten is one of its block, and holds a value. *)
LEMMA CellValue ==
  ASSUME TypeOK, NEW a \in Addrs, NEW i \in Nat \ {0}, Cell(a, i) # Uninit
  PROVE  /\ heap[a] \in Seq(Cells)
         /\ i \in 1 .. Len(heap[a])
         /\ Cell(a, i) = heap[a][i]
         /\ heap[a][i] \in Values
<1>1. Live(a) /\ i <= Len(heap[a]) /\ Cell(a, i) = heap[a][i]
  BY DEF Cell
<1>2. heap[a] \in Seq(Cells)
  BY <1>1 DEF TypeOK, Live, Cells
<1>3. i \in 1 .. Len(heap[a])
  BY <1>1, <1>2, LenProperties
<1>4. heap[a][i] \in Cells
  BY <1>2, <1>3, ElementOfSeq
<1>5. QED
  BY <1>1, <1>2, <1>3, <1>4 DEF Cells

(* When k > 0 cells of a handle can be read, its block is there and has    *)
(* them all.                                                               *)
LEMMA ReadableBlock ==
  ASSUME TypeOK, NEW n \in Names, InScope(n), NEW k \in Nat \ {0}, Readable(handle[n], k)
  PROVE  /\ heap[handle[n].data] \in Seq(Cells)
         /\ Len(heap[handle[n].data]) \in Nat
         /\ k <= Len(heap[handle[n].data])
         /\ \A i \in 1 .. k : /\ heap[handle[n].data][i] \in Values
                             /\ Cell(handle[n].data, i) = heap[handle[n].data][i]
<1>1. handle[n].data \in Addrs
  BY HandleParts
<1>2. \A i \in 1 .. k : Cell(handle[n].data, i) # Uninit
  BY DEF Readable
<1>3. /\ heap[handle[n].data] \in Seq(Cells)
      /\ k \in 1 .. Len(heap[handle[n].data])
  BY <1>1, <1>2, CellValue
<1>4. \A i \in 1 .. k : /\ heap[handle[n].data][i] \in Values
                       /\ Cell(handle[n].data, i) = heap[handle[n].data][i]
  BY <1>1, <1>2, CellValue
<1>5. QED
  BY <1>3, <1>4, LenProperties

-------------------------------------------------------------------------------
(* One lemma for each action that stores cells: what it leaves is typed. *)

LEMMA ListNewType ==
  ASSUME TypeOK, NEW v \in Names, NEW s \in BoundedSeq(Values, MaxLen), ListNew(v, s)
  PROVE  TypeOK'
<1>1. PICK n \in 0 .. MaxLen : s \in [1 .. n -> Values]
  BY DEF BoundedSeq, SeqOf
<1>2. n \in Nat /\ s \in [1 .. n -> Cells]
  BY <1>1, ConstantsAssumption DEF Cells
<1>3. s \in Seq(Cells) /\ Len(s) \in Nat
  BY <1>2, Tabulated
<1>4. PICK a \in Addrs : Store(v, a, s, Len(s), Len(s))
  BY DEF ListNew
<1>5. QED
  BY <1>3, <1>4, StoreType

LEMMA CopyType ==
  ASSUME TypeOK, NEW v \in Names, NEW w \in Names, Copy(v, w)
  PROVE  TypeOK'
<1>1. handle' \in [Names -> Handle \cup {NoList}]
  BY DEF TypeOK, Copy
<1>2. heap' \in [Addrs -> Seq(Cells) \cup {Free}]
  BY ReachedType DEF TypeOK, Copy, Cells
<1>3. pos' \in Nat /\ result' \in Int /\ status' \in Status
  BY DEF TypeOK, Copy
<1>4. QED
  BY <1>1, <1>2, <1>3 DEF TypeOK, Cells

LEMMA DropType ==
  ASSUME TypeOK, NEW v \in Names, Drop(v)
  PROVE  TypeOK'
<1>1. handle' \in [Names -> Handle \cup {NoList}]
  BY DEF TypeOK, Drop
<1>2. heap' \in [Addrs -> Seq(Cells) \cup {Free}]
  BY ReachedType DEF TypeOK, Drop, Cells
<1>3. pos' \in Nat /\ result' \in Int /\ status' \in Status
  BY DEF TypeOK, Drop
<1>4. QED
  BY <1>1, <1>2, <1>3 DEF TypeOK, Cells

LEMMA ListPushType ==
  ASSUME TypeOK, NEW v \in Names, NEW x \in Values, ListPush(v, x)
  PROVE  TypeOK'
<1> DEFINE h == handle[v]
           c == heap[h.data]
<1>1. InScope(v)
  BY DEF ListPush
<1>2. h.data \in Addrs /\ h.len \in Nat /\ h.cap \in Nat
  BY <1>1, HandleParts
<1>3. Live(h.data) => c \in Seq(Cells) /\ Len(c) \in Nat
  BY <1>2, LenProperties DEF TypeOK, Live, Cells
<1>4. x \in Cells
  BY DEF Cells
<1>5. ASSUME PushInPlace(v, x)
      PROVE  TypeOK'
  <2>1. CASE Live(h.data) /\ h.len < Len(c)
    <3>1. Store(v, h.data, [c EXCEPT ![h.len + 1] = x], h.len + 1, h.cap)
      BY <1>5, <2>1 DEF PushInPlace
    <3>2. [c EXCEPT ![h.len + 1] = x] \in Seq(Cells)
      BY <2>1, <1>2, <1>3, <1>4, ExceptSeq
    <3>3. h.len + 1 \in Nat
      BY <1>2
    <3> HIDE DEF h, c
    <3>4. QED
      BY <3>1, <3>2, <3>3, <1>2, StoreType
  <2>2. CASE ~(Live(h.data) /\ h.len < Len(c))
    BY <1>5, <2>2, UndefinedType DEF PushInPlace
  <2>3. QED
    BY <2>1, <2>2
<1>6. ASSUME PushGrow(v, x)
      PROVE  TypeOK'
  <2>1. CASE Live(h.data)
    <3> DEFINE cap == IF h.cap = 0 THEN 4 ELSE 2 * h.cap
               g == Grown(c, cap, h.len + 1, x)
    <3>1. PICK a \in Addrs :
            /\ handle' = [handle EXCEPT ![v] = [data |-> a, len |-> h.len + 1, cap |-> cap]]
            /\ heap' = Reached([heap EXCEPT ![h.data] = Free, ![a] = g])
            /\ result' = 0 /\ pos' = pos /\ status' = status
      BY <1>6, <2>1 DEF PushGrow
    <3>2. cap \in Nat
      BY <1>2
    <3>3. g \in Seq(Cells)
      <4>1. \A i \in 1 .. cap : i <= Len(c) => c[i] \in Cells
        BY <1>3, <2>1, <3>2, ElementOfSeq
      <4>2. g \in [1 .. cap -> Cells]
        BY <4>1, <1>4 DEF Grown, Cells
      <4>3. QED
        BY <4>2, <3>2, Tabulated
    <3> HIDE DEF cap, g
    <3>4. [heap EXCEPT ![h.data] = Free, ![a] = g] \in [Addrs -> Seq(Cells) \cup {Free}]
      BY <3>3 DEF TypeOK, Cells
    <3>5. heap' \in [Addrs -> Seq(Cells) \cup {Free}]
      BY <3>1, <3>4, ReachedType
    <3>6. handle' \in [Names -> Handle \cup {NoList}]
      BY <3>1, <3>2, <1>2 DEF TypeOK, Handle
    <3>7. pos' \in Nat /\ result' \in Int /\ status' \in Status
      BY <3>1 DEF TypeOK
    <3>8. QED
      BY <3>5, <3>6, <3>7 DEF TypeOK, Cells
  <2>2. CASE ~Live(h.data)
    BY <1>6, <2>2, UndefinedType DEF PushGrow
  <2>3. QED
    BY <2>1, <2>2
<1>7. QED
  BY <1>5, <1>6 DEF ListPush

LEMMA ListSetType ==
  ASSUME TypeOK, NEW v \in Names, NEW i \in Int, NEW x \in Values, ListSet(v, i, x)
  PROVE  TypeOK'
<1> DEFINE h == handle[v]
           c == heap[h.data]
<1>1. InScope(v) /\ 0 <= i
  BY DEF ListSet, InRange
<1>2. h.data \in Addrs
  BY <1>1, HandleParts
<1>3. CASE Live(h.data) /\ i < Len(c)
  <2>1. c \in Seq(Cells) /\ Len(c) \in Nat
    BY <1>2, <1>3, LenProperties DEF TypeOK, Live, Cells
  <2>2. [c EXCEPT ![i + 1] = x] \in Seq(Cells)
    BY <2>1, <1>1, <1>3, ExceptSeq DEF Cells
  <2>3. Rewrite(v, [c EXCEPT ![i + 1] = x])
    BY <1>3 DEF ListSet
  <2>4. QED
    BY <1>1, <2>2, <2>3, RewriteType
<1>4. CASE ~(Live(h.data) /\ i < Len(c))
  BY <1>4, UndefinedType DEF ListSet
<1>5. QED
  BY <1>3, <1>4

LEMMA ListRemoveType ==
  ASSUME TypeOK, NEW v \in Names, NEW i \in Int, ListRemove(v, i)
  PROVE  TypeOK'
<1> DEFINE h == handle[v]
           c == heap[h.data]
           d == [k \in 1 .. Len(c) |-> IF i < k /\ k < h.len THEN c[k + 1] ELSE c[k]]
<1>1. InScope(v) /\ 0 <= i /\ i < h.len
  BY DEF ListRemove, InRange
<1>2. h \in Handle /\ h.data \in Addrs /\ h.len \in Nat /\ h.cap \in Nat
  BY <1>1, HandleParts
<1>3. h.len - 1 \in Nat /\ h.len \in Nat \ {0}
  BY <1>1, <1>2
<1>4. CASE i = h.len - 1
  <2>1. /\ handle' = [handle EXCEPT ![v].len = h.len - 1]
        /\ heap' = heap /\ result' = 0 /\ pos' = pos /\ status' = status
    BY <1>4 DEF ListRemove
  <2>2. [h EXCEPT !.len = h.len - 1] \in Handle
    BY <1>2, <1>3 DEF Handle
  <2>3. handle' \in [Names -> Handle \cup {NoList}]
    BY <2>1, <2>2 DEF TypeOK
  <2>4. QED
    BY <2>1, <2>3 DEF TypeOK
<1>5. CASE i # h.len - 1 /\ Readable(h, h.len)
  <2>1. Store(v, h.data, d, h.len - 1, h.cap)
    BY <1>5 DEF ListRemove
  <2>2. c \in Seq(Cells) /\ Len(c) \in Nat /\ h.len <= Len(c)
    BY <1>1, <1>3, <1>5, ReadableBlock
  <2>3. \A k \in 1 .. Len(c) : c[k] \in Cells
    BY <2>2, ElementOfSeq
  <2>4. d \in [1 .. Len(c) -> Cells]
    BY <2>2, <2>3, <1>1, <1>2
  <2>5. d \in Seq(Cells)
    BY <2>2, <2>4, Tabulated
  <2> HIDE DEF h, d
  <2>6. QED
    BY <2>1, <2>5, <1>2, <1>3, StoreType
<1>6. CASE i # h.len - 1 /\ ~Readable(h, h.len)
  BY <1>6, UndefinedType DEF ListRemove
<1>7. QED
  BY <1>4, <1>5, <1>6

(* A rearrangement of the first len cells of a block is a block. *)
LEMMA Rearranged ==
  ASSUME NEW c \in Seq(Cells), NEW len \in Nat, len <= Len(c),
         NEW p, \A k \in 1 .. len : p[k] \in 1 .. len
  PROVE  /\ [k \in 1 .. Len(c) |-> IF k <= len THEN c[p[k]] ELSE c[k]] \in Seq(Cells)
         /\ Len([k \in 1 .. Len(c) |-> IF k <= len THEN c[p[k]] ELSE c[k]]) = Len(c)
<1>1. Len(c) \in Nat
  BY LenProperties
<1>2. \A k \in 1 .. Len(c) : c[k] \in Cells
  BY ElementOfSeq
<1>3. [k \in 1 .. Len(c) |-> IF k <= len THEN c[p[k]] ELSE c[k]] \in [1 .. Len(c) -> Cells]
  BY <1>1, <1>2
<1>4. QED
  BY <1>1, <1>3, Tabulated

LEMMA ListReverseType ==
  ASSUME TypeOK, NEW v \in Names, ListReverse(v)
  PROVE  TypeOK'
<1> DEFINE h == handle[v]
           c == heap[h.data]
           p == [k \in 1 .. h.len |-> h.len - k + 1]
           d == [k \in 1 .. Len(c) |-> IF k <= h.len THEN c[h.len - k + 1] ELSE c[k]]
<1>1. InScope(v)
  BY DEF ListReverse
<1>2. h.len \in Nat
  BY <1>1, HandleParts
<1>3. CASE h.len < 2
  BY <1>3 DEF ListReverse, TypeOK
<1>4. CASE ~(h.len < 2) /\ Readable(h, h.len)
  <2>1. Rewrite(v, d)
    BY <1>4 DEF ListReverse
  <2>2. c \in Seq(Cells) /\ Len(c) \in Nat /\ h.len <= Len(c)
    BY <1>1, <1>2, <1>4, ReadableBlock
  <2>3. \A k \in 1 .. h.len : p[k] \in 1 .. h.len
    BY <1>2
  <2>4. d = [k \in 1 .. Len(c) |-> IF k <= h.len THEN c[p[k]] ELSE c[k]]
    BY <1>2, <2>2
  <2> HIDE DEF h, c, p, d
  <2>5. d \in Seq(Cells)
    BY <2>2, <2>3, <2>4, <1>2, Rearranged
  <2>6. QED
    BY <2>1, <2>5, <1>1, RewriteType
<1>5. CASE ~(h.len < 2) /\ ~Readable(h, h.len)
  BY <1>5, UndefinedType DEF ListReverse
<1>6. QED
  BY <1>3, <1>4, <1>5

LEMMA ListSortType ==
  ASSUME TypeOK, NEW v \in Names, ListSort(v)
  PROVE  TypeOK'
<1> DEFINE h == handle[v]
           c == heap[h.data]
<1>1. InScope(v)
  BY DEF ListSort
<1>2. h.len \in Nat
  BY <1>1, HandleParts
<1>3. CASE Readable(h, h.len) /\ h.len = 0
  <2>1. result' = 0 /\ heap' = heap /\ handle' = handle /\ pos' = pos /\ status' = status
    BY <1>3 DEF ListSort
  <2>2. QED
    BY <2>1 DEF TypeOK
<1>4. CASE Readable(h, h.len) /\ h.len # 0
  <2>1. PICK p \in Bijection(1 .. h.len, 1 .. h.len) :
          Rewrite(v, [k \in 1 .. Len(c) |-> IF k <= h.len THEN c[p[k]] ELSE c[k]])
    BY <1>4 DEF ListSort
  <2>2. \A k \in 1 .. h.len : p[k] \in 1 .. h.len
    BY DEF Bijection, Injection
  <2>3. c \in Seq(Cells) /\ h.len <= Len(c)
    BY <1>1, <1>2, <1>4, ReadableBlock
  <2> HIDE DEF h, c
  <2>4. [k \in 1 .. Len(c) |-> IF k <= h.len THEN c[p[k]] ELSE c[k]] \in Seq(Cells)
    BY <2>2, <2>3, <1>2, Rearranged
  <2>5. QED
    BY <2>1, <2>4, <1>1, RewriteType
<1>5. CASE ~Readable(h, h.len)
  BY <1>5, UndefinedType DEF ListSort
<1>6. QED
  BY <1>3, <1>4, <1>5

(* The clamps of fy_list_T_slice leave, for every pair of ends, a part of  *)
(* the list.                                                               *)
LEMMA SliceBounds ==
  ASSUME NEW len \in Nat, NEW from \in Int, NEW to \in Int
  PROVE  /\ SliceStart(len, from) \in 0 .. len
         /\ SliceEnd(len, SliceStart(len, from), to) \in SliceStart(len, from) .. len
BY DEF SliceStart, SliceEnd

LEMMA ListSliceType ==
  ASSUME TypeOK, NEW w \in Names, NEW v \in Names, NEW from \in Int, NEW to \in Int,
         ListSlice(w, v, from, to)
  PROVE  TypeOK'
<1> DEFINE h == handle[v]
           c == heap[h.data]
           start == SliceStart(h.len, from)
           n == SliceEnd(h.len, start, to) - start
           d == [i \in 1 .. n |-> c[start + i]]
<1>1. InScope(v)
  BY DEF ListSlice
<1>2. h.len \in Nat
  BY <1>1, HandleParts
<1>3. start \in Nat /\ n \in Nat
  <2>1. start \in 0 .. h.len /\ SliceEnd(h.len, start, to) \in start .. h.len
    BY <1>2, SliceBounds
  <2> HIDE DEF h, start
  <2>2. QED
    BY <2>1, <1>2
<1>4. CASE n = 0
  <2>1. PICK a \in Addrs : Store(w, a, <<Uninit>>, 0, 1)
    BY <1>4 DEF ListSlice
  <2>2. <<Uninit>> \in Seq(Cells)
    BY DEF Cells
  <2>3. QED
    BY <2>1, <2>2, StoreType
<1>5. CASE n # 0 /\ Readable(h, start + n)
  <2>1. PICK a \in Addrs : Store(w, a, d, n, n)
    BY <1>5 DEF ListSlice
  <2>2. start + n \in Nat \ {0}
    BY <1>3, <1>5
  <2> HIDE DEF n, start
  <2>3. \A i \in 1 .. start + n : c[i] \in Cells
    BY <1>1, <1>5, <2>2, ReadableBlock DEF Cells
  <2>4. d \in [1 .. n -> Cells]
    BY <2>3, <1>3
  <2>5. d \in Seq(Cells)
    BY <2>4, <1>3, Tabulated
  <2> HIDE DEF d
  <2>6. QED
    BY <2>1, <2>5, <1>3, StoreType
<1>6. CASE n # 0 /\ ~Readable(h, start + n)
  BY <1>6, UndefinedType DEF ListSlice
<1>7. QED
  BY <1>4, <1>5, <1>6

(* The steps that store no cells. *)

LEMMA OutOfBoundsType ==
  ASSUME TypeOK, NEW v, NEW i, OutOfBounds(v, i)
  PROVE  TypeOK'
BY DEF OutOfBounds, TypeOK, Status

LEMMA ListGetType ==
  ASSUME TypeOK, NEW v \in Names, NEW i \in Int, ListGet(v, i)
  PROVE  TypeOK'
<1>1. InScope(v) /\ i + 1 \in Nat \ {0}
  BY DEF ListGet, InRange
<1>2. CASE Readable(handle[v], i + 1)
  <2>1. heap[handle[v].data][i + 1] \in Values
    BY <1>1, <1>2, ReadableBlock
  <2>2. result' \in Int /\ heap' = heap /\ handle' = handle /\ pos' = pos /\ status' = status
    BY <1>2, <2>1, ConstantsAssumption DEF ListGet
  <2>3. QED
    BY <2>2 DEF TypeOK
<1>3. CASE ~Readable(handle[v], i + 1)
  BY <1>3, UndefinedType DEF ListGet
<1>4. QED
  BY <1>2, <1>3

LEMMA ListContainsType ==
  ASSUME TypeOK, NEW v \in Names, NEW x \in Values, ListContains(v, x)
  PROVE  TypeOK'
<1>1. CASE Readable(handle[v], handle[v].len)
  <2>1. result' \in {0, 1} /\ heap' = heap /\ handle' = handle /\ pos' = pos /\ status' = status
    BY <1>1 DEF ListContains
  <2>2. QED
    BY <2>1 DEF TypeOK
<1>2. CASE ~Readable(handle[v], handle[v].len)
  BY <1>2, UndefinedType DEF ListContains
<1>3. QED
  BY <1>1, <1>2

LEMMA ListLenType ==
  ASSUME TypeOK, NEW v \in Names, ListLen(v)
  PROVE  TypeOK'
<1>1. handle[v].len \in Nat
  BY HandleParts DEF ListLen
<1>2. QED
  BY <1>1 DEF ListLen, TypeOK

LEMMA ForInStartType ==
  ASSUME TypeOK, NEW v \in Names, ForInStart(v)
  PROVE  TypeOK'
<1>1. handle' \in [Names -> Handle \cup {NoList}]
  BY DEF TypeOK, ForInStart
<1>2. pos' \in Nat /\ result' \in Int /\ status' \in Status
  BY DEF TypeOK, ForInStart
<1>3. QED
  BY <1>1, <1>2 DEF TypeOK, ForInStart

LEMMA ForInNextType ==
  ASSUME TypeOK, ForInNext
  PROVE  TypeOK'
<1>1. InScope(Iter) /\ Iter \in Names /\ pos + 1 \in Nat \ {0}
  BY DEF ForInNext, Names, TypeOK
<1>2. CASE Readable(handle[Iter], pos + 1)
  <2>1. heap[handle[Iter].data][pos + 1] \in Values
    BY <1>1, <1>2, ReadableBlock
  <2>2. result' \in Int /\ heap' = heap /\ handle' = handle /\ pos' = pos + 1 /\ status' = status
    BY <1>2, <2>1, ConstantsAssumption DEF ForInNext
  <2>3. QED
    BY <1>1, <2>2 DEF TypeOK
<1>3. CASE ~Readable(handle[Iter], pos + 1)
  BY <1>3, UndefinedType DEF ForInNext
<1>4. QED
  BY <1>2, <1>3

LEMMA ForInEndType ==
  ASSUME TypeOK, ForInEnd
  PROVE  TypeOK'
<1>1. handle' \in [Names -> Handle \cup {NoList}]
  BY DEF TypeOK, ForInEnd
<1>2. heap' \in [Addrs -> Seq(Cells) \cup {Free}]
  BY ReachedType DEF TypeOK, ForInEnd, Cells
<1>3. pos' \in Nat /\ result' \in Int /\ status' \in Status
  BY DEF TypeOK, ForInEnd
<1>4. QED
  BY <1>1, <1>2, <1>3 DEF TypeOK, Cells

LEMMA TypeInit == Init => TypeOK
<1> SUFFICES ASSUME Init PROVE TypeOK
  OBVIOUS
<1>1. PICK a \in Addrs :
        /\ heap = [b \in Addrs |->
                     IF b # a THEN Free ELSE IF LaunchArgs = <<>> THEN <<Uninit>> ELSE LaunchArgs]
        /\ handle = [n \in Names |->
                       IF n = Cli
                       THEN [data |-> a, len |-> Len(LaunchArgs), cap |-> Len(LaunchArgs)]
                       ELSE NoList]
  BY DEF Init
<1>2. LaunchArgs \in Seq(Cells) /\ Len(LaunchArgs) \in Nat
  BY ConstantsAssumption, LenProperties, SeqMonotonic DEF Cells
<1>3. <<Uninit>> \in Seq(Cells)
  BY DEF Cells
<1>4. heap \in [Addrs -> Seq(Cells) \cup {Free}]
  BY <1>1, <1>2, <1>3
<1>5. handle \in [Names -> Handle \cup {NoList}]
  BY <1>1, <1>2 DEF Handle
<1>6. pos \in Nat /\ result \in Int /\ status \in Status
  BY DEF Init, Status
<1>7. QED
  BY <1>4, <1>5, <1>6 DEF TypeOK, Cells

(* The indices of the model are integers. *)
LEMMA IndicesInt == Indices \subseteq Int
BY ConstantsAssumption DEF Indices

LEMMA TypeNext == TypeOK /\ [Next]_vars => TypeOK'
<1> SUFFICES ASSUME TypeOK, [Next]_vars PROVE TypeOK'
  OBVIOUS
<1>1. ASSUME NEW v \in Names, NEW s \in BoundedSeq(Values, MaxLen), ListNew(v, s)
      PROVE  TypeOK'
  BY <1>1, ListNewType
<1>2. ASSUME NEW v \in Names, NEW w \in Names, Copy(v, w)
      PROVE  TypeOK'
  BY <1>2, CopyType
<1>3. ASSUME NEW v \in Names,
             Drop(v) \/ ListReverse(v) \/ ListSort(v) \/ ListLen(v) \/ ForInStart(v)
      PROVE  TypeOK'
  BY <1>3, DropType, ListReverseType, ListSortType, ListLenType, ForInStartType
<1>4. ASSUME NEW v \in Names, NEW x \in Values, ListPush(v, x) \/ ListContains(v, x)
      PROVE  TypeOK'
  BY <1>4, ListPushType, ListContainsType
<1>5. ASSUME NEW v \in Names, NEW i \in Int, NEW x \in Values, ListSet(v, i, x)
      PROVE  TypeOK'
  BY <1>5, ListSetType
<1>6. ASSUME NEW v \in Names, NEW i \in Int,
             ListRemove(v, i) \/ ListGet(v, i) \/ OutOfBounds(v, i)
      PROVE  TypeOK'
  BY <1>6, ListRemoveType, ListGetType, OutOfBoundsType
<1>7. ASSUME NEW v \in Names, NEW w \in Names, NEW from \in Int, NEW to \in Int,
             ListSlice(w, v, from, to)
      PROVE  TypeOK'
  BY <1>7, ListSliceType
<1>8. CASE ForInNext \/ ForInEnd
  BY <1>8, ForInNextType, ForInEndType
<1>9. CASE UNCHANGED vars
  BY <1>9 DEF vars, TypeOK
<1>10. Vars \subseteq Names /\ Vars \cup {Cli} \subseteq Names
  BY DEF Names
<1>11. QED
  BY <1>1, <1>2, <1>3, <1>4, <1>5, <1>6, <1>7, <1>8, <1>9, <1>10, IndicesInt DEF Next

(* Memory, handles and status keep their shape in every program, whatever  *)
(* its discipline.                                                         *)
THEOREM TypeCorrect == Spec => []TypeOK
<1>1. QED
  BY TypeInit, TypeNext, PTL DEF Spec

-------------------------------------------------------------------------------
(* Soundness.  A handle stays sound when its block does; the lemmas say    *)
(* when a stored block leaves every other handle sound.                    *)

LEMMA ReachedBlock ==
  ASSUME NEW n \in Names, handle'[n] # NoList, handle'[n].data \in Addrs, NEW m
  PROVE  Reached(m)[handle'[n].data] = m[handle'[n].data]
BY DEF Reached

(* A sound handle's first len cells are there and can be read. *)
LEMMA SoundReadable ==
  ASSUME TypeOK, HandlesSound, NEW n \in Names, InScope(n)
  PROVE  /\ Live(handle[n].data)
         /\ heap[handle[n].data] \in Seq(Cells)
         /\ Len(heap[handle[n].data]) \in Nat
         /\ handle[n].len <= handle[n].cap
         /\ handle[n].cap <= Len(heap[handle[n].data])
         /\ \A i \in 1 .. handle[n].len : /\ Cell(handle[n].data, i) # Uninit
                                         /\ heap[handle[n].data][i] # Uninit
         /\ \A k \in 0 .. handle[n].len : Readable(handle[n], k)
<1> DEFINE h == handle[n]
           c == heap[h.data]
<1>1. h.data \in Addrs /\ h.len \in Nat /\ h.cap \in Nat
  BY HandleParts
<1>2. /\ c # Free /\ h.len <= h.cap /\ h.cap <= Len(c)
      /\ \A i \in 1 .. h.len : c[i] # Uninit
  BY DEF HandlesSound, Sound
<1>3. c \in Seq(Cells)
  BY <1>1, <1>2 DEF TypeOK, Cells
<1>4. Len(c) \in Nat
  BY <1>3, LenProperties
<1>5. Live(h.data)
  BY <1>2 DEF Live
<1>6. \A i \in 1 .. h.len : Cell(h.data, i) # Uninit
  BY <1>1, <1>2, <1>4, <1>5 DEF Cell
<1>7. \A k \in 0 .. h.len : Readable(h, k)
  BY <1>1, <1>6 DEF Readable
<1>8. QED
  BY <1>2, <1>3, <1>4, <1>5, <1>6, <1>7

LEMMA StoreSound ==
  ASSUME TypeOK, HandlesSound, NEW v \in Names, NEW a \in Addrs, NEW c \in Seq(Cells),
         NEW len \in Nat, NEW cap \in Nat, Store(v, a, c, len, cap),
         Sound([data |-> a, len |-> len, cap |-> cap], c),
         \A n \in Names \ {v} :
           InScope(n) /\ handle[n].data = a => Sound(handle[n], c)
  PROVE  HandlesSound'
<1> SUFFICES ASSUME NEW n \in Names, handle'[n] # NoList
             PROVE  Sound(handle'[n], heap'[handle'[n].data])
  BY DEF HandlesSound, InScope
<1> DEFINE m == [heap EXCEPT ![a] = c]
<1>1. /\ handle' = [handle EXCEPT ![v] = [data |-> a, len |-> len, cap |-> cap]]
      /\ heap' = Reached(m)
  BY DEF Store
<1>2. CASE n = v
  <2>1. handle'[n] = [data |-> a, len |-> len, cap |-> cap]
    BY <1>1, <1>2 DEF TypeOK
  <2>2. handle'[n].data = a
    BY <2>1
  <2>3. heap'[a] = m[a]
    BY <1>1, <2>2, ReachedBlock
  <2>4. m[a] = c
    BY DEF TypeOK
  <2>5. QED
    BY <2>1, <2>2, <2>3, <2>4
<1>3. CASE n # v
  <2>1. handle'[n] = handle[n] /\ InScope(n)
    BY <1>1, <1>3 DEF TypeOK, InScope
  <2>2. handle[n].data \in Addrs
    BY <2>1, HandleParts
  <2>3. heap'[handle[n].data] = m[handle[n].data]
    BY <1>1, <2>1, <2>2, ReachedBlock
  <2>4. m[handle[n].data] = IF handle[n].data = a THEN c ELSE heap[handle[n].data]
    BY <2>2 DEF TypeOK
  <2>5. QED
    BY <1>3, <2>1, <2>3, <2>4 DEF HandlesSound
<1>4. QED
  BY <1>2, <1>3

(* No handle in scope names an address with no block. *)
LEMMA FreshUnnamed ==
  ASSUME TypeOK, HandlesSound, NEW a \in Addrs, ~Live(a), NEW n \in Names, InScope(n)
  PROVE  handle[n].data # a
BY SoundReadable

(* A block rewritten in place, with as many cells and none of the written  *)
(* ones unwritten, leaves every handle sound.                              *)
LEMMA RewriteSound ==
  ASSUME TypeOK, HandlesSound, NEW v \in Names, InScope(v), NEW c \in Seq(Cells),
         Rewrite(v, c), Len(c) = Len(heap[handle[v].data]),
         \A i \in 1 .. Len(c) : heap[handle[v].data][i] # Uninit => c[i] # Uninit
  PROVE  HandlesSound'
<1> SUFFICES ASSUME NEW n \in Names, handle'[n] # NoList
             PROVE  Sound(handle'[n], heap'[handle'[n].data])
  BY DEF HandlesSound, InScope
<1> DEFINE a == handle[v].data
<1>1. heap' = [heap EXCEPT ![a] = c] /\ handle' = handle
  BY DEF Rewrite
<1>2. InScope(n) /\ a \in Addrs /\ handle[n].data \in Addrs /\ handle[n].len \in Nat
      /\ handle[n].cap \in Nat
  BY <1>1, HandleParts DEF InScope
<1>3. heap'[handle[n].data] = IF handle[n].data = a THEN c ELSE heap[handle[n].data]
  BY <1>1, <1>2 DEF TypeOK
<1>4. CASE handle[n].data # a
  BY <1>1, <1>2, <1>3, <1>4 DEF HandlesSound
<1>5. CASE handle[n].data = a
  <2>1. Sound(handle[n], heap[a])
    BY <1>2, <1>5 DEF HandlesSound
  <2>2. c # Free
    BY ConstantsAssumption DEF Cells
  <2>3. Len(c) \in Nat
    BY LenProperties
  <2>4. Sound(handle[n], c)
    BY <1>2, <2>1, <2>2, <2>3 DEF Sound
  <2>5. QED
    BY <1>1, <1>3, <1>5, <2>4
<1>6. QED
  BY <1>4, <1>5

LEMMA BlockNotFree ==
  ASSUME NEW c \in Seq(Cells)
  PROVE  c # Free
BY ConstantsAssumption DEF Cells

(* A block of one unwritten cell is sound for an empty list. *)
LEMMA EmptyBlock ==
  ASSUME NEW h, h.len = 0, h.cap \in 0 .. 1
  PROVE  <<Uninit>> \in Seq(Cells) /\ Sound(h, <<Uninit>>)
<1> DEFINE u == <<Uninit>>
<1>1. u \in Seq(Cells) /\ Len(u) = 1
  BY DEF Cells
<1> HIDE DEF u
<1>2. u # Free
  BY <1>1, BlockNotFree
<1>3. Sound(h, u)
  BY <1>1, <1>2 DEF Sound
<1>4. QED
  BY <1>1, <1>3 DEF u

(* A step that copies or forgets handles and keeps the blocks that are     *)
(* still named.                                                            *)
LEMMA HandlesMoved ==
  ASSUME TypeOK, HandlesSound, heap' = Reached(heap) \/ heap' = heap,
         \A n \in Names : handle'[n] # NoList =>
           \E k \in Names : InScope(k) /\ handle'[n] = handle[k]
  PROVE  HandlesSound'
<1> SUFFICES ASSUME NEW n \in Names, handle'[n] # NoList
             PROVE  Sound(handle'[n], heap'[handle'[n].data])
  BY DEF HandlesSound, InScope
<1>1. PICK k \in Names : InScope(k) /\ handle'[n] = handle[k]
  OBVIOUS
<1>2. handle[k].data \in Addrs
  BY <1>1, HandleParts
<1>3. heap'[handle'[n].data] = heap[handle[k].data]
  BY <1>1, <1>2, ReachedBlock
<1>4. QED
  BY <1>1, <1>3 DEF HandlesSound

LEMMA MovesSound ==
  ASSUME TypeOK, HandlesSound, NEW v \in Names, NEW w \in Names,
         Copy(v, w) \/ Drop(v) \/ ForInStart(v) \/ ForInEnd
  PROVE  HandlesSound'
<1>1. heap' = Reached(heap) \/ heap' = heap
  BY DEF Copy, Drop, ForInStart, ForInEnd
<1>2. Iter \in Names
  BY DEF Names
<1>3. ASSUME NEW n \in Names, handle'[n] # NoList
      PROVE  \E k \in Names : InScope(k) /\ handle'[n] = handle[k]
  BY <1>2, <1>3 DEF Copy, Drop, ForInStart, ForInEnd, InScope, TypeOK
<1>4. QED
  BY <1>1, <1>3, HandlesMoved

(* A step that leaves the memory and the handles alone. *)
LEMMA SameSound ==
  ASSUME HandlesSound, heap' = heap, handle' = handle
  PROVE  HandlesSound'
BY DEF HandlesSound, InScope

LEMMA ListNewSound ==
  ASSUME TypeOK, HandlesSound, NEW v \in Names, NEW s \in BoundedSeq(Values, MaxLen),
         ListNew(v, s)
  PROVE  HandlesSound'
<1>1. PICK n \in 0 .. MaxLen : s \in [1 .. n -> Values]
  BY DEF BoundedSeq, SeqOf
<1>2. n \in Nat /\ s \in [1 .. n -> Cells]
  BY <1>1, ConstantsAssumption DEF Cells
<1>3. s \in Seq(Cells) /\ Len(s) = n
  BY <1>2, Tabulated
<1>4. PICK a \in Addrs : ~Live(a) /\ Store(v, a, s, Len(s), Len(s))
  BY DEF ListNew
<1>5. Sound([data |-> a, len |-> Len(s), cap |-> Len(s)], s)
  BY <1>1, <1>2, <1>3, BlockNotFree, ConstantsAssumption DEF Sound
<1>6. \A k \in Names \ {v} : ~(InScope(k) /\ handle[k].data = a)
  BY <1>4, FreshUnnamed
<1>7. Len(s) \in Nat
  BY <1>2, <1>3
<1>8. QED
  BY <1>3, <1>4, <1>5, <1>6, <1>7, StoreSound

LEMMA ListPushSound ==
  ASSUME TypeOK, HandlesSound, Discipline # "none",
         NEW v \in Names, NEW x \in Values, ListPush(v, x)
  PROVE  HandlesSound'
<1> DEFINE h == handle[v]
           c == heap[h.data]
<1>1. InScope(v) /\ Sole(v)
  BY ConstantsAssumption DEF ListPush, MayPush
<1>2. h.data \in Addrs /\ h.len \in Nat /\ h.cap \in Nat
  BY <1>1, HandleParts
<1>3. /\ Live(h.data) /\ c \in Seq(Cells) /\ Len(c) \in Nat
      /\ h.len <= h.cap /\ h.cap <= Len(c)
      /\ \A i \in 1 .. h.len : c[i] # Uninit
  BY <1>1, SoundReadable
<1>4. x \in Cells /\ x # Uninit
  BY ConstantsAssumption DEF Cells
<1>5. \A n \in Names \ {v} : InScope(n) => handle[n].data # h.data
  BY <1>1 DEF Sole
<1>6. h.len + 1 \in Nat
  BY <1>2
<1>7. ASSUME PushInPlace(v, x)
      PROVE  HandlesSound'
  <2> DEFINE d == [c EXCEPT ![h.len + 1] = x]
  <2>1. h.len < h.cap /\ h.len + 1 \in 1 .. Len(c)
    BY <1>7, <1>2, <1>3 DEF PushInPlace
  <2>2. Store(v, h.data, d, h.len + 1, h.cap)
    BY <1>7, <1>2, <1>3, <2>1 DEF PushInPlace
  <2>3. /\ d \in Seq(Cells) /\ Len(d) = Len(c)
        /\ \A j \in 1 .. Len(c) : d[j] = IF j = h.len + 1 THEN x ELSE c[j]
    BY <2>1, <1>3, <1>4, ExceptSeq
  <2> HIDE DEF d, c
  <2>4. Sound([data |-> h.data, len |-> h.len + 1, cap |-> h.cap], d)
    BY <2>1, <2>3, <1>2, <1>3, <1>4, BlockNotFree DEF Sound
  <2> HIDE DEF h
  <2>5. QED
    BY <2>2, <2>3, <2>4, <1>2, <1>5, <1>6, StoreSound
<1>8. ASSUME PushGrow(v, x)
      PROVE  HandlesSound'
  <2> DEFINE cap == IF h.cap = 0 THEN 4 ELSE 2 * h.cap
             g == Grown(c, cap, h.len + 1, x)
  <2>1. PICK a \in Addrs :
          /\ a = h.data \/ ~Live(a)
          /\ handle' = [handle EXCEPT ![v] = [data |-> a, len |-> h.len + 1, cap |-> cap]]
          /\ heap' = Reached([heap EXCEPT ![h.data] = Free, ![a] = g])
    BY <1>8, <1>3 DEF PushGrow
  <2>2. cap \in Nat /\ h.len + 1 <= cap /\ h.len = h.cap
    BY <1>8, <1>2 DEF PushGrow
  <2>3. g = [i \in 1 .. cap |-> IF i = h.len + 1 THEN x ELSE IF i <= Len(c) THEN c[i] ELSE Uninit]
    BY DEF Grown
  <2> HIDE DEF cap, g, c
  <2>4. \A i \in 1 .. cap : i <= Len(c) => c[i] \in Cells
    BY <1>3, <2>2, ElementOfSeq
  <2>5. g \in [1 .. cap -> Cells]
    BY <2>3, <2>4, <1>4 DEF Cells
  <2>6. g \in Seq(Cells) /\ Len(g) = cap
    BY <2>5, <2>2, Tabulated
  <2>7. \A i \in 1 .. h.len + 1 : g[i] # Uninit
    BY <2>2, <2>3, <1>2, <1>3, <1>4
  <2>8. Sound([data |-> a, len |-> h.len + 1, cap |-> cap], g)
    BY <2>2, <2>6, <2>7, BlockNotFree DEF Sound
  <2>9. SUFFICES ASSUME NEW n \in Names, handle'[n] # NoList
                 PROVE  Sound(handle'[n], heap'[handle'[n].data])
    BY DEF HandlesSound, InScope
  <2> DEFINE m == [heap EXCEPT ![h.data] = Free, ![a] = g]
  <2>10. CASE n = v
    <3>1. handle'[n] = [data |-> a, len |-> h.len + 1, cap |-> cap] /\ handle'[n].data = a
      BY <2>1, <2>10 DEF TypeOK
    <3>2. heap'[a] = m[a]
      BY <2>1, <2>9, <3>1, ReachedBlock
    <3>3. m[a] = g
      BY DEF TypeOK
    <3>4. QED
      BY <2>8, <3>1, <3>2, <3>3
  <2>11. CASE n # v
    <3>1. handle'[n] = handle[n] /\ InScope(n)
      BY <2>1, <2>9, <2>11 DEF TypeOK, InScope
    <3>2. handle[n].data \in Addrs /\ handle[n].data # h.data
      BY <2>11, <3>1, <1>5, HandleParts
    <3>3. handle[n].data # a
      BY <2>1, <3>1, <3>2, FreshUnnamed
    <3>4. heap'[handle[n].data] = m[handle[n].data]
      BY <2>1, <2>9, <3>1, <3>2, ReachedBlock
    <3>5. m[handle[n].data] = heap[handle[n].data]
      BY <3>2, <3>3 DEF TypeOK
    <3>6. QED
      BY <3>1, <3>4, <3>5 DEF HandlesSound
  <2>12. QED
    BY <2>10, <2>11
<1>9. QED
  BY <1>7, <1>8 DEF ListPush

LEMMA ListSetSound ==
  ASSUME TypeOK, HandlesSound, NEW v \in Names, NEW i \in Int, NEW x \in Values,
         ListSet(v, i, x)
  PROVE  HandlesSound'
<1> DEFINE h == handle[v]
           c == heap[h.data]
           d == [c EXCEPT ![i + 1] = x]
<1>1. InScope(v) /\ 0 <= i /\ i < h.len
  BY DEF ListSet, InRange
<1>2. h.len \in Nat /\ h.cap \in Nat
  BY <1>1, HandleParts
<1>3. /\ Live(h.data) /\ c \in Seq(Cells) /\ Len(c) \in Nat
      /\ h.len <= h.cap /\ h.cap <= Len(c)
  BY <1>1, SoundReadable
<1>4. i + 1 \in 1 .. Len(c) /\ x \in Cells /\ x # Uninit
  BY <1>1, <1>2, <1>3, ConstantsAssumption DEF Cells
<1>5. Rewrite(v, d)
  BY <1>1, <1>2, <1>3 DEF ListSet
<1>6. /\ d \in Seq(Cells) /\ Len(d) = Len(c)
      /\ \A j \in 1 .. Len(c) : d[j] = IF j = i + 1 THEN x ELSE c[j]
  BY <1>3, <1>4, ExceptSeq
<1>7. \A j \in 1 .. Len(d) : c[j] # Uninit => d[j] # Uninit
  BY <1>4, <1>6
<1> HIDE DEF d
<1>8. QED
  BY <1>1, <1>5, <1>6, <1>7, RewriteSound

LEMMA ListRemoveSound ==
  ASSUME TypeOK, HandlesSound, NEW v \in Names, NEW i \in Int, ListRemove(v, i)
  PROVE  HandlesSound'
<1> DEFINE h == handle[v]
           c == heap[h.data]
           d == [k \in 1 .. Len(c) |-> IF i < k /\ k < h.len THEN c[k + 1] ELSE c[k]]
<1>1. InScope(v) /\ 0 <= i /\ i < h.len
  BY DEF ListRemove, InRange
<1>2. h \in Handle /\ h.data \in Addrs /\ h.len \in Nat /\ h.cap \in Nat
  BY <1>1, HandleParts
<1>3. h.len - 1 \in Nat
  BY <1>1, <1>2
<1>4. /\ Live(h.data) /\ c \in Seq(Cells) /\ Len(c) \in Nat
      /\ h.len <= h.cap /\ h.cap <= Len(c)
      /\ \A k \in 1 .. h.len : c[k] # Uninit
      /\ Readable(h, h.len)
  BY <1>1, <1>2, SoundReadable
<1>5. CASE i = h.len - 1
  <2>1. handle' = [handle EXCEPT ![v].len = h.len - 1] /\ heap' = heap
    BY <1>5 DEF ListRemove
  <2>2. SUFFICES ASSUME NEW n \in Names, handle'[n] # NoList
                 PROVE  Sound(handle'[n], heap'[handle'[n].data])
    BY DEF HandlesSound, InScope
  <2>3. CASE n = v
    <3>1. handle'[n] = [h EXCEPT !.len = h.len - 1]
      BY <2>1, <2>3 DEF TypeOK
    <3>2. /\ handle'[n].data = h.data /\ handle'[n].cap = h.cap
          /\ handle'[n].len = h.len - 1
      BY <3>1, <1>2 DEF Handle
    <3>3. Sound(h, c)
      BY <1>1 DEF HandlesSound
    <3> HIDE DEF h, c
    <3>4. Sound(handle'[n], c)
      BY <3>2, <3>3, <1>2, <1>3 DEF Sound
    <3>5. QED
      BY <3>2, <3>4, <2>1 DEF c
  <2>4. CASE n # v
    BY <2>1, <2>2, <2>4 DEF HandlesSound, TypeOK, InScope
  <2>5. QED
    BY <2>3, <2>4
<1>6. CASE i # h.len - 1
  <2>1. Store(v, h.data, d, h.len - 1, h.cap)
    BY <1>4, <1>6 DEF ListRemove
  <2>2. \A k \in 1 .. Len(c) : c[k] \in Cells
    BY <1>4, ElementOfSeq
  <2>3. d \in [1 .. Len(c) -> Cells]
    BY <2>2, <1>1, <1>2, <1>4
  <2>4. d \in Seq(Cells) /\ Len(d) = Len(c)
    BY <2>3, <1>4, Tabulated
  <2>5. \A k \in 1 .. Len(c) : c[k] # Uninit => d[k] # Uninit
    BY <1>1, <1>2, <1>4
  <2>6. d # Free
    BY <2>4, BlockNotFree
  <2> HIDE DEF d
  <2>7. ASSUME NEW n \in Names \ {v}, InScope(n), handle[n].data = h.data
        PROVE  Sound(handle[n], d)
    <3>1. Sound(handle[n], c) /\ handle[n].len \in Nat /\ handle[n].cap \in Nat
      BY <2>7, HandleParts DEF HandlesSound
    <3> HIDE DEF h, c
    <3>2. QED
      BY <3>1, <2>4, <2>5, <2>6, <1>4 DEF Sound
  <2>8. Sound([data |-> h.data, len |-> h.len - 1, cap |-> h.cap], d)
    <3> HIDE DEF h, c
    <3>1. QED
      BY <2>4, <2>5, <2>6, <1>2, <1>3, <1>4 DEF Sound
  <2> HIDE DEF h, c
  <2>9. QED
    BY <2>1, <2>4, <2>7, <2>8, <1>2, <1>3, StoreSound DEF h
<1>7. QED
  BY <1>5, <1>6

LEMMA RearrangedSound ==
  ASSUME TypeOK, HandlesSound, NEW v \in Names, InScope(v),
         NEW p, \A k \in 1 .. handle[v].len : p[k] \in 1 .. handle[v].len,
         Rewrite(v, [k \in 1 .. Len(heap[handle[v].data]) |->
                       IF k <= handle[v].len THEN heap[handle[v].data][p[k]]
                       ELSE heap[handle[v].data][k]])
  PROVE  HandlesSound'
<1> DEFINE h == handle[v]
           c == heap[h.data]
           d == [k \in 1 .. Len(c) |-> IF k <= h.len THEN c[p[k]] ELSE c[k]]
<1>1. h.len \in Nat /\ h.cap \in Nat
  BY HandleParts
<1>2. /\ c \in Seq(Cells) /\ Len(c) \in Nat /\ h.len <= h.cap /\ h.cap <= Len(c)
      /\ \A k \in 1 .. h.len : c[k] # Uninit
  BY SoundReadable
<1>3. \A k \in 1 .. h.len : p[k] \in 1 .. h.len
  OBVIOUS
<1>4. Rewrite(v, d)
  OBVIOUS
<1> HIDE DEF h, c
<1>5. d \in Seq(Cells) /\ Len(d) = Len(c)
  BY <1>1, <1>2, <1>3, Rearranged
<1>6. \A k \in 1 .. Len(c) : c[k] # Uninit => d[k] # Uninit
  BY <1>1, <1>2, <1>3
<1> HIDE DEF d
<1>7. QED
  BY <1>4, <1>5, <1>6, RewriteSound DEF h, c

LEMMA ListReverseSound ==
  ASSUME TypeOK, HandlesSound, NEW v \in Names, ListReverse(v)
  PROVE  HandlesSound'
<1> DEFINE h == handle[v]
           c == heap[h.data]
           p == [k \in 1 .. h.len |-> h.len - k + 1]
<1>1. InScope(v)
  BY DEF ListReverse
<1>2. h.len \in Nat /\ h.len \in 0 .. h.len /\ Readable(h, h.len)
  BY <1>1, HandleParts, SoundReadable
<1>3. CASE h.len < 2
  BY <1>3, SameSound DEF ListReverse
<1>4. CASE ~(h.len < 2)
  <2>1. Rewrite(v, [k \in 1 .. Len(c) |-> IF k <= h.len THEN c[h.len - k + 1] ELSE c[k]])
    BY <1>2, <1>4 DEF ListReverse
  <2>2. Len(c) \in Nat
    BY <1>1, SoundReadable
  <2>3. [k \in 1 .. Len(c) |-> IF k <= h.len THEN c[h.len - k + 1] ELSE c[k]]
        = [k \in 1 .. Len(c) |-> IF k <= h.len THEN c[p[k]] ELSE c[k]]
    BY <1>2, <2>2
  <2>4. \A k \in 1 .. h.len : p[k] \in 1 .. h.len
    BY <1>2
  <2> HIDE DEF p
  <2>5. QED
    BY <1>1, <2>1, <2>3, <2>4, RearrangedSound
<1>5. QED
  BY <1>3, <1>4

LEMMA ListSortSound ==
  ASSUME TypeOK, HandlesSound, NEW v \in Names, ListSort(v)
  PROVE  HandlesSound'
<1> DEFINE h == handle[v]
           c == heap[h.data]
<1>1. InScope(v)
  BY DEF ListSort
<1>2. h.len \in Nat /\ h.len \in 0 .. h.len /\ Readable(h, h.len)
  BY <1>1, HandleParts, SoundReadable
<1>3. CASE h.len = 0
  <2>1. heap' = heap /\ handle' = handle
    BY <1>2, <1>3 DEF ListSort
  <2>2. QED
    BY <2>1, SameSound
<1>4. CASE h.len # 0
  <2>1. PICK p \in Bijection(1 .. h.len, 1 .. h.len) :
          Rewrite(v, [k \in 1 .. Len(c) |-> IF k <= h.len THEN c[p[k]] ELSE c[k]])
    BY <1>2, <1>4 DEF ListSort
  <2>2. \A k \in 1 .. h.len : p[k] \in 1 .. h.len
    BY DEF Bijection, Injection
  <2>3. QED
    BY <1>1, <2>1, <2>2, RearrangedSound
<1>5. QED
  BY <1>3, <1>4

LEMMA ListSliceSound ==
  ASSUME TypeOK, HandlesSound, NEW w \in Names, NEW v \in Names,
         NEW from \in Int, NEW to \in Int, ListSlice(w, v, from, to)
  PROVE  HandlesSound'
<1> DEFINE h == handle[v]
           c == heap[h.data]
           start == SliceStart(h.len, from)
           n == SliceEnd(h.len, start, to) - start
           d == [i \in 1 .. n |-> c[start + i]]
<1>1. InScope(v)
  BY DEF ListSlice
<1>2. h.len \in Nat
  BY <1>1, HandleParts
<1>3. start \in Nat /\ n \in Nat /\ start + n \in 0 .. h.len
  <2>1. start \in 0 .. h.len /\ SliceEnd(h.len, start, to) \in start .. h.len
    BY <1>2, SliceBounds
  <2> HIDE DEF h, start
  <2>2. QED
    BY <2>1, <1>2
<1>4. /\ c \in Seq(Cells) /\ Len(c) \in Nat /\ h.len <= Len(c)
      /\ \A k \in 1 .. h.len : c[k] # Uninit /\ c[k] \in Cells
      /\ Readable(h, start + n)
  <2>1. /\ c \in Seq(Cells) /\ Len(c) \in Nat /\ h.len <= Len(c)
        /\ \A k \in 1 .. h.len : c[k] # Uninit
    BY <1>1, <1>2, HandleParts, SoundReadable
  <2>2. Readable(h, start + n)
    BY <1>1, <1>3, SoundReadable
  <2>3. \A k \in 1 .. Len(c) : c[k] \in Cells
    BY <2>1, ElementOfSeq
  <2> HIDE DEF h, c
  <2>4. QED
    BY <2>1, <2>2, <2>3, <1>2
<1>5. CASE n = 0
  <2>1. PICK a \in Addrs : ~Live(a) /\ Store(w, a, <<Uninit>>, 0, 1)
    BY <1>5 DEF ListSlice
  <2>2. <<Uninit>> \in Seq(Cells) /\ Sound([data |-> a, len |-> 0, cap |-> 1], <<Uninit>>)
    BY EmptyBlock
  <2>4. \A k \in Names \ {w} : ~(InScope(k) /\ handle[k].data = a)
    BY <2>1, FreshUnnamed
  <2>5. QED
    BY <2>1, <2>2, <2>4, StoreSound
<1>6. CASE n # 0
  <2>1. PICK a \in Addrs : ~Live(a) /\ Store(w, a, d, n, n)
    BY <1>4, <1>6 DEF ListSlice
  <2>2. \A k \in Names \ {w} : ~(InScope(k) /\ handle[k].data = a)
    BY <2>1, FreshUnnamed
  <2> HIDE DEF h, c, start, n
  <2>3. d \in [1 .. n -> Cells] /\ \A i \in 1 .. n : d[i] # Uninit
    BY <1>2, <1>3, <1>4
  <2>4. d \in Seq(Cells) /\ Len(d) = n
    BY <2>3, <1>3, Tabulated
  <2> HIDE DEF d
  <2>5. Sound([data |-> a, len |-> n, cap |-> n], d)
    BY <2>3, <2>4, <1>3, BlockNotFree DEF Sound
  <2>6. QED
    BY <2>1, <2>2, <2>4, <2>5, <1>3, StoreSound
<1>7. QED
  BY <1>5, <1>6

LEMMA SoundInit == Init => HandlesSound
<1> SUFFICES ASSUME Init PROVE HandlesSound
  OBVIOUS
<1>1. PICK a \in Addrs :
        /\ heap = [b \in Addrs |->
                     IF b # a THEN Free ELSE IF LaunchArgs = <<>> THEN <<Uninit>> ELSE LaunchArgs]
        /\ handle = [n \in Names |->
                       IF n = Cli
                       THEN [data |-> a, len |-> Len(LaunchArgs), cap |-> Len(LaunchArgs)]
                       ELSE NoList]
  BY DEF Init
<1>2. /\ LaunchArgs \in Seq(Cells) /\ Len(LaunchArgs) \in Nat
      /\ \A i \in 1 .. Len(LaunchArgs) : LaunchArgs[i] # Uninit
  BY ConstantsAssumption, LenProperties, SeqMonotonic, ElementOfSeq DEF Cells
<1>4. SUFFICES ASSUME NEW n \in Names, InScope(n)
               PROVE  Sound(handle[n], heap[handle[n].data])
  BY DEF HandlesSound
<1>5. handle[n] = [data |-> a, len |-> Len(LaunchArgs), cap |-> Len(LaunchArgs)]
  BY <1>1, <1>4 DEF InScope
<1>6. heap[handle[n].data] = IF LaunchArgs = <<>> THEN <<Uninit>> ELSE LaunchArgs
  BY <1>1, <1>5
<1>7. CASE LaunchArgs = <<>>
  <2>1. Len(LaunchArgs) = 0
    BY <1>7
  <2>2. QED
    BY <1>5, <1>6, <1>7, <2>1, EmptyBlock
<1>8. CASE LaunchArgs # <<>>
  BY <1>2, <1>5, <1>6, <1>8, BlockNotFree DEF Sound
<1>9. QED
  BY <1>7, <1>8

-------------------------------------------------------------------------------
(* A step from sound handles touches only what it may, so no statement and *)
(* no expression goes undefined.                                           *)

LEMMA StatementDefined ==
  ASSUME TypeOK, HandlesSound, NEW v \in Names, NEW x, NEW i \in Int,
         \/ ListPush(v, x) \/ ListSet(v, i, x) \/ ListRemove(v, i)
         \/ ListReverse(v) \/ ListSort(v)
  PROVE  status' = status
<1> DEFINE h == handle[v]
<1>1. InScope(v)
  BY DEF ListPush, ListSet, ListRemove, ListReverse, ListSort
<1>2. h.len \in Nat /\ h.cap \in Nat
  BY <1>1, HandleParts
<1>3. /\ Live(h.data) /\ Len(heap[h.data]) \in Nat
      /\ h.len <= h.cap /\ h.cap <= Len(heap[h.data])
      /\ Readable(h, h.len)
  BY <1>1, <1>2, SoundReadable
<1>4. ASSUME ListPush(v, x)
      PROVE  status' = status
  <2>1. CASE PushInPlace(v, x)
    BY <1>2, <1>3, <2>1 DEF PushInPlace, Store
  <2>2. CASE PushGrow(v, x)
    BY <1>3, <2>2 DEF PushGrow
  <2>3. QED
    BY <1>4, <2>1, <2>2 DEF ListPush
<1>5. ASSUME ListSet(v, i, x)
      PROVE  status' = status
  BY <1>2, <1>3, <1>5 DEF ListSet, InRange, Rewrite
<1>6. ASSUME ListRemove(v, i)
      PROVE  status' = status
  BY <1>3, <1>6 DEF ListRemove, Store
<1>7. ASSUME ListReverse(v)
      PROVE  status' = status
  BY <1>3, <1>7 DEF ListReverse, Rewrite
<1>8. ASSUME ListSort(v)
      PROVE  status' = status
  BY <1>3, <1>8 DEF ListSort, Rewrite
<1>9. QED
  BY <1>4, <1>5, <1>6, <1>7, <1>8

LEMMA ListSliceDefined ==
  ASSUME TypeOK, HandlesSound, NEW v \in Names, NEW w, NEW from \in Int, NEW to \in Int,
         ListSlice(w, v, from, to)
  PROVE  status' = status
<1> DEFINE h == handle[v]
           start == SliceStart(h.len, from)
           n == SliceEnd(h.len, start, to) - start
<1>1. InScope(v) /\ h.len \in Nat
  BY HandleParts DEF ListSlice
<1>2. start \in 0 .. h.len /\ SliceEnd(h.len, start, to) \in start .. h.len
  BY <1>1, SliceBounds
<1>3. start + n \in 0 .. h.len
  <2> HIDE DEF h, start
  <2>1. QED
    BY <1>1, <1>2
<1>4. Readable(h, start + n)
  BY <1>1, <1>3, SoundReadable
<1>5. QED
  BY <1>4 DEF ListSlice, Store

LEMMA ListGetDefined ==
  ASSUME TypeOK, HandlesSound, NEW v \in Names, NEW i \in Int, ListGet(v, i)
  PROVE  status' = status
<1>1. InScope(v) /\ 0 <= i /\ i < handle[v].len /\ handle[v].len \in Nat
  BY HandleParts DEF ListGet, InRange
<1>2. i + 1 \in 0 .. handle[v].len
  BY <1>1
<1>3. Readable(handle[v], i + 1)
  BY <1>1, <1>2, SoundReadable
<1>4. QED
  BY <1>3 DEF ListGet

LEMMA ListContainsDefined ==
  ASSUME TypeOK, HandlesSound, NEW v \in Names, NEW x, ListContains(v, x)
  PROVE  status' = status
<1>1. InScope(v) /\ handle[v].len \in 0 .. handle[v].len
  BY HandleParts DEF ListContains
<1>2. Readable(handle[v], handle[v].len)
  BY <1>1, SoundReadable
<1>3. QED
  BY <1>2 DEF ListContains

LEMMA ForInNextDefined ==
  ASSUME TypeOK, HandlesSound, ForInNext
  PROVE  status' = status
<1>1. /\ InScope(Iter) /\ Iter \in Names /\ pos \in Nat
      /\ pos < handle[Iter].len /\ handle[Iter].len \in Nat
  BY HandleParts DEF ForInNext, Names, TypeOK
<1>2. pos + 1 \in 0 .. handle[Iter].len
  BY <1>1
<1>3. Readable(handle[Iter], pos + 1)
  BY <1>1, <1>2, SoundReadable
<1>4. QED
  BY <1>3 DEF ForInNext

-------------------------------------------------------------------------------
(* The inductive invariant: soundness needs the types to speak of blocks   *)
(* and lengths, and a step is known to be defined from sound handles only. *)
IInv == TypeOK /\ HandlesSound /\ NeverUndefined

LEMMA IInvNext ==
  ASSUME Discipline # "none"
  PROVE  IInv /\ [Next]_vars => IInv'
<1> SUFFICES ASSUME TypeOK, HandlesSound, NeverUndefined, [Next]_vars
             PROVE  HandlesSound' /\ NeverUndefined'
  BY TypeNext DEF IInv
<1> DEFINE Kept == HandlesSound' /\ NeverUndefined'
<1>1. ASSUME NEW v \in Names, NEW s \in BoundedSeq(Values, MaxLen), ListNew(v, s)
      PROVE  Kept
  BY <1>1, ListNewSound DEF ListNew, Store, NeverUndefined
<1>2. ASSUME NEW v \in Names, NEW w \in Names, Copy(v, w)
      PROVE  Kept
  BY <1>2, MovesSound DEF Copy, NeverUndefined
<1>3. ASSUME NEW v \in Names, ListReverse(v) \/ ListSort(v)
      PROVE  Kept
  <2>1. status' = status
    BY <1>3, StatementDefined
  <2>2. QED
    BY <1>3, <2>1, ListReverseSound, ListSortSound DEF NeverUndefined
<1>4. ASSUME NEW v \in Names, NEW x \in Values, ListPush(v, x)
      PROVE  Kept
  <2>1. status' = status
    BY <1>4, StatementDefined
  <2>2. QED
    BY <1>4, <2>1, ListPushSound DEF NeverUndefined
<1>5. ASSUME NEW v \in Names, NEW i \in Int, NEW x \in Values, ListSet(v, i, x)
      PROVE  Kept
  <2>1. status' = status
    BY <1>5, StatementDefined
  <2>2. QED
    BY <1>5, <2>1, ListSetSound DEF NeverUndefined
<1>6. ASSUME NEW v \in Names, NEW i \in Int, ListRemove(v, i)
      PROVE  Kept
  <2>1. status' = status
    BY <1>6, StatementDefined
  <2>2. QED
    BY <1>6, <2>1, ListRemoveSound DEF NeverUndefined
<1>7. ASSUME NEW v \in Names, NEW w \in Names, NEW from \in Int, NEW to \in Int,
             ListSlice(w, v, from, to)
      PROVE  Kept
  <2>1. status' = status
    BY <1>7, ListSliceDefined
  <2>2. QED
    BY <1>7, <2>1, ListSliceSound DEF NeverUndefined
<1>8. ASSUME heap' = heap, handle' = handle, status' # "undefined"
      PROVE  Kept
  BY <1>8, SameSound DEF NeverUndefined
<1>9. ASSUME NEW v \in Names, NEW i \in Int, ListGet(v, i) \/ OutOfBounds(v, i)
      PROVE  Kept
  <2>1. status' \in {status, "exited"}
    BY <1>9, ListGetDefined DEF OutOfBounds
  <2>2. heap' = heap /\ handle' = handle
    BY <1>9 DEF ListGet, OutOfBounds, Undefined
  <2>3. QED
    BY <1>8, <2>1, <2>2 DEF NeverUndefined
<1>10. ASSUME NEW v \in Names, ListLen(v) \/ \E x \in Values : ListContains(v, x)
       PROVE  Kept
  <2>1. status' = status
    BY <1>10, ListContainsDefined DEF ListLen
  <2>2. heap' = heap /\ handle' = handle
    BY <1>10 DEF ListContains, ListLen, Undefined
  <2>3. QED
    BY <1>8, <2>1, <2>2 DEF NeverUndefined
<1>11. ASSUME NEW v \in Names, Drop(v) \/ ForInStart(v)
       PROVE  Kept
  BY <1>11, MovesSound DEF Drop, ForInStart, NeverUndefined
<1>12. CASE ForInNext
  <2>1. status' = status
    BY <1>12, ForInNextDefined
  <2>2. heap' = heap /\ handle' = handle
    BY <1>12 DEF ForInNext, Undefined
  <2>3. QED
    BY <1>8, <2>1, <2>2 DEF NeverUndefined
<1>13. CASE ForInEnd
  <2>1. Iter \in Names
    BY DEF Names
  <2>2. QED
    BY <1>13, <2>1, MovesSound DEF ForInEnd, NeverUndefined
<1>14. CASE UNCHANGED vars
  BY <1>8, <1>14 DEF vars, NeverUndefined
<1>15. Vars \subseteq Names /\ Vars \cup {Cli} \subseteq Names
  BY DEF Names
<1>16. ASSUME NEW v \in Vars,
              Drop(v) \/ ListReverse(v) \/ ListSort(v) \/ ListLen(v) \/ ForInStart(v)
       PROVE  Kept
  BY <1>3, <1>10, <1>11, <1>15, <1>16
<1>17. ASSUME NEW v \in Vars, NEW x \in Values, ListPush(v, x) \/ ListContains(v, x)
       PROVE  Kept
  BY <1>4, <1>10, <1>15, <1>17
<1>18. ASSUME NEW v \in Vars, NEW i \in Indices,
              ListRemove(v, i) \/ ListGet(v, i) \/ OutOfBounds(v, i)
       PROVE  Kept
  BY <1>6, <1>9, <1>15, <1>18, IndicesInt
<1>19. QED
  BY <1>1, <1>2, <1>5, <1>7, <1>12, <1>13, <1>14, <1>15, <1>16, <1>17, <1>18, IndicesInt DEF Next

(* A program that pushes only through the sole handle of a block keeps     *)
(* every handle sound and never reaches undefined behaviour in the list    *)
(* runtime, however it shares and overwrites lists otherwise.              *)
THEOREM MemorySafe ==
  ASSUME Discipline # "none"
  PROVE  Spec => []MemorySound
<1>1. Init => IInv
  BY TypeInit, SoundInit DEF Init, IInv, NeverUndefined
<1>2. IInv /\ [Next]_vars => IInv'
  BY IInvNext
<1>3. IInv => MemorySound
  BY DEF IInv, MemorySound
<1>4. QED
  BY <1>1, <1>2, <1>3, PTL DEF Spec

-------------------------------------------------------------------------------
(* Lists by value                                                          *)

(* What the program can print of every name: the refinement mapping. *)
Lists == [n \in Names |-> Contents(n)]

-------------------------------------------------------------------------------
(* The first k cells of a block, as a list. *)
FirstCells(c, k) == [i \in 1 .. k |-> c[i]]

(* What a sound handle stands for is a list of values, and never NoList. *)
LEMMA ContentsOf ==
  ASSUME TypeOK, HandlesSound, NEW n \in Names, InScope(n)
  PROVE  /\ Contents(n) = FirstCells(heap[handle[n].data], handle[n].len)
         /\ Contents(n) \in Seq(Values)
         /\ Len(Contents(n)) = handle[n].len
         /\ Contents(n) # NoList
<1> DEFINE h == handle[n]
           c == heap[h.data]
<1>1. h.data \in Addrs /\ h.len \in Nat
  BY HandleParts
<1>2. /\ Live(h.data) /\ c \in Seq(Cells) /\ Len(c) \in Nat
      /\ h.len <= Len(c) /\ \A i \in 1 .. h.len : c[i] # Uninit
  BY <1>1, SoundReadable, HandleParts
<1>3. \A i \in 1 .. h.len : Cell(h.data, i) = c[i]
  BY <1>1, <1>2 DEF Cell
<1>4. \A i \in 1 .. h.len : c[i] \in Values
  BY <1>1, <1>2, ElementOfSeq DEF Cells
<1>5. Contents(n) = FirstCells(c, h.len)
  BY <1>3 DEF Contents, FirstCells
<1> HIDE DEF h, c
<1>6. FirstCells(c, h.len) \in [1 .. h.len -> Values]
  BY <1>4 DEF FirstCells
<1>7. FirstCells(c, h.len) \in Seq(Values) /\ Len(FirstCells(c, h.len)) = h.len
  BY <1>1, <1>6, Tabulated
<1>8. QED
  BY <1>5, <1>7, ConstantsAssumption DEF h, c

(* A name that has w's handle after a step which leaves w's block alone    *)
(* then has w's list.                                                      *)
LEMMA ContentsKept ==
  ASSUME NEW n \in Names, NEW w \in Names, handle'[n] = handle[w],
         InScope(w) => heap'[handle[w].data] = heap[handle[w].data]
  PROVE  Contents(n)' = Contents(w)
BY DEF Contents, InScope, Cell, Live

(* What v stands for after a step, from its handle and its block.          *)
LEMMA ContentsNext ==
  ASSUME NEW v \in Names, NEW a \in Addrs, NEW len \in Nat, NEW cap, NEW c \in Seq(Cells),
         handle'[v] = [data |-> a, len |-> len, cap |-> cap], handle'[v] # NoList,
         heap'[a] = c, len <= Len(c)
  PROVE  Contents(v)' = FirstCells(c, len)
<1>1. c # Free /\ Len(c) \in Nat
  BY BlockNotFree, LenProperties
<1>2. handle'[v].data = a /\ handle'[v].len = len
  OBVIOUS
<1>3. Contents(v)' = [i \in 1 .. len |-> IF c # Free /\ i <= Len(c) THEN c[i] ELSE Uninit]
  BY <1>2 DEF Contents, InScope, Cell, Live
<1>4. QED
  BY <1>1, <1>3 DEF FirstCells

(* A step of one name: every other one keeps its list. *)
LEMMA ListsNext ==
  ASSUME NEW v \in Names, NEW x, Contents(v)' = x,
         \A n \in Names \ {v} :
           /\ handle'[n] = handle[n]
           /\ InScope(n) => heap'[handle[n].data] = heap[handle[n].data]
  PROVE  Lists' = [Lists EXCEPT ![v] = x]
<1>1. \A n \in Names \ {v} : Contents(n)' = Contents(n)
  BY ContentsKept
<1>2. QED
  BY <1>1 DEF Lists

LEMMA StoreLists ==
  ASSUME TypeOK, NEW v \in Names, NEW a \in Addrs, NEW c \in Seq(Cells),
         NEW len \in Nat, NEW cap \in Nat, Store(v, a, c, len, cap), len <= Len(c),
         \A n \in Names \ {v} : ~(InScope(n) /\ handle[n].data = a)
  PROVE  Lists' = [Lists EXCEPT ![v] = FirstCells(c, len)]
<1> DEFINE m == [heap EXCEPT ![a] = c]
           h == [data |-> a, len |-> len, cap |-> cap]
<1>1. handle' = [handle EXCEPT ![v] = h] /\ heap' = Reached(m)
  BY DEF Store
<1>2. handle'[v] = h /\ h.data = a /\ h # NoList
  BY <1>1, ConstantsAssumption DEF TypeOK, Handle
<1>3. heap'[a] = m[a] /\ m[a] = c
  BY <1>1, <1>2, ReachedBlock DEF TypeOK
<1>4. Contents(v)' = FirstCells(c, len)
  BY <1>2, <1>3, ContentsNext
<1>5. ASSUME NEW n \in Names \ {v}
      PROVE  /\ handle'[n] = handle[n]
             /\ InScope(n) => heap'[handle[n].data] = heap[handle[n].data]
  <2>1. handle'[n] = handle[n]
    BY <1>1 DEF TypeOK
  <2>2. ASSUME InScope(n)
        PROVE  heap'[handle[n].data] = heap[handle[n].data]
    <3>1. handle[n].data \in Addrs /\ handle[n].data # a
      BY <2>2, HandleParts
    <3>2. heap'[handle[n].data] = m[handle[n].data]
      BY <1>1, <2>1, <2>2, <3>1, ReachedBlock DEF InScope
    <3>3. QED
      BY <3>1, <3>2 DEF TypeOK
  <2>3. QED
    BY <2>1, <2>2
<1>6. QED
  BY <1>4, <1>5, ListsNext

(* The block of a sole handle is written: its list changes and no other.   *)
LEMMA RewriteLists ==
  ASSUME TypeOK, HandlesSound, NEW v \in Names, InScope(v), Sole(v), NEW c \in Seq(Cells),
         Rewrite(v, c), handle[v].len <= Len(c)
  PROVE  Lists' = [Lists EXCEPT ![v] = FirstCells(c, handle[v].len)]
<1> DEFINE h == handle[v]
<1>1. h \in Handle /\ h.data \in Addrs /\ h.len \in Nat
  BY HandleParts
<1>2. heap' = [heap EXCEPT ![h.data] = c] /\ handle' = handle
  BY DEF Rewrite
<1>3. heap'[h.data] = c
  BY <1>1, <1>2 DEF TypeOK
<1>4. Contents(v)' = FirstCells(c, h.len)
  <2>1. h = [data |-> h.data, len |-> h.len, cap |-> h.cap]
    BY <1>1 DEF Handle
  <2>2. handle'[v] = [data |-> h.data, len |-> h.len, cap |-> h.cap] /\ handle'[v] # NoList
    BY <1>2, <2>1 DEF InScope
  <2> HIDE DEF h
  <2>3. QED
    BY <1>1, <1>3, <2>2, ContentsNext DEF h
<1>5. \A n \in Names \ {v} : InScope(n) => handle[n].data \in Addrs /\ handle[n].data # h.data
  BY HandleParts DEF Sole
<1>6. QED
  BY <1>2, <1>4, <1>5, ListsNext DEF TypeOK

(* The names a step leaves alone keep their blocks, which are still named. *)
LEMMA BlocksKept ==
  ASSUME TypeOK, NEW n \in Names, InScope(n), handle'[n] = handle[n],
         heap' = Reached(heap) \/ heap' = heap
  PROVE  heap'[handle[n].data] = heap[handle[n].data]
<1>1. handle[n].data \in Addrs
  BY HandleParts
<1>2. QED
  BY <1>1, ReachedBlock DEF InScope

(* v's handle becomes w's. *)
LEMMA CopyLists ==
  ASSUME TypeOK, NEW v \in Names, NEW w \in Names, InScope(w),
         handle' = [handle EXCEPT ![v] = handle[w]],
         heap' = Reached(heap) \/ heap' = heap
  PROVE  Lists' = [Lists EXCEPT ![v] = Lists[w]]
<1>1. handle'[v] = handle[w] /\ handle[w].data \in Addrs /\ handle[w] # NoList
  BY HandleParts DEF TypeOK, InScope
<1>2. heap'[handle[w].data] = heap[handle[w].data]
  BY <1>1, ReachedBlock
<1>3. Contents(v)' = Contents(w)
  BY <1>1, <1>2, ContentsKept
<1>4. \A n \in Names \ {v} : handle'[n] = handle[n]
  BY DEF TypeOK
<1>5. Lists[w] = Contents(w)
  BY DEF Lists
<1>6. QED
  BY <1>3, <1>4, <1>5, BlocksKept, ListsNext

(* v's handle goes. *)
LEMMA ForgetLists ==
  ASSUME TypeOK, NEW v \in Names,
         handle' = [handle EXCEPT ![v] = NoList],
         heap' = Reached(heap) \/ heap' = heap
  PROVE  Lists' = [Lists EXCEPT ![v] = NoList]
<1>1. handle'[v] = NoList
  BY DEF TypeOK
<1>2. Contents(v)' = NoList
  BY <1>1 DEF Contents, InScope
<1>3. \A n \in Names \ {v} : handle'[n] = handle[n]
  BY DEF TypeOK
<1>4. QED
  BY <1>2, <1>3, BlocksKept, ListsNext

(* A step that leaves memory and handles alone. *)
LEMMA SameLists ==
  ASSUME heap' = heap, handle' = handle
  PROVE  Lists' = Lists
<1>1. \A n \in Names : Contents(n)' = Contents(n)
  BY ContentsKept
<1>2. QED
  BY <1>1 DEF Lists

-------------------------------------------------------------------------------
(* The operators ValueLists describes its statements with, as functions.   *)

LEMMA FirstSeq ==
  ASSUME NEW c \in Seq(Cells), NEW k \in Nat, k <= Len(c)
  PROVE  FirstCells(c, k) \in Seq(Cells) /\ Len(FirstCells(c, k)) = k
<1>1. Len(c) \in Nat
  BY LenProperties
<1>2. \A i \in 1 .. k : c[i] \in Cells
  BY <1>1, ElementOfSeq
<1>3. FirstCells(c, k) \in [1 .. k -> Cells]
  BY <1>2 DEF FirstCells
<1>4. QED
  BY <1>3, Tabulated

LEMMA RemoveAtIs ==
  ASSUME NEW S, NEW s \in Seq(S), NEW i \in 1 .. Len(s)
  PROVE  RemoveAt(s, i) = [k \in 1 .. Len(s) - 1 |-> IF k < i THEN s[k] ELSE s[k + 1]]
<1> DEFINE p == SubSeq(s, 1, i - 1)
           q == SubSeq(s, i + 1, Len(s))
           r == [k \in 1 .. Len(s) - 1 |-> IF k < i THEN s[k] ELSE s[k + 1]]
<1>1. Len(s) \in Nat /\ i \in Nat /\ 1 <= i /\ i <= Len(s)
  BY LenProperties
<1>2. p \in Seq(S) /\ Len(p) = i - 1 /\ \A k \in 1 .. i - 1 : p[k] = s[k]
  BY <1>1, SubSeqProperties
<1>3. q \in Seq(S) /\ Len(q) = Len(s) - i /\ \A k \in 1 .. Len(s) - i : q[k] = s[i + k]
  BY <1>1, SubSeqProperties
<1> HIDE DEF p, q
<1>4. /\ p \o q \in Seq(S) /\ Len(p \o q) = Len(s) - 1
      /\ \A k \in 1 .. Len(s) - 1 : (p \o q)[k] = IF k <= i - 1 THEN p[k] ELSE q[k - (i - 1)]
  <2>1. /\ p \o q \in Seq(S)
        /\ Len(p \o q) = Len(p) + Len(q)
        /\ \A k \in 1 .. Len(p) + Len(q) :
             (p \o q)[k] = IF k <= Len(p) THEN p[k] ELSE q[k - Len(p)]
    BY <1>2, <1>3, ConcatProperties
  <2>2. Len(p) = i - 1 /\ Len(p) + Len(q) = Len(s) - 1
    BY <1>1, <1>2, <1>3
  <2>3. QED
    BY <2>1, <2>2
<1>5. \A k \in 1 .. Len(s) - 1 : (p \o q)[k] = r[k]
  <2> SUFFICES ASSUME NEW k \in 1 .. Len(s) - 1
               PROVE  (p \o q)[k] = r[k]
    OBVIOUS
  <2>1. CASE k < i
    BY <1>1, <1>2, <1>4, <2>1
  <2>2. CASE ~(k < i)
    <3>1. k - (i - 1) \in 1 .. Len(s) - i
      BY <1>1, <2>2
    <3>2. q[k - (i - 1)] = s[k + 1]
      BY <1>1, <1>3, <3>1
    <3>3. QED
      BY <1>1, <1>4, <2>2, <3>2
  <2>3. QED
    BY <2>1, <2>2
<1>6. p \o q = [k \in 1 .. Len(s) - 1 |-> (p \o q)[k]]
  BY <1>4, LenProperties
<1>7. QED
  BY <1>5, <1>6 DEF RemoveAt, p, q

(* The instance ValueLists has the operators on sequences once more. *)
LEMMA SameOperators ==
  ASSUME NEW s, NEW i, NEW x
  PROVE  /\ Promise!ReplaceAt(s, i, x) = ReplaceAt(s, i, x)
         /\ Promise!RemoveAt(s, i) = RemoveAt(s, i)
         /\ Promise!Reverse(s) = Reverse(s)
BY DEF ReplaceAt, RemoveAt, Reverse, Promise!ReplaceAt, Promise!RemoveAt, Promise!Reverse

LEMMA FirstAll ==
  ASSUME NEW S, NEW s \in Seq(S)
  PROVE  FirstCells(s, Len(s)) = s
BY LenProperties DEF FirstCells

(* The list of every name under the mapping. *)
LEMMA ListOf ==
  ASSUME TypeOK, HandlesSound, NEW n \in Names
  PROVE  /\ InScope(n) <=> Lists[n] # NoList
         /\ InScope(n) => /\ Lists[n] = FirstCells(heap[handle[n].data], handle[n].len)
                          /\ Lists[n] \in Seq(Values)
                          /\ Len(Lists[n]) = handle[n].len
BY ContentsOf DEF Lists, Contents

-------------------------------------------------------------------------------
(* One lemma for each action: it does to the lists what ValueLists says.   *)

LEMMA ListNewPromised ==
  ASSUME TypeOK, HandlesSound, NEW v \in Names, NEW s \in BoundedSeq(Values, MaxLen),
         ListNew(v, s)
  PROVE  Promise!ListNew(v, s)
<1>1. PICK n \in 0 .. MaxLen : s \in [1 .. n -> Values]
  BY DEF BoundedSeq, SeqOf
<1>2. n \in Nat /\ s \in [1 .. n -> Cells]
  BY <1>1, ConstantsAssumption DEF Cells
<1>3. s \in Seq(Cells) /\ Len(s) \in Nat
  BY <1>2, Tabulated
<1>4. PICK a \in Addrs : ~Live(a) /\ Store(v, a, s, Len(s), Len(s))
  BY DEF ListNew
<1>5. \A k \in Names \ {v} : ~(InScope(k) /\ handle[k].data = a)
  BY <1>4, FreshUnnamed
<1>6. Lists' = [Lists EXCEPT ![v] = s]
  BY <1>3, <1>4, <1>5, StoreLists, FirstAll
<1>7. QED
  BY <1>4, <1>6 DEF ListNew, Store, Running, Lists, Promise!ListNew, Promise!Running

LEMMA CopyPromised ==
  ASSUME TypeOK, HandlesSound, NEW v \in Names, NEW w \in Names, Copy(v, w)
  PROVE  Promise!Copy(v, w)
<1>1. Lists' = [Lists EXCEPT ![v] = Lists[w]]
  BY CopyLists DEF Copy
<1>2. Lists[w] # NoList
  BY ListOf DEF Copy
<1>3. QED
  BY <1>1, <1>2 DEF Copy, Running, Lists, Promise!Copy, Promise!Running, Promise!InScope

LEMMA DropPromised ==
  ASSUME TypeOK, HandlesSound, NEW v \in Names, Drop(v)
  PROVE  Promise!Drop(v)
<1>1. Lists' = [Lists EXCEPT ![v] = NoList]
  BY ForgetLists DEF Drop
<1>2. Lists[v] # NoList
  BY ListOf DEF Drop
<1>3. QED
  BY <1>1, <1>2 DEF Drop, Running, Lists, Promise!Drop, Promise!Running, Promise!InScope

(* Append, on the front of a block. *)
LEMMA FirstAppend ==
  ASSUME NEW c \in Seq(Cells), NEW d \in Seq(Cells), NEW k \in Nat, NEW x \in Cells,
         k <= Len(c), k + 1 <= Len(d), d[k + 1] = x, \A i \in 1 .. k : d[i] = c[i]
  PROVE  FirstCells(d, k + 1) = Append(FirstCells(c, k), x)
<1>1. FirstCells(c, k) \in Seq(Cells) /\ Len(FirstCells(c, k)) = k
  BY FirstSeq
<1>2. Append(FirstCells(c, k), x) = [i \in 1 .. k + 1 |-> IF i = k + 1 THEN x ELSE c[i]]
  BY <1>1 DEF FirstCells
<1>3. QED
  BY <1>2 DEF FirstCells

LEMMA ListPushPromised ==
  ASSUME TypeOK, HandlesSound, Discipline # "none",
         NEW v \in Names, NEW x \in Values, ListPush(v, x)
  PROVE  Promise!ListPush(v, x)
<1> DEFINE h == handle[v]
           c == heap[h.data]
<1>1. InScope(v) /\ Sole(v) /\ h.len < MaxLen
  BY ConstantsAssumption DEF ListPush, MayPush
<1>2. h \in Handle /\ h.data \in Addrs /\ h.len \in Nat /\ h.cap \in Nat
  BY <1>1, HandleParts
<1>3. /\ Live(h.data) /\ c \in Seq(Cells) /\ Len(c) \in Nat
      /\ h.len <= h.cap /\ h.cap <= Len(c)
  BY <1>1, SoundReadable
<1>4. x \in Cells
  BY DEF Cells
<1>5. \A n \in Names \ {v} : ~(InScope(n) /\ handle[n].data = h.data)
  BY <1>1 DEF Sole
<1>6. Lists[v] = FirstCells(c, h.len) /\ Len(Lists[v]) = h.len /\ Lists[v] # NoList
  BY <1>1, ListOf
<1>7. ASSUME PushInPlace(v, x)
      PROVE  /\ Lists' = [Lists EXCEPT ![v] = Append(Lists[v], x)]
             /\ result' = 0 /\ pos' = pos /\ status' = status
  <2> DEFINE d == [c EXCEPT ![h.len + 1] = x]
  <2>1. h.len < h.cap /\ h.len + 1 \in 1 .. Len(c)
    BY <1>7, <1>2, <1>3 DEF PushInPlace
  <2>2. Store(v, h.data, d, h.len + 1, h.cap)
    BY <1>7, <1>2, <1>3, <2>1 DEF PushInPlace
  <2>3. /\ d \in Seq(Cells) /\ Len(d) = Len(c)
        /\ \A j \in 1 .. Len(c) : d[j] = IF j = h.len + 1 THEN x ELSE c[j]
    BY <2>1, <1>3, <1>4, ExceptSeq
  <2> HIDE DEF d, c
  <2> HIDE DEF h
  <2>4. FirstCells(d, h.len + 1) = Append(FirstCells(c, h.len), x)
    <3>1. /\ h.len <= Len(c) /\ h.len + 1 <= Len(d) /\ d[h.len + 1] = x
          /\ \A i \in 1 .. h.len : d[i] = c[i]
      BY <2>1, <2>3, <1>2, <1>3
    <3>2. QED
      BY <3>1, <2>3, <1>2, <1>3, <1>4, FirstAppend
  <2>5. Lists' = [Lists EXCEPT ![v] = FirstCells(d, h.len + 1)]
    BY <2>1, <2>2, <2>3, <1>2, <1>3, <1>5, StoreLists
  <2>6. QED
    BY <2>2, <2>4, <2>5, <1>6 DEF Store
<1>8. ASSUME PushGrow(v, x)
      PROVE  /\ Lists' = [Lists EXCEPT ![v] = Append(Lists[v], x)]
             /\ result' = 0 /\ pos' = pos /\ status' = status
  <2> DEFINE cap == IF h.cap = 0 THEN 4 ELSE 2 * h.cap
             g == Grown(c, cap, h.len + 1, x)
             hh(a) == [data |-> a, len |-> h.len + 1, cap |-> cap]
             m(a) == [heap EXCEPT ![h.data] = Free, ![a] = g]
  <2>1. PICK a \in Addrs :
          /\ a = h.data \/ ~Live(a)
          /\ handle' = [handle EXCEPT ![v] = hh(a)]
          /\ heap' = Reached(m(a))
          /\ result' = 0 /\ pos' = pos /\ status' = status
    BY <1>8, <1>3 DEF PushGrow
  <2>2. cap \in Nat /\ h.len + 1 <= cap /\ h.len = h.cap
    BY <1>8, <1>2 DEF PushGrow
  <2>3. g = [i \in 1 .. cap |-> IF i = h.len + 1 THEN x ELSE IF i <= Len(c) THEN c[i] ELSE Uninit]
    BY DEF Grown
  <2>4. hh(a).data = a /\ hh(a).len = h.len + 1 /\ hh(a) \in Handle
    BY <2>2, <1>2 DEF Handle
  <2>5. handle'[v] = hh(a)
    BY <2>1 DEF TypeOK
  <2>6. handle'[v] # NoList
    BY <2>4, <2>5, ConstantsAssumption
  <2>7. heap'[a] = g
    <3>1. heap'[a] = m(a)[a]
      BY <2>1, <2>4, <2>5, <2>6, ReachedBlock
    <3>2. m(a)[a] = g
      BY DEF TypeOK
    <3>3. QED
      BY <3>1, <3>2
  <2> HIDE DEF g, c
  <2>8. /\ g \in Seq(Cells) /\ Len(g) = cap /\ g[h.len + 1] = x
        /\ \A i \in 1 .. h.len : g[i] = c[i]
    <3> HIDE DEF cap
    <3>1. \A i \in 1 .. cap : i <= Len(c) => c[i] \in Cells
      BY <1>3, <2>2, ElementOfSeq
    <3>2. g \in [1 .. cap -> Cells]
      BY <2>3, <3>1, <1>4 DEF Cells
    <3>3. g[h.len + 1] = x /\ \A i \in 1 .. h.len : g[i] = c[i]
      BY <2>2, <2>3, <1>2, <1>3
    <3>4. QED
      BY <3>2, <3>3, <2>2, Tabulated
  <2>9. FirstCells(g, h.len + 1) = Append(FirstCells(c, h.len), x)
    <3> HIDE DEF cap
    <3>1. QED
      BY <2>2, <2>8, <1>2, <1>3, <1>4, FirstAppend
  <2>10. Contents(v)' = FirstCells(g, h.len + 1)
    <3> HIDE DEF cap, h
    <3>1. QED
      BY <2>2, <2>5, <2>6, <2>7, <2>8, <1>2, ContentsNext
  <2>11. ASSUME NEW n \in Names \ {v}
         PROVE  /\ handle'[n] = handle[n]
                /\ InScope(n) => heap'[handle[n].data] = heap[handle[n].data]
    <3>1. handle'[n] = handle[n]
      BY <2>1 DEF TypeOK
    <3>2. ASSUME InScope(n)
          PROVE  heap'[handle[n].data] = heap[handle[n].data]
      <4>1. handle[n].data \in Addrs /\ handle[n].data # h.data
        BY <3>2, <1>5, HandleParts
      <4>2. handle[n].data # a
        BY <2>1, <3>2, <4>1, FreshUnnamed
      <4>3. heap'[handle[n].data] = m(a)[handle[n].data]
        BY <2>1, <3>1, <3>2, <4>1, ReachedBlock DEF InScope
      <4>4. m(a)[handle[n].data] = heap[handle[n].data]
        BY <4>1, <4>2 DEF TypeOK
      <4>5. QED
        BY <4>3, <4>4
    <3>3. QED
      BY <3>1, <3>2
  <2>12. Lists' = [Lists EXCEPT ![v] = FirstCells(g, h.len + 1)]
    BY <2>10, <2>11, ListsNext
  <2>13. QED
    BY <2>1, <2>9, <2>12, <1>6
<1>9. /\ Lists' = [Lists EXCEPT ![v] = Append(Lists[v], x)]
      /\ result' = 0 /\ pos' = pos /\ status' = status
  BY <1>7, <1>8 DEF ListPush
<1>10. Running /\ call' = <<"push", v, x>> /\ Len(Lists[v]) < MaxLen
  BY <1>1, <1>6 DEF ListPush
<1>11. QED
  BY <1>6, <1>9, <1>10
     DEF Running, Lists, Promise!ListPush, Promise!Running, Promise!InScope

LEMMA ListSetPromised ==
  ASSUME TypeOK, HandlesSound, Discipline = "writes",
         NEW v \in Names, NEW i \in Int, NEW x \in Values, ListSet(v, i, x)
  PROVE  Promise!ListSet(v, i, x)
<1> DEFINE h == handle[v]
           c == heap[h.data]
           d == [c EXCEPT ![i + 1] = x]
<1>1. InScope(v) /\ Sole(v) /\ 0 <= i /\ i < h.len
  BY DEF ListSet, MayWrite, InRange
<1>2. h.len \in Nat /\ h.cap \in Nat
  BY <1>1, HandleParts
<1>3. /\ Live(h.data) /\ c \in Seq(Cells) /\ Len(c) \in Nat
      /\ h.len <= h.cap /\ h.cap <= Len(c)
  BY <1>1, SoundReadable
<1>4. i + 1 \in 1 .. Len(c) /\ x \in Cells
  BY <1>1, <1>2, <1>3 DEF Cells
<1>5. Rewrite(v, d)
  BY <1>1, <1>2, <1>3 DEF ListSet
<1>6. /\ d \in Seq(Cells) /\ Len(d) = Len(c)
      /\ \A j \in 1 .. Len(c) : d[j] = IF j = i + 1 THEN x ELSE c[j]
  BY <1>3, <1>4, ExceptSeq
<1>7. Lists[v] = FirstCells(c, h.len) /\ Len(Lists[v]) = h.len /\ Lists[v] # NoList
  BY <1>1, ListOf
<1> HIDE DEF d
<1>8. Lists' = [Lists EXCEPT ![v] = FirstCells(d, h.len)]
  <2>1. h.len <= Len(d)
    BY <1>2, <1>3, <1>6
  <2>2. QED
    BY <2>1, <1>1, <1>5, <1>6, RewriteLists
<1>9. FirstCells(d, h.len) = ReplaceAt(Lists[v], i + 1, x)
  <2>1. ReplaceAt(FirstCells(c, h.len), i + 1, x)
        = [k \in 1 .. h.len |-> IF k = i + 1 THEN x ELSE c[k]]
    BY <1>1, <1>2 DEF ReplaceAt, FirstCells
  <2>2. \A k \in 1 .. h.len : d[k] = IF k = i + 1 THEN x ELSE c[k]
    BY <1>2, <1>3, <1>6
  <2>3. FirstCells(d, h.len) = [k \in 1 .. h.len |-> IF k = i + 1 THEN x ELSE c[k]]
    BY <2>2 DEF FirstCells
  <2>4. QED
    BY <2>1, <2>3, <1>7
<1>10. Running /\ call' = <<"set", v, i, x>> /\ result' = 0 /\ pos' = pos /\ status' = status
  BY <1>5 DEF ListSet, Rewrite
<1>11. Lists' = [Lists EXCEPT ![v] = ReplaceAt(Lists[v], i + 1, x)]
  BY <1>8, <1>9
<1> HIDE DEF h, c
<1>12. Promise!ReplaceAt(Lists[v], i + 1, x) = ReplaceAt(Lists[v], i + 1, x)
  BY SameOperators
<1>13. QED
  BY <1>1, <1>7, <1>10, <1>11, <1>12
     DEF Running, Lists, Promise!ListSet, Promise!Running, Promise!InScope, Promise!InRange

LEMMA ListRemovePromised ==
  ASSUME TypeOK, HandlesSound, Discipline = "writes",
         NEW v \in Names, NEW i \in Int, ListRemove(v, i)
  PROVE  Promise!ListRemove(v, i)
<1> DEFINE h == handle[v]
           c == heap[h.data]
           d == [k \in 1 .. Len(c) |-> IF i < k /\ k < h.len THEN c[k + 1] ELSE c[k]]
<1>1. InScope(v) /\ Sole(v) /\ 0 <= i /\ i < h.len
  BY DEF ListRemove, MayWrite, InRange
<1>2. h \in Handle /\ h.data \in Addrs /\ h.len \in Nat /\ h.cap \in Nat /\ h.len - 1 \in Nat
  <2>1. h \in Handle /\ h.data \in Addrs /\ h.len \in Nat /\ h.cap \in Nat
    BY <1>1, HandleParts
  <2>2. QED
    BY <2>1, <1>1
<1>3. /\ Live(h.data) /\ c \in Seq(Cells) /\ Len(c) \in Nat
      /\ h.len <= h.cap /\ h.cap <= Len(c) /\ Readable(h, h.len)
  BY <1>1, <1>2, SoundReadable
<1>4. /\ Lists[v] = FirstCells(c, h.len) /\ Lists[v] \in Seq(Values)
      /\ Len(Lists[v]) = h.len /\ Lists[v] # NoList
  BY <1>1, ListOf
<1>5. RemoveAt(Lists[v], i + 1) = [k \in 1 .. h.len - 1 |-> IF k < i + 1 THEN c[k] ELSE c[k + 1]]
  <2>1. i + 1 \in 1 .. Len(Lists[v])
    BY <1>1, <1>2, <1>4
  <2>2. RemoveAt(Lists[v], i + 1)
        = [k \in 1 .. h.len - 1 |-> IF k < i + 1 THEN Lists[v][k] ELSE Lists[v][k + 1]]
    BY <2>1, <1>4, RemoveAtIs
  <2>3. \A k \in 1 .. h.len - 1 : Lists[v][k] = c[k] /\ Lists[v][k + 1] = c[k + 1]
    BY <1>2, <1>4 DEF FirstCells
  <2>4. QED
    BY <2>2, <2>3
<1>6. SUFFICES /\ Lists' = [Lists EXCEPT ![v] = RemoveAt(Lists[v], i + 1)]
               /\ result' = 0 /\ pos' = pos /\ status' = status
  <2>1. Running /\ call' = <<"remove", v, i>>
    BY DEF ListRemove
  <2> HIDE DEF h, c
  <2>2. QED
    BY <2>1, <1>1, <1>4, SameOperators
       DEF Running, Lists, Promise!ListRemove, Promise!Running, Promise!InScope, Promise!InRange, h
<1>7. CASE i = h.len - 1
  <2>1. /\ handle' = [handle EXCEPT ![v].len = h.len - 1] /\ heap' = heap
        /\ result' = 0 /\ pos' = pos /\ status' = status
    BY <1>7 DEF ListRemove
  <2>2. handle'[v] = [h EXCEPT !.len = h.len - 1]
    BY <2>1 DEF TypeOK
  <2>3. handle'[v] = [data |-> h.data, len |-> h.len - 1, cap |-> h.cap]
    BY <2>2, <1>2 DEF Handle
  <2>4. handle'[v] \in Handle
    BY <2>3, <1>2 DEF Handle
  <2>5. \A n \in Names \ {v} : handle'[n] = handle[n]
    BY <2>1 DEF TypeOK
  <2> HIDE DEF h, c
  <2>6. Contents(v)' = FirstCells(c, h.len - 1)
    <3>1. heap'[h.data] = c /\ handle'[v] # NoList /\ h.len - 1 <= Len(c)
      <4>1. handle'[v] # NoList
        BY <2>4, ConstantsAssumption
      <4>2. h.len - 1 <= Len(c)
        BY <1>2, <1>3
      <4>3. QED
        BY <2>1, <4>1, <4>2 DEF c
    <3>2. QED
      BY <2>3, <3>1, <1>2, <1>3, ContentsNext
  <2>7. Lists' = [Lists EXCEPT ![v] = FirstCells(c, h.len - 1)]
    BY <2>1, <2>5, <2>6, ListsNext
  <2>8. FirstCells(c, h.len - 1) = RemoveAt(Lists[v], i + 1)
    BY <1>2, <1>5, <1>7 DEF FirstCells
  <2>9. QED
    BY <2>1, <2>7, <2>8
<1>8. CASE i # h.len - 1
  <2>1. Store(v, h.data, d, h.len - 1, h.cap)
    BY <1>3, <1>8 DEF ListRemove
  <2>2. \A k \in 1 .. Len(c) : c[k] \in Cells
    BY <1>3, ElementOfSeq
  <2>3. d \in [1 .. Len(c) -> Cells]
    BY <2>2, <1>1, <1>2, <1>3
  <2>4. d \in Seq(Cells) /\ Len(d) = Len(c)
    BY <2>3, <1>3, Tabulated
  <2>5. FirstCells(d, h.len - 1) = RemoveAt(Lists[v], i + 1)
    <3>1. \A k \in 1 .. h.len - 1 : d[k] = IF k < i + 1 THEN c[k] ELSE c[k + 1]
      BY <1>1, <1>2, <1>3
    <3>2. QED
      BY <3>1, <1>5 DEF FirstCells
  <2> HIDE DEF h, c, d
  <2>6. Lists' = [Lists EXCEPT ![v] = FirstCells(d, h.len - 1)]
    <3>1. h.len - 1 <= Len(d)
      BY <2>4, <1>2, <1>3
    <3>2. \A n \in Names \ {v} : ~(InScope(n) /\ handle[n].data = h.data)
      BY <1>1 DEF Sole, h
    <3>3. QED
      BY <2>1, <2>4, <3>1, <3>2, <1>2, StoreLists
  <2>7. QED
    BY <2>1, <2>5, <2>6 DEF Store
<1>9. QED
  BY <1>7, <1>8

(* The first cells of a block, rearranged among themselves. *)
LEMMA RearrangedLists ==
  ASSUME TypeOK, HandlesSound, NEW v \in Names, InScope(v), Sole(v),
         NEW p, \A k \in 1 .. handle[v].len : p[k] \in 1 .. handle[v].len,
         Rewrite(v, [k \in 1 .. Len(heap[handle[v].data]) |->
                       IF k <= handle[v].len THEN heap[handle[v].data][p[k]]
                       ELSE heap[handle[v].data][k]])
  PROVE  Lists' = [Lists EXCEPT ![v] = [k \in 1 .. handle[v].len |-> Lists[v][p[k]]]]
<1> DEFINE h == handle[v]
           c == heap[h.data]
           d == [k \in 1 .. Len(c) |-> IF k <= h.len THEN c[p[k]] ELSE c[k]]
<1>1. h.len \in Nat /\ h.cap \in Nat
  BY HandleParts
<1>2. c \in Seq(Cells) /\ Len(c) \in Nat /\ h.len <= h.cap /\ h.cap <= Len(c)
  BY SoundReadable
<1>3. \A k \in 1 .. h.len : p[k] \in 1 .. h.len
  OBVIOUS
<1>4. Rewrite(v, d)
  OBVIOUS
<1>5. Lists[v] = FirstCells(c, h.len)
  BY ListOf
<1> HIDE DEF h, c
<1>6. d \in Seq(Cells) /\ Len(d) = Len(c)
  BY <1>1, <1>2, <1>3, Rearranged
<1>7. FirstCells(d, h.len) = [k \in 1 .. h.len |-> Lists[v][p[k]]]
  BY <1>1, <1>2, <1>3, <1>5 DEF FirstCells
<1> HIDE DEF d
<1>8. Lists' = [Lists EXCEPT ![v] = FirstCells(d, h.len)]
  <2>1. h.len <= Len(d)
    BY <1>1, <1>2, <1>6
  <2>2. QED
    BY <2>1, <1>4, <1>6, RewriteLists DEF h
<1>9. QED
  BY <1>7, <1>8 DEF h

LEMMA ListReversePromised ==
  ASSUME TypeOK, HandlesSound, Discipline = "writes", NEW v \in Names, ListReverse(v)
  PROVE  Promise!ListReverse(v)
<1> DEFINE h == handle[v]
           c == heap[h.data]
           p == [k \in 1 .. h.len |-> h.len - k + 1]
<1>1. InScope(v) /\ Sole(v)
  BY DEF ListReverse, MayWrite
<1>2. h.len \in Nat /\ h.len \in 0 .. h.len /\ Readable(h, h.len)
  BY <1>1, HandleParts, SoundReadable
<1>3. Lists[v] \in Seq(Values) /\ Len(Lists[v]) = h.len /\ Lists[v] # NoList
  BY <1>1, ListOf
<1>4. SUFFICES /\ Lists' = [Lists EXCEPT ![v] = Reverse(Lists[v])]
               /\ result' = 0 /\ pos' = pos /\ status' = status
  <2>1. Running /\ call' = <<"reverse", v>>
    BY DEF ListReverse
  <2> HIDE DEF h, c
  <2>2. QED
    BY <2>1, <1>1, <1>3, <1>4, SameOperators
       DEF Running, Lists, Promise!ListReverse, Promise!Running, Promise!InScope, h
<1>5. CASE h.len < 2
  <2>1. /\ heap' = heap /\ handle' = handle
        /\ result' = 0 /\ pos' = pos /\ status' = status
    BY <1>5 DEF ListReverse
  <2>2. Reverse(Lists[v]) = Lists[v]
    BY <1>2, <1>3, <1>5, LenProperties DEF Reverse
  <2>3. Lists' = Lists /\ Lists = [Lists EXCEPT ![v] = Lists[v]]
    BY <2>1, SameLists DEF Lists
  <2>4. QED
    BY <2>1, <2>2, <2>3
<1>6. CASE ~(h.len < 2)
  <2>1. Rewrite(v, [k \in 1 .. Len(c) |-> IF k <= h.len THEN c[h.len - k + 1] ELSE c[k]])
    BY <1>2, <1>6 DEF ListReverse
  <2>2. Len(c) \in Nat
    BY <1>1, SoundReadable
  <2>3. [k \in 1 .. Len(c) |-> IF k <= h.len THEN c[h.len - k + 1] ELSE c[k]]
        = [k \in 1 .. Len(c) |-> IF k <= h.len THEN c[p[k]] ELSE c[k]]
    BY <1>2, <2>2
  <2>4. \A k \in 1 .. h.len : p[k] \in 1 .. h.len
    BY <1>2
  <2>5. Reverse(Lists[v]) = [k \in 1 .. h.len |-> Lists[v][p[k]]]
    BY <1>2, <1>3 DEF Reverse
  <2> HIDE DEF p
  <2>6. Lists' = [Lists EXCEPT ![v] = [k \in 1 .. h.len |-> Lists[v][p[k]]]]
    BY <1>1, <2>1, <2>3, <2>4, RearrangedLists
  <2>7. QED
    BY <2>1, <2>5, <2>6 DEF Rewrite
<1>7. QED
  BY <1>5, <1>6

LEMMA ListSortPromised ==
  ASSUME TypeOK, HandlesSound, Discipline = "writes", NEW v \in Names, ListSort(v)
  PROVE  Promise!ListSort(v)
<1> DEFINE h == handle[v]
           c == heap[h.data]
           sorted(p) == [i \in 1 .. h.len |-> Lists[v][p[i]]]
<1>1. InScope(v) /\ Sole(v)
  BY DEF ListSort, MayWrite
<1>2. h.len \in Nat /\ h.len \in 0 .. h.len /\ Readable(h, h.len)
  BY <1>1, HandleParts, SoundReadable
<1>3. /\ Lists[v] \in Seq(Values) /\ Len(Lists[v]) = h.len /\ Lists[v] # NoList
      /\ Lists[v] = FirstCells(c, h.len)
  BY <1>1, ListOf
<1>4. PICK p \in Bijection(1 .. h.len, 1 .. h.len) :
        /\ IsSorted([i \in 1 .. h.len |-> c[p[i]]], <=)
        /\ IF h.len = 0 THEN result' = 0 /\ UNCHANGED <<heap, handle, pos, status>>
           ELSE Rewrite(v, [k \in 1 .. Len(c) |-> IF k <= h.len THEN c[p[k]] ELSE c[k]])
  BY <1>2 DEF ListSort
<1>5. \A k \in 1 .. h.len : p[k] \in 1 .. h.len
  BY DEF Bijection, Injection
<1>6. sorted(p) = [i \in 1 .. h.len |-> c[p[i]]]
  BY <1>3, <1>5 DEF FirstCells
<1>7. Lists' = [Lists EXCEPT ![v] = sorted(p)] /\ result' = 0 /\ pos' = pos /\ status' = status
  <2>1. CASE h.len = 0
    <3>1. /\ heap' = heap /\ handle' = handle
          /\ result' = 0 /\ pos' = pos /\ status' = status
      BY <1>4, <2>1
    <3>2. sorted(p) = Lists[v]
      BY <1>3, <2>1 DEF FirstCells
    <3>3. Lists' = Lists /\ Lists = [Lists EXCEPT ![v] = Lists[v]]
      BY <3>1, SameLists DEF Lists
    <3> HIDE DEF sorted
    <3>4. QED
      BY <3>1, <3>2, <3>3
  <2>2. CASE h.len # 0
    <3>1. Rewrite(v, [k \in 1 .. Len(c) |-> IF k <= h.len THEN c[p[k]] ELSE c[k]])
      BY <1>4, <2>2
    <3>2. Lists' = [Lists EXCEPT ![v] = sorted(p)]
      BY <1>1, <1>5, <3>1, RearrangedLists
    <3>3. QED
      BY <3>1, <3>2 DEF Rewrite
  <2>3. QED
    BY <2>1, <2>2
<1>8. Running /\ call' = <<"sort", v>>
  BY DEF ListSort
<1>9. Promise!IsSorted(sorted(p), <=)
  BY <1>4, <1>6 DEF IsSorted, Promise!IsSorted
<1>10. p \in Promise!Bijection(1 .. h.len, 1 .. h.len)
  BY DEF Bijection, Injection, Surjection, IsInjective,
         Promise!Bijection, Promise!Injection, Promise!Surjection, Promise!IsInjective
<1>11. QED
  <2>1. /\ p \in Promise!Bijection(1 .. Len(Lists[v]), 1 .. Len(Lists[v]))
        /\ Promise!IsSorted([i \in 1 .. Len(Lists[v]) |-> Lists[v][p[i]]], <=)
        /\ Lists' = [Lists EXCEPT ![v] = [i \in 1 .. Len(Lists[v]) |-> Lists[v][p[i]]]]
    BY <1>3, <1>7, <1>9, <1>10
  <2>2. Lists[v] # NoList /\ status = "running" /\ call' = <<"sort", v>>
        /\ result' = 0 /\ pos' = pos /\ status' = status
    BY <1>3, <1>7, <1>8 DEF Running
  <2> HIDE DEF h, c, sorted
  <2>3. QED
    BY <2>1, <2>2 DEF Lists, Promise!ListSort, Promise!Running, Promise!InScope

(* The n elements of a list from first + 1 to last. *)
LEMMA SubSeqIs ==
  ASSUME NEW S, NEW s \in Seq(S), NEW first \in Int, NEW last \in Int, NEW n \in Nat,
         n = 0 => last <= first,
         n # 0 => 0 <= first /\ last = first + n /\ last <= Len(s)
  PROVE  /\ SubSeq(s, first + 1, last) \in Seq(S)
         /\ Len(SubSeq(s, first + 1, last)) = n
         /\ \A i \in 1 .. n : SubSeq(s, first + 1, last)[i] = s[first + i]
<1> DEFINE m == first + 1
<1>1. Len(s) \in Nat /\ m \in Int
  BY LenProperties
<1>2. \A i \in m .. last : s[i] \in S
  BY <1>1, ElementOfSeq
<1>3. n = IF m <= last THEN last - m + 1 ELSE 0
  OBVIOUS
<1>4. \A i \in 1 .. n : m + i - 1 = first + i /\ i \in 1 .. last - m + 1
  OBVIOUS
<1> HIDE DEF m
<1>5. /\ SubSeq(s, m, last) \in Seq(S)
      /\ Len(SubSeq(s, m, last)) = IF m <= last THEN last - m + 1 ELSE 0
      /\ \A i \in 1 .. last - m + 1 : SubSeq(s, m, last)[i] = s[m + i - 1]
  BY <1>1, <1>2, SubSeqProperties
<1>6. QED
  BY <1>3, <1>4, <1>5 DEF m

LEMMA ListSlicePromised ==
  ASSUME TypeOK, HandlesSound, NEW w \in Names, NEW v \in Names,
         NEW from \in Int, NEW to \in Int, ListSlice(w, v, from, to)
  PROVE  Promise!ListSlice(w, v, from, to)
<1> DEFINE h == handle[v]
           c == heap[h.data]
           start == SliceStart(h.len, from)
           n == SliceEnd(h.len, start, to) - start
           d == [i \in 1 .. n |-> c[start + i]]
           first == IF from < 0 THEN 0 ELSE from
           last == IF to > Len(Lists[v]) THEN Len(Lists[v]) ELSE to
           part == SubSeq(Lists[v], first + 1, last)
<1>1. InScope(v)
  BY DEF ListSlice
<1>2. h.len \in Nat
  BY <1>1, HandleParts
<1>3. start \in Nat /\ n \in Nat /\ start + n \in 0 .. h.len
  <2>1. start \in 0 .. h.len /\ SliceEnd(h.len, start, to) \in start .. h.len
    BY <1>2, SliceBounds
  <2> HIDE DEF h, start
  <2>2. QED
    BY <2>1, <1>2
<1>4. /\ c \in Seq(Cells) /\ Len(c) \in Nat /\ h.len <= Len(c)
      /\ Readable(h, start + n)
  <2>1. c \in Seq(Cells) /\ Len(c) \in Nat /\ h.len <= Len(c)
    BY <1>1, <1>2, HandleParts, SoundReadable
  <2>2. Readable(h, start + n)
    BY <1>1, <1>3, SoundReadable
  <2>3. QED
    BY <2>1, <2>2
<1>5. /\ Lists[v] = FirstCells(c, h.len) /\ Lists[v] \in Seq(Values)
      /\ Len(Lists[v]) = h.len /\ Lists[v] # NoList
  BY <1>1, ListOf
<1>6. part = d
  <2>1. /\ first \in Int /\ last \in Int
        /\ n = 0 => last <= first
        /\ n # 0 => 0 <= first /\ last = first + n /\ last <= Len(Lists[v]) /\ first = start
    <3> HIDE DEF h
    <3>1. QED
      BY <1>2, <1>5 DEF SliceStart, SliceEnd
  <2> HIDE DEF first, last, start, n, h, c
  <2>2. /\ part \in Seq(Values) /\ Len(part) = n
        /\ \A i \in 1 .. n : part[i] = Lists[v][first + i]
    <3>1. n \in Nat /\ first \in Int /\ last \in Int /\ Lists[v] \in Seq(Values)
      BY <2>1, <1>3, <1>5
    <3>2. (n = 0 => last <= first) /\ (n # 0 => 0 <= first /\ last = first + n /\ last <= Len(Lists[v]))
      BY <2>1
    <3>3. QED
      BY <3>1, <3>2, SubSeqIs
  <2> HIDE DEF part
  <2>3. \A i \in 1 .. n : Lists[v][first + i] = c[start + i]
    BY <2>1, <1>2, <1>3, <1>5 DEF FirstCells
  <2>4. part = [i \in 1 .. n |-> part[i]]
    BY <2>2, LenProperties
  <2>5. QED
    BY <2>2, <2>3, <2>4
<1>7. Lists' = [Lists EXCEPT ![w] = d] /\ result' = 0 /\ pos' = pos /\ status' = status
  <2>1. CASE n = 0
    <3>1. PICK a \in Addrs : ~Live(a) /\ Store(w, a, <<Uninit>>, 0, 1)
      BY <2>1 DEF ListSlice
    <3>2. \A k \in Names \ {w} : ~(InScope(k) /\ handle[k].data = a)
      BY <3>1, FreshUnnamed
    <3>3. <<Uninit>> \in Seq(Cells) /\ Len(<<Uninit>>) = 1
      BY DEF Cells
    <3> DEFINE u == <<Uninit>>
    <3>4. Store(w, a, u, 0, 1) /\ u \in Seq(Cells) /\ 0 <= Len(u)
      BY <3>1, <3>3
    <3>5. FirstCells(u, 0) = <<>> /\ d = <<>>
      BY <2>1 DEF FirstCells
    <3> HIDE DEF u, d, part, n, start, h, c
    <3>6. Lists' = [Lists EXCEPT ![w] = FirstCells(u, 0)]
      BY <3>2, <3>4, StoreLists
    <3>7. QED
      BY <3>4, <3>5, <3>6 DEF Store
  <2>2. CASE n # 0
    <3>1. PICK a \in Addrs : ~Live(a) /\ Store(w, a, d, n, n)
      BY <1>4, <2>2 DEF ListSlice
    <3>2. \A k \in Names \ {w} : ~(InScope(k) /\ handle[k].data = a)
      BY <3>1, FreshUnnamed
    <3> HIDE DEF h, c, start, n, part
    <3>3. \A i \in 1 .. n : c[start + i] \in Cells
      BY <1>2, <1>3, <1>4, ElementOfSeq
    <3>4. d \in Seq(Cells) /\ Len(d) = n
      BY <3>3, <1>3, Tabulated
    <3> HIDE DEF d
    <3>5. FirstCells(d, n) = d
      BY <3>4, FirstAll
    <3>6. Lists' = [Lists EXCEPT ![w] = FirstCells(d, n)]
      BY <3>1, <3>2, <3>4, <1>3, StoreLists
    <3>7. QED
      BY <3>1, <3>5, <3>6 DEF Store
  <2>3. QED
    BY <2>1, <2>2
<1>8. Running /\ call' = <<"slice", w, v, from, to>>
  BY DEF ListSlice
<1>9. Lists' = [Lists EXCEPT ![w] = part]
  BY <1>6, <1>7
<1> HIDE DEF h, c, start, n, d
<1>10. QED
  BY <1>5, <1>7, <1>8, <1>9
     DEF Running, Lists, Promise!ListSlice, Promise!Running, Promise!InScope

(* The expressions, and a for-in loop over the copy of a list. *)

LEMMA ListGetPromised ==
  ASSUME TypeOK, HandlesSound, NEW v \in Names, NEW i \in Int, ListGet(v, i)
  PROVE  Promise!ListGet(v, i)
<1> DEFINE h == handle[v]
<1>1. InScope(v) /\ 0 <= i /\ i < h.len /\ h.len \in Nat
  BY HandleParts DEF ListGet, InRange
<1>2. /\ Lists[v] = FirstCells(heap[h.data], h.len)
      /\ Len(Lists[v]) = h.len /\ Lists[v] # NoList
  BY <1>1, ListOf
<1>3. Readable(h, i + 1)
  <2>1. i + 1 \in 0 .. h.len
    BY <1>1
  <2>2. QED
    BY <2>1, <1>1, SoundReadable
<1>4. /\ result' = heap[h.data][i + 1] /\ heap' = heap /\ handle' = handle
      /\ pos' = pos /\ status' = status /\ Running /\ call' = <<"get", v, i>>
  BY <1>3 DEF ListGet
<1>5. Lists[v][i + 1] = heap[h.data][i + 1]
  BY <1>1, <1>2 DEF FirstCells
<1>6. Lists' = Lists
  BY <1>4, SameLists
<1> HIDE DEF h
<1>7. QED
  BY <1>1, <1>2, <1>4, <1>5, <1>6
     DEF Running, Lists, Promise!ListGet, Promise!Running, Promise!InScope, Promise!InRange

LEMMA ListContainsPromised ==
  ASSUME TypeOK, HandlesSound, NEW v \in Names, NEW x, ListContains(v, x)
  PROVE  Promise!ListContains(v, x)
<1> DEFINE h == handle[v]
           c == heap[h.data]
<1>1. InScope(v) /\ h.len \in Nat /\ h.len \in 0 .. h.len
  BY HandleParts DEF ListContains
<1>2. Lists[v] = FirstCells(c, h.len) /\ Len(Lists[v]) = h.len /\ Lists[v] # NoList
  BY <1>1, ListOf
<1>3. Readable(h, h.len)
  BY <1>1, SoundReadable
<1>4. /\ result' = IF \E k \in 1 .. h.len : c[k] = x THEN 1 ELSE 0
      /\ heap' = heap /\ handle' = handle
      /\ pos' = pos /\ status' = status /\ Running /\ call' = <<"contains", v, x>>
  BY <1>3 DEF ListContains
<1>5. \A k \in 1 .. h.len : Lists[v][k] = c[k]
  BY <1>2 DEF FirstCells
<1>6. result' = IF \E k \in 1 .. Len(Lists[v]) : Lists[v][k] = x THEN 1 ELSE 0
  BY <1>2, <1>4, <1>5
<1>7. Lists' = Lists
  BY <1>4, SameLists
<1> HIDE DEF h, c
<1>8. QED
  BY <1>2, <1>4, <1>6, <1>7
     DEF Running, Lists, Promise!ListContains, Promise!Running, Promise!InScope

LEMMA ListLenPromised ==
  ASSUME TypeOK, HandlesSound, NEW v \in Names, ListLen(v)
  PROVE  Promise!ListLen(v)
<1>1. InScope(v)
  BY DEF ListLen
<1>2. Len(Lists[v]) = handle[v].len /\ Lists[v] # NoList
  BY <1>1, ListOf
<1>3. /\ result' = handle[v].len /\ heap' = heap /\ handle' = handle
      /\ pos' = pos /\ status' = status /\ Running /\ call' = <<"len", v>>
  BY DEF ListLen
<1>4. Lists' = Lists
  BY <1>3, SameLists
<1>5. QED
  BY <1>2, <1>3, <1>4 DEF Running, Lists, Promise!ListLen, Promise!Running, Promise!InScope

LEMMA OutOfBoundsPromised ==
  ASSUME TypeOK, HandlesSound, NEW v \in Names, NEW i \in Int, OutOfBounds(v, i)
  PROVE  Promise!OutOfBounds(v, i)
<1>1. InScope(v)
  BY DEF OutOfBounds
<1>2. Len(Lists[v]) = handle[v].len /\ Lists[v] # NoList
  BY <1>1, ListOf
<1>3. /\ ~(0 <= i /\ i < handle[v].len)
      /\ result' = 0 /\ heap' = heap /\ handle' = handle
      /\ pos' = pos /\ status' = "exited" /\ Running /\ call' = <<"index", v, i>>
  BY DEF OutOfBounds, InRange
<1>4. Lists' = Lists
  BY <1>3, SameLists
<1>5. QED
  BY <1>2, <1>3, <1>4
     DEF Running, Lists, Promise!OutOfBounds, Promise!Running, Promise!InScope, Promise!InRange

LEMMA ForInStartPromised ==
  ASSUME TypeOK, HandlesSound, NEW v \in Names, ForInStart(v)
  PROVE  Promise!ForInStart(v)
<1>1. Iter \in Names
  BY DEF Names
<1>2. Lists' = [Lists EXCEPT ![Iter] = Lists[v]]
  BY <1>1, CopyLists DEF ForInStart
<1>3. Lists[v] # NoList /\ ~(Lists[Iter] # NoList)
  BY <1>1, ListOf DEF ForInStart
<1>4. QED
  BY <1>2, <1>3
     DEF ForInStart, Running, Lists, Promise!ForInStart, Promise!Running, Promise!InScope

LEMMA ForInNextPromised ==
  ASSUME TypeOK, HandlesSound, ForInNext
  PROVE  Promise!ForInNext
<1> DEFINE h == handle[Iter]
<1>1. InScope(Iter) /\ Iter \in Names /\ pos \in Nat /\ pos < h.len /\ h.len \in Nat
  BY HandleParts DEF ForInNext, Names, TypeOK
<1>2. /\ Lists[Iter] = FirstCells(heap[h.data], h.len)
      /\ Len(Lists[Iter]) = h.len /\ Lists[Iter] # NoList
  BY <1>1, ListOf
<1>3. Readable(h, pos + 1)
  <2>1. pos + 1 \in 0 .. h.len
    BY <1>1
  <2>2. QED
    BY <2>1, <1>1, SoundReadable
<1>4. /\ result' = heap[h.data][pos + 1] /\ pos' = pos + 1 /\ heap' = heap /\ handle' = handle
      /\ status' = status /\ Running /\ call' = <<"next">>
  BY <1>3 DEF ForInNext
<1>5. Lists[Iter][pos + 1] = heap[h.data][pos + 1]
  BY <1>1, <1>2 DEF FirstCells
<1>6. Lists' = Lists
  BY <1>4, SameLists
<1> HIDE DEF h
<1>7. QED
  BY <1>1, <1>2, <1>4, <1>5, <1>6
     DEF Running, Lists, Promise!ForInNext, Promise!Running, Promise!InScope

LEMMA ForInEndPromised ==
  ASSUME TypeOK, HandlesSound, ForInEnd
  PROVE  Promise!ForInEnd
<1>1. Iter \in Names
  BY DEF Names
<1>2. Lists' = [Lists EXCEPT ![Iter] = NoList]
  BY <1>1, ForgetLists DEF ForInEnd
<1>3. Lists[Iter] # NoList
  BY <1>1, ListOf DEF ForInEnd
<1>4. QED
  BY <1>2, <1>3 DEF ForInEnd, Running, Lists, Promise!ForInEnd, Promise!Running, Promise!InScope

LEMMA PromisedInit == Init => Promise!Init
<1> SUFFICES ASSUME Init PROVE Promise!Init
  OBVIOUS
<1>1. PICK a \in Addrs :
        /\ heap = [b \in Addrs |->
                     IF b # a THEN Free ELSE IF LaunchArgs = <<>> THEN <<Uninit>> ELSE LaunchArgs]
        /\ handle = [n \in Names |->
                       IF n = Cli
                       THEN [data |-> a, len |-> Len(LaunchArgs), cap |-> Len(LaunchArgs)]
                       ELSE NoList]
  BY DEF Init
<1>2. TypeOK /\ HandlesSound
  BY TypeInit, SoundInit
<1>3. Cli \in Names
  BY DEF Names
<1>4. LaunchArgs \in Seq(Values) /\ Len(LaunchArgs) \in Nat
  BY ConstantsAssumption, LenProperties
<1>5. ASSUME NEW n \in Names
      PROVE  Lists[n] = IF n = Cli THEN LaunchArgs ELSE NoList
  <2>1. CASE n # Cli
    BY <1>1, <2>1 DEF Lists, Contents, InScope
  <2>2. CASE n = Cli
    <3>1. handle[n] = [data |-> a, len |-> Len(LaunchArgs), cap |-> Len(LaunchArgs)]
      BY <1>1, <2>2
    <3>2. handle[n] \in Handle /\ handle[n].len = Len(LaunchArgs) /\ handle[n].data = a
      BY <3>1, <1>4 DEF Handle
    <3>3. InScope(n)
      BY <3>2, ConstantsAssumption DEF InScope
    <3>4. Lists[n] = FirstCells(heap[a], Len(LaunchArgs))
      BY <1>2, <3>2, <3>3, ListOf
    <3>5. CASE LaunchArgs = <<>>
      BY <2>2, <3>4, <3>5 DEF FirstCells
    <3>6. CASE LaunchArgs # <<>>
      BY <1>1, <1>4, <2>2, <3>4, <3>6, FirstAll
    <3>7. QED
      BY <3>5, <3>6
  <2>3. QED
    BY <2>1, <2>2
<1>6. Lists = [n \in Names |-> IF n = Cli THEN LaunchArgs ELSE NoList]
  BY <1>5 DEF Lists
<1>7. QED
  BY <1>6 DEF Init, Lists, Names, Promise!Init, Promise!Names

-------------------------------------------------------------------------------
(* Every step of the runtime is one of ValueLists, or leaves the lists and *)
(* the results as they are.                                                *)
LEMMA PromisedNext ==
  ASSUME Discipline = "writes"
  PROVE  IInv /\ [Next]_vars => [Promise!Next]_Promise!vars
<1> SUFFICES ASSUME TypeOK, HandlesSound, [Next]_vars
             PROVE  Promise!Next \/ UNCHANGED Promise!vars
  BY DEF IInv
<1>1. Vars \subseteq Names /\ Vars \cup {Cli} \subseteq Names
  BY DEF Names
<1>2. \A i \in Indices : i \in Int
  BY IndicesInt
<1>3. Discipline # "none"
  OBVIOUS
<1>4. ASSUME NEW v \in Vars, NEW s \in BoundedSeq(Values, MaxLen), s # <<>>, ListNew(v, s)
      PROVE  Promise!Next
  <2>1. Promise!ListNew(v, s)
    BY <1>1, <1>4, ListNewPromised
  <2>2. s \in Promise!BoundedSeq(Values, MaxLen)
    BY DEF BoundedSeq, SeqOf, Promise!BoundedSeq, Promise!SeqOf
  <2>3. QED
    BY <1>4, <2>1, <2>2 DEF Promise!Next
<1>5. ASSUME NEW v \in Vars, NEW w \in Vars \cup {Cli}, Copy(v, w)
      PROVE  Promise!Next
  <2>1. Promise!Copy(v, w)
    BY <1>1, <1>5, CopyPromised
  <2>2. QED
    BY <2>1 DEF Promise!Next
<1>6. ASSUME NEW v \in Vars,
             Drop(v) \/ ListReverse(v) \/ ListSort(v) \/ ListLen(v) \/ ForInStart(v)
      PROVE  Promise!Next
  <2>1. \/ Promise!Drop(v) \/ Promise!ListReverse(v) \/ Promise!ListSort(v)
        \/ Promise!ListLen(v) \/ Promise!ForInStart(v)
    BY <1>1, <1>6, DropPromised, ListReversePromised, ListSortPromised, ListLenPromised,
       ForInStartPromised
  <2>2. QED
    BY <2>1 DEF Promise!Next
<1>7. ASSUME NEW v \in Vars, NEW x \in Values, ListPush(v, x) \/ ListContains(v, x)
      PROVE  Promise!Next
  <2>1. Promise!ListPush(v, x) \/ Promise!ListContains(v, x)
    BY <1>1, <1>3, <1>7, ListPushPromised, ListContainsPromised
  <2>2. QED
    BY <2>1 DEF Promise!Next
<1>8. ASSUME NEW v \in Vars, NEW i \in Indices, NEW x \in Values, ListSet(v, i, x)
      PROVE  Promise!Next
  <2>1. Promise!ListSet(v, i, x)
    BY <1>1, <1>2, <1>8, ListSetPromised
  <2>2. QED
    BY <2>1 DEF Promise!Next, Indices, Promise!Indices
<1>9. ASSUME NEW v \in Vars, NEW i \in Indices,
             ListRemove(v, i) \/ ListGet(v, i) \/ OutOfBounds(v, i)
      PROVE  Promise!Next
  <2>1. Promise!ListRemove(v, i) \/ Promise!ListGet(v, i) \/ Promise!OutOfBounds(v, i)
    BY <1>1, <1>2, <1>9, ListRemovePromised, ListGetPromised, OutOfBoundsPromised
  <2>2. QED
    BY <2>1 DEF Promise!Next, Indices, Promise!Indices
<1>10. ASSUME NEW v \in Vars, NEW w \in Vars, NEW from \in Indices, NEW to \in Indices,
              ListSlice(w, v, from, to)
       PROVE  Promise!Next
  <2>1. Promise!ListSlice(w, v, from, to)
    BY <1>1, <1>2, <1>10, ListSlicePromised
  <2>2. QED
    BY <2>1 DEF Promise!Next, Indices, Promise!Indices
<1>11. CASE ForInNext
  BY <1>11, ForInNextPromised DEF Promise!Next
<1>12. CASE ForInEnd
  BY <1>12, ForInEndPromised DEF Promise!Next
<1>13. CASE UNCHANGED vars
  <2>1. heap' = heap /\ handle' = handle
        /\ pos' = pos /\ result' = result /\ status' = status /\ call' = call
    BY <1>13 DEF vars
  <2>2. Lists' = Lists
    BY <2>1, SameLists
  <2>3. QED
    BY <2>1, <2>2 DEF Lists, Promise!vars
<1>14. QED
  BY <1>4, <1>5, <1>6, <1>7, <1>8, <1>9, <1>10, <1>11, <1>12, <1>13 DEF Next

(* A step of ValueLists changes the list of one name at most. *)
LEMMA OneName ==
  ASSUME Promise!Next \/ UNCHANGED Promise!vars
  PROVE  \E v \in Names : \A n \in Names \ {v} : Contents(n)' = Contents(n)
<1> DEFINE Kept(v) == \A n \in Names \ {v} : Lists'[n] = Lists[n]
<1>1. Vars \subseteq Names /\ Iter \in Names
  BY DEF Names
<1>2. Lists' = Lists => \E v \in Names : Kept(v)
  BY <1>1
<1>3. ASSUME NEW v \in Vars, NEW s, Promise!ListNew(v, s)
      PROVE  \E n \in Names : Kept(n)
  BY <1>1, <1>3 DEF Promise!ListNew, Lists
<1>4. ASSUME NEW v \in Vars, NEW w, Promise!Copy(v, w)
      PROVE  \E n \in Names : Kept(n)
  BY <1>1, <1>4 DEF Promise!Copy, Lists
<1>5. ASSUME NEW v \in Vars,
             \/ Promise!Drop(v) \/ Promise!ListReverse(v) \/ Promise!ListSort(v)
             \/ Promise!ListLen(v) \/ Promise!ForInStart(v)
      PROVE  \E n \in Names : Kept(n)
  BY <1>1, <1>2, <1>5
     DEF Promise!Drop, Promise!ListReverse, Promise!ListSort, Promise!ListLen,
         Promise!ForInStart, Lists
<1>6. ASSUME NEW v \in Vars, NEW x \in Values, Promise!ListPush(v, x) \/ Promise!ListContains(v, x)
      PROVE  \E n \in Names : Kept(n)
  BY <1>1, <1>2, <1>6 DEF Promise!ListPush, Promise!ListContains, Lists
<1>7. ASSUME NEW v \in Vars, NEW i \in Promise!Indices, NEW x \in Values, Promise!ListSet(v, i, x)
      PROVE  \E n \in Names : Kept(n)
  BY <1>1, <1>7 DEF Promise!ListSet, Lists
<1>8. ASSUME NEW v \in Vars, NEW i \in Promise!Indices,
             Promise!ListRemove(v, i) \/ Promise!ListGet(v, i) \/ Promise!OutOfBounds(v, i)
      PROVE  \E n \in Names : Kept(n)
  BY <1>1, <1>2, <1>8 DEF Promise!ListRemove, Promise!ListGet, Promise!OutOfBounds, Lists
<1>9. ASSUME NEW v \in Vars, NEW w \in Vars, NEW from \in Promise!Indices,
             NEW to \in Promise!Indices, Promise!ListSlice(w, v, from, to)
      PROVE  \E n \in Names : Kept(n)
  BY <1>1, <1>9 DEF Promise!ListSlice, Lists
<1>10. ASSUME Promise!ForInNext
       PROVE  \E n \in Names : Kept(n)
  BY <1>2, <1>10 DEF Promise!ForInNext, Lists
<1>11. ASSUME Promise!ForInEnd
       PROVE  \E n \in Names : Kept(n)
  BY <1>1, <1>11 DEF Promise!ForInEnd, Lists
<1>12. ASSUME UNCHANGED Promise!vars
       PROVE  \E n \in Names : Kept(n)
  BY <1>2, <1>12 DEF Promise!vars, Lists
<1> HIDE DEF Kept
<1>13. ASSUME Promise!Next
       PROVE  \E n \in Names : Kept(n)
  BY <1>3, <1>4, <1>5, <1>6, <1>7, <1>8, <1>9, <1>10, <1>11, <1>13, Zenon DEF Promise!Next
<1>14. \E v \in Names : Kept(v)
  BY <1>12, <1>13, Zenon
<1>15. ASSUME NEW v \in Names, Kept(v)
       PROVE  \A n \in Names \ {v} : Contents(n)' = Contents(n)
  BY <1>15 DEF Kept, Lists
<1>16. QED
  BY <1>14, <1>15

(* A program that keeps to the discipline does to its lists, and gets from *)
(* them, what the language promises of lists held by value.                *)
THEOREM ListsByValue ==
  ASSUME Discipline = "writes"
  PROVE  Spec => ImplementsValueLists
<1>1. Init => IInv /\ Promise!Init
  BY TypeInit, SoundInit, PromisedInit DEF Init, IInv, NeverUndefined
<1>2. IInv /\ [Next]_vars => IInv'
  BY IInvNext
<1>3. IInv /\ [Next]_vars => [Promise!Next]_Promise!vars
  BY PromisedNext
<1>4. QED
  BY <1>1, <1>2, <1>3, PTL DEF Spec, ImplementsValueLists, Promise!Spec

(* No statement of such a program changes the values of two lists.         *)
THEOREM OneListAStep ==
  ASSUME Discipline = "writes"
  PROVE  Spec => OneListPerStep
<1>1. Init => IInv
  BY TypeInit, SoundInit DEF Init, IInv, NeverUndefined
<1>2. IInv /\ [Next]_vars => IInv'
  BY IInvNext
<1>3. IInv /\ [Next]_vars =>
        [\A m, n \in Names : m # n =>
           Contents(m)' = Contents(m) \/ Contents(n)' = Contents(n)]_vars
  BY PromisedNext, OneName
<1>4. QED
  BY <1>1, <1>2, <1>3, PTL DEF Spec, OneListPerStep
===============================================================================
