------------------------------- MODULE MapRuntime ------------------------------
(***************************************************************************)
(* The map runtime codegen.c emits: a map variable is a C struct           *)
(* {entries, len, cap} held by value, its entries [key, value] sit in a    *)
(* heap block in the order of their insertion, and every operation scans   *)
(* them for the key.  As with lists, copying the variable copies the       *)
(* struct and not the block.  keys() fills a block of its own with the     *)
(* keys, which the program goes through while it changes the map.          *)
(*                                                                         *)
(* A step that touches a block that is gone, or a cell outside it or never *)
(* written, has no meaning in C: status "undefined", where the model stops.*)
(***************************************************************************)
EXTENDS Integers, SequencesExt

CONSTANTS
  Vars,        \* the map variables of a program
  Keys,        \* the keys, which are strings
  Values,      \* the values
  Zero,        \* the zero value of their type
  Addrs,       \* the addresses malloc and realloc choose from
  MaxEntries,  \* bound on the number of entries of all maps together
  Literals,    \* the literals of a program: sequences of <<key, value>>
  NoMap,       \* a variable that is not in scope
  Free,        \* an address with no block
  Uninit,      \* a cell never written
  Discipline   \* "none": any program; "adds": m[k] = x; with a new key only on
               \* the sole handle of its block; "writes": with any key

VARIABLES
  heap,        \* address -> the cells of its block, or Free
  handle,      \* variable -> [entries, len, cap], or NoMap
  listed,      \* the list keys() gave last: [data, len], or NoMap
  result,      \* what the step's expression gave, in a sequence; <<>> if it evaluates none
  status,      \* "running" or "undefined"
  op           \* the statement or expression just executed, with its arguments

vars == <<heap, handle, listed, result, status, op>>

Entry == [key : Keys, value : Values]
Handle == [entries : Addrs, len : Nat, cap : Nat]
KeyList == [data : Addrs, len : Nat]
Cells == Entry \cup Keys \cup {Uninit}

ASSUME ConstantsAssumption ==
  /\ Zero \in Values /\ Values \subseteq Int
  /\ MaxEntries \in Nat
  /\ Literals \subseteq Seq(Keys \X Values) \ {<<>>}
  /\ Uninit \notin Entry \cup Keys
  /\ Free \notin Seq(Cells)
  /\ NoMap \notin Handle \cup KeyList \cup Seq(Keys) \cup UNION {[S -> Values] : S \in SUBSET Keys}
  /\ Discipline \in {"none", "adds", "writes"}

-------------------------------------------------------------------------------
(* Memory *)

Running == status = "running"
InScope(v) == handle[v] # NoMap
Live(a) == heap[a] # Free

(* The blocks of m that a map or the list of keys still names after the step. *)
Reached(m) ==
  [a \in Addrs |-> IF \/ \E v \in Vars : handle'[v] # NoMap /\ handle'[v].entries = a
                      \/ listed' # NoMap /\ listed'.data = a
                   THEN m[a] ELSE Free]

Cell(a, i) == IF Live(a) /\ i <= Len(heap[a]) THEN heap[a][i] ELSE Uninit

(* The first n cells of the block at a hold members of S. *)
Holds(a, n, S) == \A i \in 1 .. n : Cell(a, i) \in S

Undefined ==
  /\ status' = "undefined"
  /\ result' = <<>> /\ UNCHANGED <<heap, handle, listed>>

(* No other map names v's block. *)
Sole(v) == \A w \in Vars \ {v} : InScope(w) => handle[w].entries # handle[v].entries

(* The number of entries of all maps, for the bound. *)
Entries == FoldFunction(LAMBDA h, n : IF h = NoMap THEN n ELSE h.len + n, 0, handle)

-------------------------------------------------------------------------------
(* The scan every operation makes: for (i = 0; i < m.len; i++) strcmp(...)  *)

Matches(h, k) == {i \in 1 .. h.len : heap[h.entries][i].key = k}

Found(h, k) == Matches(h, k) # {}

Place(h, k) == Min(Matches(h, k))

-------------------------------------------------------------------------------
(* Statements *)

Init ==
  /\ heap = [a \in Addrs |-> Free]
  /\ handle = [v \in Vars |-> NoMap]
  /\ listed = NoMap
  /\ result = <<>>
  /\ status = "running"
  /\ op = <<>>

(* Mutant: keys and values are swapped. *)
MapNewSwapped(v, s) ==
  /\ Running /\ ~InScope(v) /\ Entries + Len(s) <= MaxEntries
  /\ op' = <<"new", v, s>>
  /\ UNCHANGED <<listed, status>> /\ result' = <<>>
  /\ \E a \in Addrs :
       /\ ~Live(a)
       /\ handle' = [handle EXCEPT ![v] = [entries |-> a, len |-> Len(s), cap |-> Len(s)]]
       /\ heap' = Reached([heap EXCEPT ![a] =
                             [i \in 1 .. Len(s) |-> [key |-> s[i][2], value |-> s[i][1]]]])

(* fy_map_T_from: every pair of the literal becomes an entry.  A literal   *)
(* assigned to v instead is Drop(v) and this.                              *)
MapNew(v, s) ==
  /\ Running /\ ~InScope(v) /\ Entries + Len(s) <= MaxEntries
  /\ op' = <<"new", v, s>>
  /\ UNCHANGED <<listed, status>> /\ result' = <<>>
  /\ \E a \in Addrs :
       /\ ~Live(a)
       /\ handle' = [handle EXCEPT ![v] = [entries |-> a, len |-> Len(s), cap |-> Len(s)]]
       /\ heap' = Reached([heap EXCEPT ![a] =
                             [i \in 1 .. Len(s) |-> [key |-> s[i][1], value |-> s[i][2]]]])

(* let v = w; v = w; f(w) with parameter v: a struct copy *)
Copy(v, w) ==
  /\ Running /\ InScope(w) /\ v # w
  /\ op' = <<"copy", v, w>>
  /\ UNCHANGED <<listed, status>> /\ result' = <<>>
  /\ handle' = [handle EXCEPT ![v] = handle[w]]
  /\ heap' = Reached(heap)

Drop(v) ==
  /\ Running /\ InScope(v)
  /\ op' = <<"drop", v>>
  /\ UNCHANGED <<listed, status>> /\ result' = <<>>
  /\ handle' = [handle EXCEPT ![v] = NoMap]
  /\ heap' = Reached(heap)

Overwrite(v, k, x) ==
  LET h == handle[v] IN
  /\ heap' = [heap EXCEPT ![h.entries][Place(h, k)].value = x]
  /\ result' = <<>> /\ UNCHANGED <<handle, listed, status>>

AddInPlace(v, k, x) ==
  LET h == handle[v] IN
  /\ h.len # h.cap
  /\ IF h.len < Len(heap[h.entries])
     THEN /\ handle' = [handle EXCEPT ![v].len = @ + 1]
          /\ heap' = [heap EXCEPT ![h.entries][h.len + 1] = [key |-> k, value |-> x]]
          /\ result' = <<>> /\ UNCHANGED <<listed, status>>
     ELSE Undefined

(* Mutant: realloc is given the old capacity. *)
AddGrowLate(v, k, x) ==
  LET h == handle[v] IN
  /\ h.len = h.cap
  /\ handle' = [handle EXCEPT ![v].len = @ + 1, ![v].cap = 2 * @]
  /\ heap' = [heap EXCEPT ![h.entries] = Append(@, [key |-> k, value |-> x])]
  /\ result' = <<>> /\ UNCHANGED <<listed, status>>

(* realloc keeps the address or moves the block; the handle written through *)
(* is updated, and no other one.                                           *)
AddGrow(v, k, x) ==
  LET h == handle[v]
      cap == IF h.cap = 0 THEN 4 ELSE 2 * h.cap
      grown == [i \in 1 .. cap |-> IF i <= h.len THEN heap[h.entries][i]
                                   ELSE IF i = h.len + 1 THEN [key |-> k, value |-> x]
                                   ELSE Uninit]
  IN
  /\ h.len = h.cap
  /\ result' = <<>> /\ UNCHANGED <<listed, status>>
  /\ \E a \in Addrs :
       /\ a = h.entries \/ ~Live(a)
       /\ handle' = [handle EXCEPT ![v] = [entries |-> a, len |-> h.len + 1, cap |-> cap]]
       /\ heap' = Reached([heap EXCEPT ![h.entries] = Free, ![a] = grown])

(* fy_map_T_set: the scan, then an overwrite or a new entry.  The model scans *)
(* all entries where C stops at the first match: either every entry a handle *)
(* counts is there or its block is gone.                                    *)
MapSet(v, k, x) ==
  LET h == handle[v] IN
  /\ Running /\ InScope(v)
  /\ Discipline = "writes" => Sole(v)
  /\ op' = <<"set", v, k, x>>
  /\ IF ~Holds(h.entries, h.len, Entry) THEN Undefined
     ELSE IF Found(h, k) THEN Overwrite(v, k, x)
     ELSE /\ Entries < MaxEntries /\ (Discipline = "adds" => Sole(v))
          /\ AddInPlace(v, k, x) \/ AddGrow(v, k, x)

-------------------------------------------------------------------------------
(* Expressions *)

(* An expression that scans the entries of v and gives the value r. *)
Evaluate(v, r) ==
  IF Holds(handle[v].entries, handle[v].len, Entry)
  THEN result' = <<r>> /\ UNCHANGED <<heap, handle, listed, status>>
  ELSE Undefined

MapGet(v, k) ==
  LET h == handle[v] IN
  /\ Running /\ InScope(v)
  /\ op' = <<"get", v, k>>
  /\ Evaluate(v, IF Found(h, k) THEN heap[h.entries][Place(h, k)].value ELSE Zero)

(* Mutant: a key with the zero value counts as missing. *)
MapHasNonZero(v, k) ==
  LET h == handle[v] IN
  /\ Running /\ InScope(v)
  /\ op' = <<"has", v, k>>
  /\ Evaluate(v, IF Found(h, k) /\ heap[h.entries][Place(h, k)].value # Zero THEN 1 ELSE 0)

MapHas(v, k) ==
  /\ Running /\ InScope(v)
  /\ op' = <<"has", v, k>>
  /\ Evaluate(v, IF Found(handle[v], k) THEN 1 ELSE 0)

MapLen(v) ==
  /\ Running /\ InScope(v)
  /\ op' = <<"len", v>>
  /\ result' = <<handle[v].len>>
  /\ UNCHANGED <<heap, handle, listed, status>>

(* let ks = keys(v); a new block with the keys, in the order of the entries *)
MapKeys(v) ==
  LET h == handle[v] IN
  /\ Running /\ InScope(v)
  /\ op' = <<"keys", v>>
  /\ IF ~Holds(h.entries, h.len, Entry) THEN Undefined
     ELSE /\ result' = <<>> /\ UNCHANGED <<handle, status>>
          /\ \E a \in Addrs :
               /\ ~Live(a)
               /\ listed' = [data |-> a, len |-> h.len]
               /\ heap' = Reached([heap EXCEPT ![a] =
                                     [i \in 1 .. h.len |-> heap[h.entries][i].key]])

(* ks[i - 1], in the body of a loop over the keys, which may change maps *)
KeyAt(i) ==
  /\ Running /\ listed # NoMap /\ i \in 1 .. listed.len
  /\ op' = <<"key", i>>
  /\ IF Holds(listed.data, i, Keys)
     THEN result' = <<heap[listed.data][i]>> /\ UNCHANGED <<heap, handle, listed, status>>
     ELSE Undefined

DropKeys ==
  /\ Running /\ listed # NoMap
  /\ op' = <<"drop keys">>
  /\ listed' = NoMap
  /\ result' = <<>> /\ UNCHANGED <<handle, status>>
  /\ heap' = Reached(heap)

Next ==
  \/ \E v \in Vars, s \in Literals : MapNew(v, s)
  \/ \E v, w \in Vars : Copy(v, w)
  \/ \E v \in Vars : Drop(v) \/ MapLen(v) \/ MapKeys(v)
  \/ \E v \in Vars, k \in Keys, x \in Values : MapSet(v, k, x)
  \/ \E v \in Vars, k \in Keys : MapGet(v, k) \/ MapHas(v, k)
  \/ \E i \in 1 .. MaxEntries : KeyAt(i)
  \/ DropKeys

Spec == Init /\ [][Next]_vars

-------------------------------------------------------------------------------
(* Properties *)

(* The shape of the memory, the handles and the program's state. *)
TypeOK ==
  /\ heap \in [Addrs -> Seq(Cells) \cup {Free}]
  /\ handle \in [Vars -> Handle \cup {NoMap}]
  /\ listed \in KeyList \cup {NoMap}
  /\ result \in Seq(Int \cup Keys)
  /\ status \in {"running", "undefined"}

(* Every map names a block that is there and holds its capacity, whose     *)
(* first len cells are entries; the list of keys names a block of keys,    *)
(* which no map shares.  fy_map_T_set's test of len against cap, realloc   *)
(* and fy_map_T_keys keep this up through any order of calls, so that none *)
(* touches memory that is not the map's: codegen.c checks nothing but the  *)
(* key.                                                                    *)
MemorySafe ==
  /\ status # "undefined"
  /\ \A v \in Vars : InScope(v) =>
       LET h == handle[v] IN
       /\ Live(h.entries)
       /\ h.len <= h.cap /\ h.cap <= Len(heap[h.entries])
       /\ \A i \in 1 .. h.len : heap[h.entries][i] \in Entry
  /\ listed # NoMap =>
       /\ Live(listed.data) /\ listed.len <= Len(heap[listed.data])
       /\ \A i \in 1 .. listed.len : heap[listed.data][i] \in Keys

(* The function a map stands for, and the list of keys, as the program can *)
(* read them.                                                              *)
Meaning(v) ==
  IF ~InScope(v) THEN NoMap
  ELSE LET h == handle[v]
       IN  [k \in {heap[h.entries][i].key : i \in 1 .. h.len} |-> heap[h.entries][Place(h, k)].value]

Listing ==
  IF listed = NoMap THEN NoMap ELSE [i \in 1 .. listed.len |-> Cell(listed.data, i)]

(* The runtime keeps the language's promise: every statement does to the   *)
(* maps, and every expression gives, what ValueMaps says of the same call; *)
(* len counts a key once, which fy_map_T_set sees to by its scan and       *)
(* fy_map_T_from does not look at.                                         *)
Promise == INSTANCE ValueMaps WITH
             maps <- [v \in Vars |-> Meaning(v)], listed <- Listing
ImplementsValueMaps == Promise!Spec
================================================================================
