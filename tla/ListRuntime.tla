----------------------------- MODULE ListRuntime ------------------------------
(***************************************************************************)
(* The list runtime codegen.c emits into every program: a list variable is *)
(* a C struct {data, len, cap} held by value, its elements sit in a heap   *)
(* block, and copying the variable (let, assignment, argument, return,     *)
(* the hidden variable of a for-in loop, launch_args()) copies the struct  *)
(* and not the block.  Blocks grow by realloc when len reaches cap and are *)
(* never freed otherwise.                                                  *)
(*                                                                         *)
(* A step that touches a block that is gone, or a cell outside it or never *)
(* written, has no meaning in C: the model stops there with status         *)
(* "undefined", which stands for whatever the build then does.             *)
(***************************************************************************)
EXTENDS Integers, SequencesExt

CONSTANTS
  Vars,        \* the list variables of a program: locals and parameters
  Cli,         \* fy_cli_args, the C global launch_args() returns
  Iter,        \* __fy_feN_src, the hidden variable of a for-in loop
  Values,      \* the elements
  LaunchArgs,  \* the arguments the program was started with
  Addrs,       \* the addresses malloc and realloc choose from
  MaxLen,      \* bound on the length of a list
  NoList,      \* a variable that is not in scope
  Free,        \* an address with no block
  Uninit,      \* a cell never written
  Discipline   \* "none": any program; "pushes": the program pushes only through
               \* the sole handle of a block; "writes": it makes every change so

VARIABLES
  heap,        \* address -> the cells of its block, or Free
  handle,      \* name -> [data, len, cap], or NoList
  pos,         \* __fy_feN_idx
  result,      \* what the step's expression gave, 0 if it evaluates none
  status,      \* "running", "exited" (exit(1) after an error) or "undefined"
  call         \* the statement or expression just executed, with its arguments

vars == <<heap, handle, pos, result, status, call>>

Names == Vars \cup {Cli, Iter}
Indices == -1 .. MaxLen          \* indices a program may ask for
Handle == [data : Addrs, len : Nat, cap : Nat]

ASSUME ConstantsAssumption ==
  /\ Cli \notin Vars /\ Iter \notin Vars /\ Cli # Iter
  /\ Values \subseteq Int
  /\ Uninit \notin Values
  /\ Free \notin Seq(Values \cup {Uninit})
  /\ NoList \notin Handle \cup Seq(Values)
  /\ MaxLen \in Nat
  /\ LaunchArgs \in Seq(Values)
  /\ Addrs # {}
  /\ Discipline \in {"none", "pushes", "writes"}

-------------------------------------------------------------------------------
(* Memory *)

Running == status = "running"
InScope(n) == handle[n] # NoList
Live(a) == heap[a] # Free

(* The blocks of m a handle still names after the step.  C keeps the other *)
(* ones until the program exits, but nothing can reach them: the model     *)
(* forgets them, and malloc and realloc choose among the addresses left.   *)
Reached(m) ==
  [a \in Addrs |-> IF \E n \in Names : handle'[n] # NoList /\ handle'[n].data = a
                   THEN m[a] ELSE Free]

Cell(a, i) == IF Live(a) /\ i <= Len(heap[a]) THEN heap[a][i] ELSE Uninit

(* The first k cells of h's block can be read. *)
Readable(h, k) == \A i \in 1 .. k : Cell(h.data, i) # Uninit

(* No other handle names v's block. *)
Sole(v) == \A n \in Names \ {v} : InScope(n) => handle[n].data # handle[v].data

(* The discipline of a program: the compiler never asks for it. *)
MayPush(v) == Discipline \in {"pushes", "writes"} => Sole(v)
MayWrite(v) == Discipline = "writes" => Sole(v)

(* A block of cells c after realloc to n cells and the write of x in cell k. *)
Grown(c, n, k, x) ==
  [i \in 1 .. n |-> IF i = k THEN x ELSE IF i <= Len(c) THEN c[i] ELSE Uninit]

Undefined ==
  /\ status' = "undefined"
  /\ result' = 0 /\ UNCHANGED <<heap, handle, pos>>

(* v becomes a list of len elements in the block at a, whose cells are c. *)
Store(v, a, c, len, cap) ==
  /\ handle' = [handle EXCEPT ![v] = [data |-> a, len |-> len, cap |-> cap]]
  /\ heap' = Reached([heap EXCEPT ![a] = c])
  /\ result' = 0 /\ UNCHANGED <<pos, status>>

Rewrite(v, c) ==
  /\ heap' = [heap EXCEPT ![handle[v].data] = c]
  /\ result' = 0 /\ UNCHANGED <<handle, pos, status>>

-------------------------------------------------------------------------------
(* Statements *)

(* fy_init_launch_args: cap is the number of arguments, 0 when there are none, *)
(* while the block always has a cell.                                      *)
Init ==
  /\ \E a \in Addrs :
       /\ heap = [b \in Addrs |->
                    IF b # a THEN Free ELSE IF LaunchArgs = <<>> THEN <<Uninit>> ELSE LaunchArgs]
       /\ handle = [n \in Names |->
                      IF n = Cli THEN [data |-> a, len |-> Len(LaunchArgs), cap |-> Len(LaunchArgs)]
                      ELSE NoList]
  /\ pos = 0
  /\ result = 0
  /\ status = "running"
  /\ call = <<>>

(* fy_list_T_new for a literal of at least one element, which sema asks for *)
ListNew(v, s) ==
  /\ Running
  /\ call' = <<"new", v, s>>
  /\ \E a \in Addrs : ~Live(a) /\ Store(v, a, s, Len(s), Len(s))

(* let v = w; v = w; f(w) with parameter v; v = launch_args(): a struct copy *)
Copy(v, w) ==
  /\ Running /\ InScope(w) /\ v # w
  /\ call' = <<"copy", v, w>>
  /\ handle' = [handle EXCEPT ![v] = handle[w]]
  /\ heap' = Reached(heap)
  /\ result' = 0 /\ UNCHANGED <<pos, status>>

(* The C block that declares v ends; its elements stay where they are. *)
Drop(v) ==
  /\ Running /\ InScope(v)
  /\ call' = <<"drop", v>>
  /\ handle' = [handle EXCEPT ![v] = NoList]
  /\ heap' = Reached(heap)
  /\ result' = 0 /\ UNCHANGED <<pos, status>>

(* fy_list_T_push with room left *)
PushInPlace(v, x) ==
  LET h == handle[v] IN
  /\ h.len # h.cap
  /\ IF Live(h.data) /\ h.len < Len(heap[h.data])
     THEN Store(v, h.data, [heap[h.data] EXCEPT ![h.len + 1] = x], h.len + 1, h.cap)
     ELSE Undefined

(* Mutant: what realloc returns is not assigned to data. *)
PushStale(v, x) ==
  LET h == handle[v] IN
  /\ h.len = h.cap
  /\ Live(h.data)
  /\ \E a \in Addrs :
       /\ a = h.data \/ ~Live(a)
       /\ handle' = [handle EXCEPT ![v].len = @ + 1, ![v].cap = 2 * @ + 1]
       /\ heap' = Reached([heap EXCEPT ![h.data] = Free,
                                       ![a] = Grown(heap[h.data], 2 * h.cap + 1, h.len + 1, x)])
       /\ result' = 0 /\ UNCHANGED <<pos, status>>

(* fy_list_T_push when len = cap: realloc keeps the address or moves the   *)
(* block; the handle pushed through is updated, and no other one.          *)
PushGrow(v, x) ==
  LET h == handle[v]
      cap == IF h.cap = 0 THEN 4 ELSE 2 * h.cap
  IN
  /\ h.len = h.cap
  /\ IF Live(h.data)
     THEN \E a \in Addrs :
            /\ a = h.data \/ ~Live(a)
            /\ handle' = [handle EXCEPT ![v] = [data |-> a, len |-> h.len + 1, cap |-> cap]]
            /\ heap' = Reached([heap EXCEPT ![h.data] = Free,
                                            ![a] = Grown(heap[h.data], cap, h.len + 1, x)])
            /\ result' = 0 /\ UNCHANGED <<pos, status>>
     ELSE Undefined

ListPush(v, x) ==
  /\ Running /\ InScope(v) /\ MayPush(v)
  /\ call' = <<"push", v, x>>
  /\ handle[v].len < MaxLen
  /\ PushInPlace(v, x) \/ PushGrow(v, x)

(* The bounds check of fy_list_T_get, _set and _remove *)
InRange(h, i) == 0 <= i /\ i < h.len

OutOfBounds(v, i) ==
  /\ Running /\ InScope(v) /\ ~InRange(handle[v], i)
  /\ call' = <<"index", v, i>>
  /\ status' = "exited"
  /\ result' = 0 /\ UNCHANGED <<heap, handle, pos>>

ListSet(v, i, x) ==
  LET h == handle[v] IN
  /\ Running /\ InScope(v) /\ MayWrite(v) /\ InRange(h, i)
  /\ call' = <<"set", v, i, x>>
  /\ IF Live(h.data) /\ i < Len(heap[h.data])
     THEN Rewrite(v, [heap[h.data] EXCEPT ![i + 1] = x])
     ELSE Undefined

(* Mutant: the elements move down from the place after i + 1. *)
RemoveNext(v, i) ==
  LET h == handle[v] IN
  /\ Running /\ InScope(v) /\ MayWrite(v) /\ InRange(h, i)
  /\ call' = <<"remove", v, i>>
  /\ Readable(h, h.len)
  /\ Store(v, h.data,
           [k \in 1 .. Len(heap[h.data]) |->
              IF i + 1 < k /\ k < h.len THEN heap[h.data][k + 1] ELSE heap[h.data][k]],
           h.len - 1, h.cap)

(* The elements after i move down one place; the cell the last one leaves  *)
(* keeps its content.                                                      *)
ListRemove(v, i) ==
  LET h == handle[v] IN
  /\ Running /\ InScope(v) /\ MayWrite(v) /\ InRange(h, i)
  /\ call' = <<"remove", v, i>>
  /\ IF i = h.len - 1 THEN /\ handle' = [handle EXCEPT ![v].len = @ - 1]
                           /\ result' = 0 /\ UNCHANGED <<heap, pos, status>>
     ELSE IF Readable(h, h.len)
     THEN Store(v, h.data,
                [k \in 1 .. Len(heap[h.data]) |->
                   IF i < k /\ k < h.len THEN heap[h.data][k + 1] ELSE heap[h.data][k]],
                h.len - 1, h.cap)
     ELSE Undefined

ListReverse(v) ==
  LET h == handle[v] IN
  /\ Running /\ InScope(v) /\ MayWrite(v)
  /\ call' = <<"reverse", v>>
  /\ IF h.len < 2 THEN result' = 0 /\ UNCHANGED <<heap, handle, pos, status>>
     ELSE IF Readable(h, h.len)
     THEN Rewrite(v, [k \in 1 .. Len(heap[h.data]) |->
                        IF k <= h.len THEN heap[h.data][h.len - k + 1] ELSE heap[h.data][k]])
     ELSE Undefined

(* qsort over the first len cells: a rearrangement p of them that is in    *)
(* the order of fy_list_T_cmp                                              *)
ListSort(v) ==
  LET h == handle[v] IN
  /\ Running /\ InScope(v) /\ MayWrite(v)
  /\ call' = <<"sort", v>>
  /\ IF Readable(h, h.len)
     THEN \E p \in Bijection(1 .. h.len, 1 .. h.len) :
            /\ IsSorted([i \in 1 .. h.len |-> heap[h.data][p[i]]], <=)
            /\ IF h.len = 0 THEN result' = 0 /\ UNCHANGED <<heap, handle, pos, status>>
               ELSE Rewrite(v, [k \in 1 .. Len(heap[h.data]) |->
                                  IF k <= h.len THEN heap[h.data][p[k]] ELSE heap[h.data][k]])
     ELSE Undefined

-------------------------------------------------------------------------------
(* Expressions *)

(* The two ends fy_list_T_slice clamps a request to, in the order it does. *)
SliceStart(len, from) == IF from < 0 THEN 0 ELSE IF from > len THEN len ELSE from
SliceEnd(len, start, to) == IF to < start THEN start ELSE IF to > len THEN len ELSE to

(* Mutant: the result is built by moving the source's own elements down. *)
SliceInPlace(w, v, from, to) ==
  LET h == handle[v]
      start == SliceStart(h.len, from)
      n == SliceEnd(h.len, start, to) - start
  IN
  /\ Running /\ InScope(v) /\ Readable(h, start + n)
  /\ call' = <<"slice", w, v, from, to>>
  /\ Store(w, h.data,
           [i \in 1 .. Len(heap[h.data]) |->
              IF i <= n THEN heap[h.data][start + i] ELSE heap[h.data][i]], n, h.cap)

ListSlice(w, v, from, to) ==
  LET h == handle[v]
      start == SliceStart(h.len, from)
      n == SliceEnd(h.len, start, to) - start
  IN
  /\ Running /\ InScope(v)
  /\ call' = <<"slice", w, v, from, to>>
  /\ IF n = 0 THEN \E a \in Addrs : ~Live(a) /\ Store(w, a, <<Uninit>>, 0, 1)
     ELSE IF Readable(h, start + n)
     THEN \E a \in Addrs :
            ~Live(a) /\ Store(w, a, [i \in 1 .. n |-> heap[h.data][start + i]], n, n)
     ELSE Undefined

(* Mutant: the index is counted from the second element. *)
GetNext(v, i) ==
  LET h == handle[v] IN
  /\ Running /\ InScope(v) /\ InRange(h, i)
  /\ call' = <<"get", v, i>>
  /\ result' = Cell(h.data, i + 2) /\ UNCHANGED <<heap, handle, pos, status>>

ListGet(v, i) ==
  LET h == handle[v] IN
  /\ Running /\ InScope(v) /\ InRange(h, i)
  /\ call' = <<"get", v, i>>
  /\ IF Readable(h, i + 1)
     THEN result' = heap[h.data][i + 1] /\ UNCHANGED <<heap, handle, pos, status>>
     ELSE Undefined

ListContains(v, x) ==
  LET h == handle[v] IN
  /\ Running /\ InScope(v)
  /\ call' = <<"contains", v, x>>
  /\ IF Readable(h, h.len)
     THEN /\ result' = IF \E k \in 1 .. h.len : heap[h.data][k] = x THEN 1 ELSE 0
          /\ UNCHANGED <<heap, handle, pos, status>>
     ELSE Undefined

ListLen(v) ==
  /\ Running /\ InScope(v)
  /\ call' = <<"len", v>>
  /\ result' = handle[v].len
  /\ UNCHANGED <<heap, handle, pos, status>>

-------------------------------------------------------------------------------
(* for (let x in v) { ... } as parse_foreach rewrites it: the hidden       *)
(* variable is a copy of v's struct, taken before the first turn.          *)

ForInStart(v) ==
  /\ Running /\ InScope(v) /\ ~InScope(Iter)
  /\ call' = <<"for", v>>
  /\ handle' = [handle EXCEPT ![Iter] = handle[v]]
  /\ pos' = 0
  /\ result' = 0 /\ UNCHANGED <<heap, status>>

ForInNext ==
  LET h == handle[Iter] IN
  /\ Running /\ InScope(Iter) /\ pos < h.len
  /\ call' = <<"next">>
  /\ IF Readable(h, pos + 1)
     THEN /\ result' = heap[h.data][pos + 1]
          /\ pos' = pos + 1
          /\ UNCHANGED <<heap, handle, status>>
     ELSE Undefined

(* pos has reached len, or the body breaks or returns *)
ForInEnd ==
  /\ Running /\ InScope(Iter)
  /\ call' = <<"end">>
  /\ handle' = [handle EXCEPT ![Iter] = NoList]
  /\ heap' = Reached(heap)
  /\ pos' = 0
  /\ result' = 0 /\ UNCHANGED status

Next ==
  \/ \E v \in Vars, s \in BoundedSeq(Values, MaxLen) : s # <<>> /\ ListNew(v, s)
  \/ \E v \in Vars, w \in Vars \cup {Cli} : Copy(v, w)
  \/ \E v \in Vars : Drop(v) \/ ListReverse(v) \/ ListSort(v) \/ ListLen(v) \/ ForInStart(v)
  \/ \E v \in Vars, x \in Values : ListPush(v, x) \/ ListContains(v, x)
  \/ \E v \in Vars, i \in Indices, x \in Values : ListSet(v, i, x)
  \/ \E v \in Vars, i \in Indices : ListRemove(v, i) \/ ListGet(v, i) \/ OutOfBounds(v, i)
  \/ \E v, w \in Vars, from, to \in Indices : ListSlice(w, v, from, to)
  \/ ForInNext
  \/ ForInEnd

Spec == Init /\ [][Next]_vars

-------------------------------------------------------------------------------
(* Properties *)

Status == {"running", "exited", "undefined"}

(* The shape of the memory, the handles and the program's state. *)
TypeOK ==
  /\ heap \in [Addrs -> Seq(Values \cup {Uninit}) \cup {Free}]
  /\ handle \in [Names -> Handle \cup {NoList}]
  /\ pos \in Nat
  /\ result \in Int
  /\ status \in Status

(* Every handle of the program names a block that is there and holds at    *)
(* least the handle's capacity, and every element the handle counts has    *)
(* been written: what push's test of len against cap, realloc and the      *)
(* clamps of slice have to keep up through any order of calls.             *)
Sound(h, block) ==
  /\ block # Free
  /\ h.len <= h.cap
  /\ h.cap <= Len(block)
  /\ \A i \in 1 .. h.len : block[i] # Uninit

HandlesSound == \A n \in Names : InScope(n) => Sound(handle[n], heap[handle[n].data])

(* No statement touches memory that is not the list's: the README says an  *)
(* index is checked "rather than reading or corrupting memory silently".   *)
NeverUndefined == status # "undefined"

(* Both: no order of statements leads outside of a list's memory.          *)
MemorySound == HandlesSound /\ NeverUndefined

(* The value of n, as the program can print it. *)
Contents(n) ==
  IF InScope(n) THEN [i \in 1 .. handle[n].len |-> Cell(handle[n].data, i)] ELSE NoList

(* A statement changes the value of one list at most: the README's "only   *)
(* mutate that function's own copy, not the caller's list".                *)
OneListPerStep ==
  [][\A m, n \in Names : m # n =>
       Contents(m)' = Contents(m) \/ Contents(n)' = Contents(n)]_vars

(* The runtime keeps the language's promise: every statement and every    *)
(* expression does to the values, and gives, what ValueLists says of the    *)
(* same call with the same arguments.                                      *)
Promise == INSTANCE ValueLists WITH lists <- [n \in Names |-> Contents(n)]
ImplementsValueLists == Promise!Spec
===============================================================================
