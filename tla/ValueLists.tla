------------------------------ MODULE ValueLists ------------------------------
(***************************************************************************)
(* What the language promises about lists: every list variable holds a     *)
(* value of its own, a sequence, and a statement about one variable leaves *)
(* the value of every other variable alone.  Nothing here knows of memory, *)
(* capacities or handles; ListRuntime, the generated C, is shown to        *)
(* implement this module for the programs that keep to a stated            *)
(* discipline.                                                             *)
(***************************************************************************)
EXTENDS Integers, SequencesExt

CONSTANTS
  Vars,        \* the list variables of a program: locals, parameters, globals
  Cli,         \* the name of the value launch_args() returns
  Iter,        \* the name of the list a for-in loop runs over
  Values,      \* the elements
  LaunchArgs,  \* the value of launch_args()
  MaxLen,      \* bound on the length of a list
  NoList       \* a variable that is not in scope

VARIABLES
  lists,       \* name -> its value, or NoList
  pos,         \* the index of the for-in loop
  result,      \* what the step's expression gave, 0 if it evaluates none
  status,      \* "running" or "exited" (a runtime error ends the program)
  call         \* the statement or expression just executed, with its arguments

vars == <<lists, pos, result, status, call>>

Names == Vars \cup {Cli, Iter}
Indices == -1 .. MaxLen          \* indices a program may ask for
Running == status = "running"
InScope(v) == lists[v] # NoList
InRange(s, i) == 0 <= i /\ i < Len(s)

Init ==
  /\ lists = [n \in Names |-> IF n = Cli THEN LaunchArgs ELSE NoList]
  /\ pos = 0
  /\ result = 0
  /\ status = "running"
  /\ call = <<>>

(* let v = [s1, ..., sn]; *)
ListNew(v, s) ==
  /\ Running
  /\ call' = <<"new", v, s>>
  /\ lists' = [lists EXCEPT ![v] = s]
  /\ result' = 0 /\ UNCHANGED <<pos, status>>

(* let v = w; v = w; a call f(w) whose parameter is v; v = launch_args(); *)
Copy(v, w) ==
  /\ Running /\ InScope(w) /\ v # w
  /\ call' = <<"copy", v, w>>
  /\ lists' = [lists EXCEPT ![v] = lists[w]]
  /\ result' = 0 /\ UNCHANGED <<pos, status>>

(* The block or the call that declared v ends. *)
Drop(v) ==
  /\ Running /\ InScope(v)
  /\ call' = <<"drop", v>>
  /\ lists' = [lists EXCEPT ![v] = NoList]
  /\ result' = 0 /\ UNCHANGED <<pos, status>>

(* push(v, x); *)
ListPush(v, x) ==
  /\ Running /\ InScope(v)
  /\ call' = <<"push", v, x>>
  /\ Len(lists[v]) < MaxLen
  /\ lists' = [lists EXCEPT ![v] = Append(@, x)]
  /\ result' = 0 /\ UNCHANGED <<pos, status>>

(* v[i] = x; *)
ListSet(v, i, x) ==
  /\ Running /\ InScope(v) /\ InRange(lists[v], i)
  /\ call' = <<"set", v, i, x>>
  /\ lists' = [lists EXCEPT ![v] = ReplaceAt(@, i + 1, x)]
  /\ result' = 0 /\ UNCHANGED <<pos, status>>

(* remove(v, i); *)
ListRemove(v, i) ==
  /\ Running /\ InScope(v) /\ InRange(lists[v], i)
  /\ call' = <<"remove", v, i>>
  /\ lists' = [lists EXCEPT ![v] = RemoveAt(@, i + 1)]
  /\ result' = 0 /\ UNCHANGED <<pos, status>>

(* reverse(v); *)
ListReverse(v) ==
  /\ Running /\ InScope(v)
  /\ call' = <<"reverse", v>>
  /\ lists' = [lists EXCEPT ![v] = Reverse(@)]
  /\ result' = 0 /\ UNCHANGED <<pos, status>>

(* sort(v); a rearrangement p of the list that is in order *)
ListSort(v) ==
  /\ Running /\ InScope(v)
  /\ call' = <<"sort", v>>
  /\ \E p \in Bijection(1 .. Len(lists[v]), 1 .. Len(lists[v])) :
       LET sorted == [i \in 1 .. Len(lists[v]) |-> lists[v][p[i]]]
       IN  /\ IsSorted(sorted, <=)
           /\ lists' = [lists EXCEPT ![v] = sorted]
  /\ result' = 0 /\ UNCHANGED <<pos, status>>

(* let w = v[from:to]; the part of [from, to) that exists *)
ListSlice(w, v, from, to) ==
  /\ Running /\ InScope(v)
  /\ call' = <<"slice", w, v, from, to>>
  /\ lists' = [lists EXCEPT ![w] =
                 LET first == IF from < 0 THEN 0 ELSE from
                     last  == IF to > Len(lists[v]) THEN Len(lists[v]) ELSE to
                 IN  SubSeq(lists[v], first + 1, last)]
  /\ result' = 0 /\ UNCHANGED <<pos, status>>

(* v[i] in an expression *)
ListGet(v, i) ==
  /\ Running /\ InScope(v) /\ InRange(lists[v], i)
  /\ call' = <<"get", v, i>>
  /\ result' = lists[v][i + 1]
  /\ UNCHANGED <<lists, pos, status>>

(* contains(v, x), a C truth value *)
ListContains(v, x) ==
  /\ Running /\ InScope(v)
  /\ call' = <<"contains", v, x>>
  /\ result' = IF \E k \in 1 .. Len(lists[v]) : lists[v][k] = x THEN 1 ELSE 0
  /\ UNCHANGED <<lists, pos, status>>

(* len(v) *)
ListLen(v) ==
  /\ Running /\ InScope(v)
  /\ call' = <<"len", v>>
  /\ result' = Len(lists[v])
  /\ UNCHANGED <<lists, pos, status>>

(* v[i], v[i] = x or remove(v, i) with an index v does not have *)
OutOfBounds(v, i) ==
  /\ Running /\ InScope(v) /\ ~InRange(lists[v], i)
  /\ call' = <<"index", v, i>>
  /\ status' = "exited"
  /\ result' = 0 /\ UNCHANGED <<lists, pos>>

(* for (let x in v) { ... }: the loop runs over the value v has here. *)
ForInStart(v) ==
  /\ Running /\ InScope(v) /\ ~InScope(Iter)
  /\ call' = <<"for", v>>
  /\ lists' = [lists EXCEPT ![Iter] = lists[v]]
  /\ pos' = 0
  /\ result' = 0 /\ UNCHANGED status

ForInNext ==
  /\ Running /\ InScope(Iter)
  /\ call' = <<"next">>
  /\ pos < Len(lists[Iter])
  /\ result' = lists[Iter][pos + 1]
  /\ pos' = pos + 1
  /\ UNCHANGED <<lists, status>>

(* The list is exhausted, or the body breaks or returns. *)
ForInEnd ==
  /\ Running /\ InScope(Iter)
  /\ call' = <<"end">>
  /\ lists' = [lists EXCEPT ![Iter] = NoList]
  /\ pos' = 0
  /\ result' = 0 /\ UNCHANGED status

Next ==
  \/ \E v \in Vars, s \in BoundedSeq(Values, MaxLen) : s # <<>> /\ ListNew(v, s)
  \/ \E v \in Vars, w \in Vars \cup {Cli} : Copy(v, w)
  \/ \E v \in Vars : Drop(v) \/ ListReverse(v) \/ ListSort(v) \/ ListLen(v) \/ ForInStart(v)
  \/ \E v \in Vars, x \in Values : ListPush(v, x) \/ ListContains(v, x)
  \/ \E v \in Vars, i \in Indices, x \in Values : ListSet(v, i, x)
  \/ \E v \in Vars, i \in Indices : ListRemove(v, i) \/ ListGet(v, i) \/ OutOfBounds(v, i)
  \/ \E v, w \in Vars, from, to \in Indices : ListSlice(w, v, from, to)
  \/ ForInNext
  \/ ForInEnd

Spec == Init /\ [][Next]_vars
===============================================================================
