------------------------------- MODULE ValueMaps -------------------------------
(***************************************************************************)
(* What the language promises about maps: a map variable holds a function  *)
(* from a finite set of keys to values, m[k] = x changes one key of one    *)
(* variable, and keys(m) is a list of its own, which later changes of m    *)
(* leave alone.                                                            *)
(***************************************************************************)
EXTENDS Integers, SequencesExt

CONSTANTS
  Vars,    \* the map variables of a program
  Keys,    \* the keys, which are strings
  Values,  \* the values
  Zero,    \* what a map gives for a key it does not have
  Literals,\* the literals of a program: sequences of <<key, value>>
  NoMap    \* a variable that is not in scope

VARIABLES
  maps,    \* variable -> its function from keys to values, or NoMap
  listed,  \* the list keys() gave last, or NoMap
  result,  \* what the step's expression gave, in a sequence; <<>> if it evaluates none
  op     \* the statement or expression just executed, with its arguments

vars == <<maps, listed, result, op>>

InScope(v) == maps[v] # NoMap
Present(v, k) == k \in DOMAIN maps[v]

Init ==
  /\ maps = [v \in Vars |-> NoMap]
  /\ listed = NoMap
  /\ result = <<>>
  /\ op = <<>>

(* let v = {k1: x1, ..., kn: xn}; *)
MapNew(v, s) ==
  /\ ~InScope(v)
  /\ op' = <<"new", v, s>>
  /\ maps' = [maps EXCEPT ![v] = [k \in {s[i][1] : i \in 1 .. Len(s)} |->
                                    CHOOSE x \in Values : \E i \in 1 .. Len(s) : s[i] = <<k, x>>]]
  /\ result' = <<>> /\ UNCHANGED listed

Copy(v, w) ==
  /\ InScope(w) /\ v # w
  /\ op' = <<"copy", v, w>>
  /\ maps' = [maps EXCEPT ![v] = maps[w]]
  /\ result' = <<>> /\ UNCHANGED listed

Drop(v) ==
  /\ InScope(v)
  /\ op' = <<"drop", v>>
  /\ maps' = [maps EXCEPT ![v] = NoMap]
  /\ result' = <<>> /\ UNCHANGED listed

(* v[k] = x; inserts or overwrites *)
MapSet(v, k, x) ==
  /\ InScope(v)
  /\ op' = <<"set", v, k, x>>
  /\ maps' = [maps EXCEPT ![v] = [l \in DOMAIN @ \cup {k} |-> IF l = k THEN x ELSE @[l]]]
  /\ result' = <<>> /\ UNCHANGED listed

(* v[k], the zero value for a key that is not present *)
MapGet(v, k) ==
  /\ InScope(v)
  /\ op' = <<"get", v, k>>
  /\ result' = <<IF Present(v, k) THEN maps[v][k] ELSE Zero>>
  /\ UNCHANGED <<maps, listed>>

(* contains(v, k), a C truth value *)
MapHas(v, k) ==
  /\ InScope(v)
  /\ op' = <<"has", v, k>>
  /\ result' = <<IF Present(v, k) THEN 1 ELSE 0>>
  /\ UNCHANGED <<maps, listed>>

(* len(v) *)
MapLen(v) ==
  /\ InScope(v)
  /\ op' = <<"len", v>>
  /\ result' = <<Cardinality(DOMAIN maps[v])>>
  /\ UNCHANGED <<maps, listed>>

(* let ks = keys(v); every key once, in some order *)
MapKeys(v) ==
  /\ InScope(v)
  /\ op' = <<"keys", v>>
  /\ listed' \in SetToSeqs(DOMAIN maps[v])
  /\ result' = <<>> /\ UNCHANGED maps

(* ks[i - 1], as a loop over the keys reads it while its body changes maps *)
KeyAt(i) ==
  /\ op' = <<"key", i>>
  /\ result' = <<listed[i]>>
  /\ UNCHANGED <<maps, listed>>

DropKeys ==
  /\ listed # NoMap
  /\ op' = <<"drop keys">>
  /\ listed' = NoMap
  /\ result' = <<>> /\ UNCHANGED maps

Next ==
  \/ \E v \in Vars, s \in Literals : MapNew(v, s)
  \/ \E v, w \in Vars : Copy(v, w)
  \/ \E v \in Vars : Drop(v) \/ MapLen(v) \/ MapKeys(v)
  \/ \E v \in Vars, k \in Keys, x \in Values : MapSet(v, k, x)
  \/ \E v \in Vars, k \in Keys : MapGet(v, k) \/ MapHas(v, k)
  \/ listed # NoMap /\ \E i \in 1 .. Len(listed) : KeyAt(i)
  \/ DropKeys

Spec == Init /\ [][Next]_vars
================================================================================
