------------------------------ MODULE MCMapRuntime -----------------------------
(* Small instances of MapRuntime for TLC. *)
EXTENDS MapRuntime

(* Addresses and keys are only compared for equality. *)
Interchangeable == Permutations(Addrs) \cup Permutations(Keys)

(* Literals of one pair, and of two with different keys *)
SmallLiterals ==
  {<<<<k, x>>>> : k \in Keys, x \in Values} \cup
  {<<<<kk[1], x>>, <<kk[2], x>>>> : kk \in {p \in Keys \X Keys : p[1] # p[2]}, x \in Values}

(* No action reads op or result, and ImplementsValueMaps, which does, is   *)
(* about steps: states that differ in them alone have the same steps.      *)
State == <<heap, handle, listed, status>>
================================================================================
