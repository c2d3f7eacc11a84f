----------------------------- MODULE MCListRuntime -----------------------------
(* Small instances of ListRuntime for TLC. *)
EXTENDS ListRuntime

NoArgs == <<>>
OneArg == <<1>>
Addresses == Permutations(Addrs)

(* No action and no property but ImplementsValueLists, which is about      *)
(* steps, reads call: states that differ in it alone have the same steps.  *)
State == <<heap, handle, pos, result, status>>
===============================================================================
