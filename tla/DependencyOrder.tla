--------------------------- MODULE DependencyOrder ----------------------------
(***************************************************************************)
(* What C asks of the struct typedefs of a program: one is written only    *)
(* after those it needs, and the compiler stops only when it can write no  *)
(* other.  Which of several is written first does not matter.              *)
(***************************************************************************)
EXTENDS Naturals, Sequences

CONSTANT Structs

VARIABLES
  needs,    \* struct -> the structs it needs
  output,   \* the structs written, in order
  stopped

Written == {output[i] : i \in 1 .. Len(output)}
Ready(s) == s \notin Written /\ needs[s] \subseteq Written

Init ==
  /\ needs \in [Structs -> SUBSET Structs]
  /\ output = <<>>
  /\ stopped = FALSE

Write(s) ==
  /\ ~stopped /\ Ready(s)
  /\ output' = Append(output, s)
  /\ UNCHANGED <<needs, stopped>>

Stop ==
  /\ ~stopped /\ \A s \in Structs : ~Ready(s)
  /\ stopped' = TRUE
  /\ UNCHANGED <<needs, output>>

Next == (\E s \in Structs : Write(s)) \/ Stop

Spec == Init /\ [][Next]_<<needs, output, stopped>>
===============================================================================
