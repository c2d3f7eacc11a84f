---------------------------- MODULE MCStructLayout -----------------------------
(* Small instances of StructLayout for TLC. *)
EXTENDS StructLayout

(* Bases that leave room for exactly Count structs. *)
SmallPrograms ==
  [Structs -> {<<>>, <<1, EnumBase>>}
              \cup {<<t>> : t \in {StructType(s) : s \in Structs} \cup {ListType(s) : s \in Structs}}
              \cup {<<StructType(s), ListType(t)>> : s, t \in Structs}]
===============================================================================
