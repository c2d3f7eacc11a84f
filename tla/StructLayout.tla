----------------------------- MODULE StructLayout -----------------------------
(***************************************************************************)
(* emit_struct_typedefs of codegen.c: the structs of a program, in the     *)
(* order they are declared, are gone over again and again, and each one    *)
(* whose fields have their typedefs is written with its list runtime.      *)
(*                                                                         *)
(* A field's type is the number ast.h makes of it: a base for structs, one *)
(* for lists of structs, one for enums, plus the index of the declaration. *)
(***************************************************************************)
EXTENDS Integers, Sequences, FiniteSets

CONSTANTS
  Count,           \* prog->struct_count
  EnumCount,       \* prog->enum_count
  StructBase,      \* TYPE_STRUCT_BASE
  ListStructBase,  \* TYPE_LIST_STRUCT_BASE
  EnumBase,        \* TYPE_ENUM_BASE
  Programs         \* the structs a program may declare: fields of each

VARIABLES
  fields,      \* struct -> the types of its fields
  output,      \* the structs written, in order
  emitted,     \* struct -> its flag
  next,        \* the loop variable of the pass
  progressed,
  done

layoutVars == <<fields, output, emitted, next, progressed, done>>

Structs == 0 .. Count - 1

(* The types a field can be declared with: those of parse_type_token *)
Plain == 0 .. StructBase - 1
StructType(s) == StructBase + s
ListType(s) == ListStructBase + s
EnumType(e) == EnumBase + e
FieldTypes ==
  Plain \cup {StructType(s) : s \in Structs} \cup {ListType(s) : s \in Structs}
  \cup {EnumType(e) : e \in 0 .. EnumCount - 1}

(* ast.h leaves room for ListStructBase - StructBase structs, and nothing  *)
(* in the compiler counts them: see the README.                            *)
ASSUME LayoutAssumption ==
  /\ Count \in Nat /\ EnumCount \in Nat
  /\ StructBase \in Nat /\ ListStructBase \in Nat /\ EnumBase \in Nat
  /\ StructBase + Count <= ListStructBase
  /\ ListStructBase + Count <= EnumBase
  /\ Programs \subseteq [Structs -> Seq(FieldTypes)]

-------------------------------------------------------------------------------
(* type_is_struct, type_is_list_of_struct and list_elem *)
IsStruct(t) == t >= StructBase /\ t < ListStructBase
IsListOfStruct(t) == t >= ListStructBase /\ t < EnumBase
ListElem(t) == t - ListStructBase + StructBase

(* Mutant: a list needs no typedef of its elements, being a pointer. *)
StructOnly(t) == IF IsStruct(t) THEN t - StructBase ELSE -1

(* The struct a field of type t waits for, -1 for none *)
Dep(t) ==
  IF IsStruct(t) THEN t - StructBase
  ELSE IF IsListOfStruct(t) THEN ListElem(t) - StructBase
  ELSE -1

(* Mutant: a field that is ready outweighs the ones before it. *)
LastFieldReady(s) ==
  LET n == Len(fields[s]) IN
  n > 0 /\ Dep(fields[s][n]) >= 0 => emitted[Dep(fields[s][n])]

(* The test of one struct, field by field *)
IsReady(s) == \A j \in 1 .. Len(fields[s]) : Dep(fields[s][j]) >= 0 => emitted[Dep(fields[s][j])]

LayoutInit ==
  /\ fields \in Programs
  /\ output = <<>>
  /\ emitted = [s \in Structs |-> FALSE]
  /\ next = 0
  /\ progressed = FALSE
  /\ done = FALSE

(* Mutant: a struct that is written is counted as two turns. *)
VisitTwice ==
  /\ ~done /\ next < Count
  /\ IF ~emitted[next] /\ IsReady(next)
     THEN /\ output' = Append(output, next)
          /\ emitted' = [emitted EXCEPT ![next] = TRUE]
          /\ progressed' = TRUE
          /\ next' = next + 2
     ELSE next' = next + 1 /\ UNCHANGED <<output, emitted, progressed>>
  /\ UNCHANGED <<fields, done>>

(* One turn of the pass. *)
Visit ==
  /\ ~done /\ next < Count
  /\ IF ~emitted[next] /\ IsReady(next)
     THEN /\ output' = Append(output, next)
          /\ emitted' = [emitted EXCEPT ![next] = TRUE]
          /\ progressed' = TRUE
     ELSE UNCHANGED <<output, emitted, progressed>>
  /\ next' = next + 1
  /\ UNCHANGED <<fields, done>>

(* Mutant: one pass, as if structs were declared before they are used. *)
OnePass ==
  /\ ~done /\ next = Count
  /\ done' = TRUE
  /\ UNCHANGED <<fields, output, emitted, next, progressed>>

(* Mutant: the passes end when nothing remains, and only then. *)
NeverGiveUp ==
  /\ ~done /\ next = Count
  /\ IF \A s \in Structs : emitted[s]
     THEN done' = TRUE /\ UNCHANGED <<next, progressed>>
     ELSE next' = 0 /\ progressed' = FALSE /\ UNCHANGED done
  /\ UNCHANGED <<fields, output, emitted>>

(* After a pass: another one, unless all are written or none was. *)
EndPass ==
  /\ ~done /\ next = Count
  /\ IF progressed /\ \E s \in Structs : ~emitted[s]
     THEN next' = 0 /\ progressed' = FALSE /\ UNCHANGED done
     ELSE done' = TRUE /\ UNCHANGED <<next, progressed>>
  /\ UNCHANGED <<fields, output, emitted>>

LayoutNext == Visit \/ EndPass

LayoutSpec == LayoutInit /\ [][LayoutNext]_layoutVars /\ WF_layoutVars(LayoutNext)

-------------------------------------------------------------------------------
(* Properties *)

(* The shape of the emitter's state. *)
LayoutTypeOK ==
  /\ fields \in [Structs -> Seq(FieldTypes)]
  /\ output \in Seq(Structs)
  /\ emitted \in [Structs -> BOOLEAN]
  /\ next \in 0 .. Count
  /\ progressed \in BOOLEAN
  /\ done \in BOOLEAN

(* The structs that s holds, or holds a list of: what C has to know before *)
(* the typedef of s, said of the declarations and not of type numbers.     *)
Needs(s) ==
  {d \in Structs : \E j \in 1 .. Len(fields[s]) : fields[s][j] \in {StructType(d), ListType(d)}}

(* No typedef in the output comes before one it needs, and none is written *)
(* twice: gcc reads it from the top.                                       *)
DeclaredBeforeUse ==
  /\ \A i, j \in 1 .. Len(output) : output[i] = output[j] => i = j
  /\ \A i \in 1 .. Len(output) : \A d \in Needs(output[i]) :
       \E j \in 1 .. i - 1 : output[j] = d

(* A struct is left out only if the ones left out need each other, "a      *)
(* genuine cycle" in the words of the comment: every one of them needs one *)
(* of them.                                                                *)
LeftOut == {s \in Structs : \A i \in 1 .. Len(output) : output[i] # s}
LeftOutOnlyInCycles == done => \A s \in LeftOut : Needs(s) \cap LeftOut # {}

(* The passes in declaration order write what any order would. *)
Order == INSTANCE DependencyOrder WITH needs <- [s \in Structs |-> Needs(s)], stopped <- done
ImplementsOrder == Order!Spec

(* The passes come to an end, on a cycle too. *)
Ends == <>done
===============================================================================
