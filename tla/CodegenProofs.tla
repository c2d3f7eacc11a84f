----------------------------- MODULE CodegenProofs -----------------------------
(***************************************************************************)
(* Proofs about the C that is generated: StructLayout, for any number of   *)
(* structs and any fields, and Control, for functions of any size and      *)
(* nesting, lists of any length and any values of cases.                   *)
(*                                                                         *)
(* The invariant of Control has two parts.  Of sema's walk: there is a set *)
(* of statements with depths that has been checked, in which that of each  *)
(* statement is, or will be.  Of the machines: what C has to execute       *)
(* corresponds frame by frame to what the source machine has to execute    *)
(* when it has made the silent moves it is behind.                         *)
(***************************************************************************)
EXTENDS StructLayout, Control, SequenceTheorems, NaturalsInduction, WellFoundedInduction, TLAPS

-------------------------------------------------------------------------------
(* Type numbers and the structs they stand for *)

(* The struct that a field waits for is the one its type names. *)
LEMMA DepIsNamed ==
  ASSUME NEW t \in FieldTypes, Dep(t) >= 0
  PROVE  Dep(t) \in Structs /\ t \in {StructType(Dep(t)), ListType(Dep(t))}
BY LayoutAssumption
   DEF FieldTypes, Plain, StructType, ListType, EnumType, Structs, Dep,
       IsStruct, IsListOfStruct, ListElem

(* And a field that names a struct waits for it. *)
LEMMA NamedIsDep ==
  ASSUME NEW d \in Structs, NEW t, t \in {StructType(d), ListType(d)}
  PROVE  Dep(t) = d /\ Dep(t) >= 0
BY LayoutAssumption
   DEF StructType, ListType, Structs, Dep, IsStruct, IsListOfStruct, ListElem

(* IsReady, said of the declarations: all that the struct needs is written. *)
LEMMA ReadyMeansNeedsMet ==
  ASSUME LayoutTypeOK, NEW s \in Structs
  PROVE  IsReady(s) <=> \A d \in Needs(s) : emitted[d]
<1>1. fields[s] \in Seq(FieldTypes)
  BY DEF LayoutTypeOK
<1>2. \A j \in 1 .. Len(fields[s]) : fields[s][j] \in FieldTypes
  BY <1>1
<1>3. ASSUME IsReady(s), NEW d \in Needs(s)
      PROVE  emitted[d]
  <2>1. d \in Structs
    BY DEF Needs
  <2>2. PICK j \in 1 .. Len(fields[s]) : fields[s][j] \in {StructType(d), ListType(d)}
    BY DEF Needs
  <2>3. Dep(fields[s][j]) = d /\ Dep(fields[s][j]) >= 0
    BY <2>1, <2>2, NamedIsDep
  <2> QED BY <1>3, <2>3 DEF IsReady
<1>4. ASSUME \A d \in Needs(s) : emitted[d]
      PROVE  IsReady(s)
  <2> SUFFICES ASSUME NEW j \in 1 .. Len(fields[s]), Dep(fields[s][j]) >= 0
               PROVE  emitted[Dep(fields[s][j])]
    BY DEF IsReady
  <2>1. /\ Dep(fields[s][j]) \in Structs
        /\ fields[s][j] \in {StructType(Dep(fields[s][j])), ListType(Dep(fields[s][j]))}
    BY <1>2, DepIsNamed
  <2>2. Dep(fields[s][j]) \in Needs(s)
    BY <2>1 DEF Needs
  <2> QED BY <1>4, <2>2
<1> QED BY <1>3, <1>4

-------------------------------------------------------------------------------
(* The inductive invariant *)

(* The flags say what is in the output. *)
Consistent == \A s \in Structs : emitted[s] <=> \E i \in 1 .. Len(output) : output[i] = s

(* What a pass has left behind was not ready, as long as it wrote nothing. *)
Stuck == ~progressed => \A s \in Structs : s < next /\ ~emitted[s] => ~IsReady(s)

(* When the passes are over nothing that is left is ready. *)
NothingReady == done => \A s \in Structs : ~emitted[s] => ~IsReady(s)

LayoutInv == LayoutTypeOK /\ Consistent /\ DeclaredBeforeUse /\ Stuck /\ NothingReady

LEMMA InitInvariant == LayoutInit => LayoutInv
<1> SUFFICES ASSUME LayoutInit
             PROVE  LayoutInv
  OBVIOUS
<1>1. LayoutTypeOK
  <2>1. fields \in [Structs -> Seq(FieldTypes)]
    BY LayoutAssumption DEF LayoutInit
  <2>2. output \in Seq(Structs) /\ emitted \in [Structs -> BOOLEAN]
    BY DEF LayoutInit
  <2>3. next \in 0 .. Count
    BY LayoutAssumption DEF LayoutInit
  <2>4. progressed \in BOOLEAN /\ done \in BOOLEAN
    BY DEF LayoutInit
  <2> QED BY <2>1, <2>2, <2>3, <2>4 DEF LayoutTypeOK
<1>2. Consistent /\ DeclaredBeforeUse
  BY DEF LayoutInit, Consistent, DeclaredBeforeUse
<1>3. Stuck /\ NothingReady
  BY LayoutAssumption DEF LayoutInit, Stuck, NothingReady, Structs
<1> QED BY <1>1, <1>2, <1>3 DEF LayoutInv

(* A turn that writes a struct: it is new, and what it needs is there. *)
LEMMA WriteKeepsOrder ==
  ASSUME LayoutInv, NEW s \in Structs, ~emitted[s], IsReady(s),
         output' = Append(output, s), UNCHANGED fields
  PROVE  DeclaredBeforeUse'
<1>1. output \in Seq(Structs) /\ Len(output) \in Nat
  BY DEF LayoutInv, LayoutTypeOK
<1>2. /\ Len(output') = Len(output) + 1
      /\ output'[Len(output) + 1] = s
      /\ \A i \in 1 .. Len(output) : output'[i] = output[i]
  BY <1>1
<1>3. \A d : Needs(d)' = Needs(d)
  BY DEF Needs
<1>4. \A i \in 1 .. Len(output) : output[i] # s
  BY DEF LayoutInv, Consistent
<1>5. \A i, j \in 1 .. Len(output') : output'[i] = output'[j] => i = j
  BY <1>1, <1>2, <1>4 DEF LayoutInv, DeclaredBeforeUse
<1>6. ASSUME NEW i \in 1 .. Len(output'), NEW d \in Needs(output'[i])
      PROVE  \E j \in 1 .. i - 1 : output'[j] = d
  <2>1. CASE i \in 1 .. Len(output)
    <3>1. d \in Needs(output[i])
      BY <1>2, <2>1, <1>6
    <3>2. PICK j \in 1 .. i - 1 : output[j] = d
      BY <3>1, <2>1 DEF LayoutInv, DeclaredBeforeUse
    <3> QED BY <1>1, <1>2, <2>1, <3>2
  <2>2. CASE i = Len(output) + 1
    <3>1. d \in Needs(s)
      BY <1>2, <2>2, <1>6
    <3>2. emitted[d] /\ d \in Structs
      BY <3>1, ReadyMeansNeedsMet DEF LayoutInv, Needs
    <3>3. PICK j \in 1 .. Len(output) : output[j] = d
      BY <3>2 DEF LayoutInv, Consistent
    <3> QED BY <1>1, <1>2, <2>2, <3>3
  <2> QED BY <1>1, <1>2, <2>1, <2>2
<1> QED BY <1>3, <1>5, <1>6 DEF DeclaredBeforeUse

LEMMA VisitInvariant == LayoutInv /\ Visit => LayoutInv'
<1> SUFFICES ASSUME LayoutInv, Visit
             PROVE  LayoutInv'
  OBVIOUS
<1>1. next \in Structs /\ Count \in Nat /\ next \in Nat
  BY LayoutAssumption DEF LayoutInv, LayoutTypeOK, Visit, Structs
<1>2. CASE ~emitted[next] /\ IsReady(next)
  <2>1. /\ output' = Append(output, next)
        /\ emitted' = [emitted EXCEPT ![next] = TRUE]
        /\ progressed' = TRUE
        /\ next' = next + 1
        /\ UNCHANGED <<fields, done>>
        /\ ~done
    BY <1>2 DEF Visit
  <2>2. LayoutTypeOK'
    BY <1>1, <2>1 DEF LayoutInv, LayoutTypeOK, Structs
  <2>3. Consistent'
    <3>1. output \in Seq(Structs) /\ emitted \in [Structs -> BOOLEAN]
      BY DEF LayoutInv, LayoutTypeOK
    <3>2. /\ Len(output') = Len(output) + 1
          /\ output'[Len(output) + 1] = next
          /\ \A i \in 1 .. Len(output) : output'[i] = output[i]
      BY <2>1, <3>1
    <3>3. ASSUME NEW s \in Structs
          PROVE  emitted'[s] <=> \E i \in 1 .. Len(output') : output'[i] = s
      <4>1. CASE s = next
        BY <1>1, <2>1, <3>1, <3>2, <4>1
      <4>2. CASE s # next
        BY <2>1, <3>1, <3>2, <4>2 DEF LayoutInv, Consistent
      <4> QED BY <4>1, <4>2
    <3> QED BY <3>3 DEF Consistent
  <2>4. DeclaredBeforeUse'
    BY <1>1, <1>2, <2>1, WriteKeepsOrder
  <2>5. Stuck' /\ NothingReady'
    BY <2>1 DEF Stuck, NothingReady
  <2> QED BY <2>2, <2>3, <2>4, <2>5 DEF LayoutInv
<1>3. CASE ~(~emitted[next] /\ IsReady(next))
  <2>1. UNCHANGED <<output, emitted, progressed, fields, done>> /\ next' = next + 1
    BY <1>3 DEF Visit
  <2>2. LayoutTypeOK' /\ Consistent'
    BY <1>1, <2>1 DEF LayoutInv, LayoutTypeOK, Consistent, Structs
  <2>3. DeclaredBeforeUse'
    BY <2>1 DEF LayoutInv, DeclaredBeforeUse, Needs
  <2>4. Stuck' /\ NothingReady'
    BY <1>1, <1>3, <2>1 DEF LayoutInv, Stuck, NothingReady, IsReady, Structs
  <2> QED BY <2>2, <2>3, <2>4 DEF LayoutInv
<1> QED BY <1>2, <1>3

LEMMA EndPassInvariant == LayoutInv /\ EndPass => LayoutInv'
<1> SUFFICES ASSUME LayoutInv, EndPass
             PROVE  LayoutInv'
  OBVIOUS
<1>1. UNCHANGED <<fields, output, emitted>> /\ next = Count /\ Count \in Nat
  BY LayoutAssumption DEF EndPass
<1>2. LayoutTypeOK'
  <2>1. (fields \in [Structs -> Seq(FieldTypes)] /\ output \in Seq(Structs))'
    BY <1>1 DEF LayoutInv, LayoutTypeOK
  <2>2. (emitted \in [Structs -> BOOLEAN])'
    BY <1>1 DEF LayoutInv, LayoutTypeOK
  <2>3. (next \in 0 .. Count)'
    <3>1. next' = 0 \/ next' = next
      BY DEF EndPass
    <3> QED BY <1>1, <3>1
  <2>4. (progressed \in BOOLEAN /\ done \in BOOLEAN)'
    BY DEF LayoutInv, LayoutTypeOK, EndPass
  <2> QED BY <2>1, <2>2, <2>3, <2>4 DEF LayoutTypeOK
<1>3. Consistent' /\ DeclaredBeforeUse'
  BY <1>1 DEF LayoutInv, Consistent, DeclaredBeforeUse, Needs
<1>4. \A s : IsReady(s)' <=> IsReady(s)
  BY <1>1 DEF IsReady
<1>5. Stuck'
  BY <1>1, <1>4 DEF LayoutInv, Stuck, EndPass, Structs
<1>6. NothingReady'
  <2>1. CASE progressed /\ \E s \in Structs : ~emitted[s]
    BY <1>1, <2>1 DEF EndPass, NothingReady
  <2>2. CASE \A s \in Structs : emitted[s]
    BY <1>1, <2>2 DEF NothingReady
  <2>3. CASE ~progressed
    <3>1. \A s \in Structs : s < Count
      BY LayoutAssumption DEF Structs
    <3> QED BY <1>1, <1>4, <2>3, <3>1 DEF LayoutInv, Stuck, NothingReady
  <2> QED BY <2>1, <2>2, <2>3
<1> QED BY <1>2, <1>3, <1>5, <1>6 DEF LayoutInv

LEMMA StutterInvariant == LayoutInv /\ UNCHANGED layoutVars => LayoutInv'
BY DEF LayoutInv, LayoutTypeOK, Consistent, DeclaredBeforeUse, Needs, Stuck, NothingReady,
       IsReady, layoutVars

(* The state of emit_struct_typedefs is as LayoutInv says in every behaviour. *)
THEOREM LayoutInvariant == LayoutSpec => []LayoutInv
<1>1. LayoutInv /\ [LayoutNext]_layoutVars => LayoutInv'
  BY VisitInvariant, EndPassInvariant, StutterInvariant DEF LayoutNext
<1> QED BY <1>1, InitInvariant, PTL DEF LayoutSpec

-------------------------------------------------------------------------------
(* The results *)

(* The variables of the emitter keep their types. *)
THEOREM LayoutTypeCorrect == LayoutSpec => []LayoutTypeOK
<1>1. LayoutInv => LayoutTypeOK
  BY DEF LayoutInv
<1> QED BY <1>1, LayoutInvariant, PTL

(* codegen.c, emit_struct_typedefs: whatever structs a program declares, in
   whatever order, the C has every typedef once and before it is used. *)
THEOREM Ordered == LayoutSpec => []DeclaredBeforeUse
<1>1. LayoutInv => DeclaredBeforeUse
  BY DEF LayoutInv
<1> QED BY <1>1, LayoutInvariant, PTL

(* codegen.c:485, "a genuine cycle": each struct the emitter gives up on needs
   one it gave up on. *)
THEOREM OnlyCyclesLeftOut == LayoutSpec => []LeftOutOnlyInCycles
<1>1. LayoutInv => LeftOutOnlyInCycles
  <2> SUFFICES ASSUME LayoutInv, done, NEW s \in LeftOut
               PROVE  Needs(s) \cap LeftOut # {}
    BY DEF LeftOutOnlyInCycles
  <2>1. s \in Structs /\ ~emitted[s]
    BY DEF LayoutInv, Consistent, LeftOut
  <2>2. ~IsReady(s)
    BY <2>1 DEF LayoutInv, NothingReady
  <2>3. PICK d \in Needs(s) : ~emitted[d]
    BY <2>1, <2>2, ReadyMeansNeedsMet DEF LayoutInv
  <2>4. d \in LeftOut
    BY <2>3 DEF LayoutInv, Consistent, LeftOut, Needs
  <2> QED BY <2>3, <2>4
<1> QED BY <1>1, LayoutInvariant, PTL

(* The passes in declaration order implement DependencyOrder: every turn
   writes a struct that is ready or changes nothing there, and they stop only
   when none is ready. *)
THEOREM Implements == LayoutSpec => ImplementsOrder
<1>1. LayoutInit => Order!Init
  BY DEF LayoutInit, Order!Init, Needs
<1>2. LayoutInv => \A s \in Structs : s \in Order!Written <=> emitted[s]
  BY DEF LayoutInv, Consistent, Order!Written
<1>3. LayoutInv => \A s \in Structs : Order!Ready(s) <=> ~emitted[s] /\ IsReady(s)
  <2> SUFFICES ASSUME LayoutInv, NEW s \in Structs
               PROVE  Order!Ready(s) <=> ~emitted[s] /\ IsReady(s)
    OBVIOUS
  <2>1. Order!Ready(s) <=> s \notin Order!Written /\ Needs(s) \subseteq Order!Written
    BY DEF Order!Ready
  <2>2. Needs(s) \subseteq Structs
    BY DEF Needs
  <2>3. IsReady(s) <=> \A d \in Needs(s) : emitted[d]
    BY ReadyMeansNeedsMet DEF LayoutInv
  <2> QED BY <1>2, <2>1, <2>2, <2>3
<1>4. UNCHANGED fields => UNCHANGED [s \in Structs |-> Needs(s)]
  BY DEF Needs
<1>5. LayoutInv /\ Visit => [Order!Next]_<<[s \in Structs |-> Needs(s)], output, done>>
  <2> SUFFICES ASSUME LayoutInv, Visit
               PROVE  [Order!Next]_<<[s \in Structs |-> Needs(s)], output, done>>
    OBVIOUS
  <2>1. next \in Structs /\ UNCHANGED <<fields, done>> /\ ~done
    BY LayoutAssumption DEF LayoutInv, LayoutTypeOK, Visit, Structs
  <2>2. CASE ~emitted[next] /\ IsReady(next)
    <3>1. output' = Append(output, next)
      BY <2>2 DEF Visit
    <3>2. Order!Ready(next)
      BY <1>3, <2>1, <2>2
    <3>3. Order!Write(next)
      BY <1>4, <2>1, <3>1, <3>2 DEF Order!Write
    <3> QED BY <2>1, <3>3 DEF Order!Next
  <2>3. CASE ~(~emitted[next] /\ IsReady(next))
    BY <1>4, <2>1, <2>3 DEF Visit
  <2> QED BY <2>2, <2>3
<1>6. LayoutInv /\ EndPass => [Order!Next]_<<[s \in Structs |-> Needs(s)], output, done>>
  <2> SUFFICES ASSUME LayoutInv, EndPass
               PROVE  [Order!Next]_<<[s \in Structs |-> Needs(s)], output, done>>
    OBVIOUS
  <2>1. UNCHANGED <<fields, output>> /\ ~done
    BY DEF EndPass
  <2>2. CASE progressed /\ \E s \in Structs : ~emitted[s]
    BY <1>4, <2>1, <2>2 DEF EndPass
  <2>3. CASE ~(progressed /\ \E s \in Structs : ~emitted[s])
    <3>1. done'
      BY <2>3 DEF EndPass
    <3>2. LayoutInv'
      BY EndPassInvariant
    <3>3. \A s \in Structs : ~emitted[s] => ~IsReady(s)
      BY <3>1, <3>2 DEF LayoutInv, NothingReady, EndPass, IsReady
    <3>4. \A s \in Structs : ~Order!Ready(s)
      BY <1>3, <3>3
    <3> QED BY <1>4, <2>1, <3>1, <3>4 DEF Order!Next, Order!Stop, EndPass
  <2> QED BY <2>2, <2>3
<1>7. UNCHANGED layoutVars => UNCHANGED <<[s \in Structs |-> Needs(s)], output, done>>
  BY <1>4 DEF layoutVars
<1>8. LayoutInv /\ [LayoutNext]_layoutVars => [Order!Next]_<<[s \in Structs |-> Needs(s)], output, done>>
  BY <1>5, <1>6, <1>7 DEF LayoutNext
<1> QED BY <1>1, <1>8, LayoutInvariant, PTL DEF LayoutSpec, ImplementsOrder, Order!Spec

(* What the passes have ahead of them: structs not yet written, then one   *)
(* more pass if this one wrote something, then the rest of this pass.      *)
Unwritten == {s \in Structs : ~emitted[s]}

Descends ==
  /\ ~done /\ next' \in 0 .. Count /\ Unwritten' \subseteq Unwritten
  /\ \/ Unwritten' # Unwritten
     \/ progressed /\ ~progressed'
     \/ progressed' = progressed /\ next' > next
     \/ done' /\ UNCHANGED <<progressed, next>>

(* Each turn of emit_struct_typedefs goes down in a well-founded order, on *)
(* cycles too: there are at most Count passes that write, and one more.    *)
THEOREM PassesDescend == LayoutSpec => [][Descends]_layoutVars
<1>1. ASSUME LayoutInv, Visit
      PROVE  Descends
  <2>1. next \in Structs /\ next \in Nat /\ Count \in Nat /\ next' = next + 1 /\ ~done
    BY <1>1, LayoutAssumption DEF LayoutInv, LayoutTypeOK, Visit, Structs
  <2>2. next' \in 0 .. Count /\ next' > next
    BY <1>1, <2>1 DEF Visit
  <2>3. CASE ~emitted[next] /\ IsReady(next)
    <3>1. emitted' = [emitted EXCEPT ![next] = TRUE]
      BY <1>1, <2>3 DEF Visit
    <3>2. emitted \in [Structs -> BOOLEAN]
      BY <1>1 DEF LayoutInv, LayoutTypeOK
    <3>3. /\ \A s \in Structs : emitted'[s] = (s = next \/ emitted[s])
          /\ emitted'[next] /\ ~emitted[next]
      BY <2>1, <2>3, <3>1, <3>2
    <3>4. Unwritten' \subseteq Unwritten /\ next \in Unwritten /\ next \notin Unwritten'
      BY <2>1, <3>3 DEF Unwritten
    <3> QED BY <2>1, <2>2, <3>4 DEF Descends
  <2>4. CASE ~(~emitted[next] /\ IsReady(next))
    <3>1. emitted' = emitted /\ progressed' = progressed
      BY <1>1, <2>4 DEF Visit
    <3>2. Unwritten' = Unwritten
      BY <3>1 DEF Unwritten
    <3> QED BY <2>1, <2>2, <3>1, <3>2 DEF Descends
  <2> QED BY <2>3, <2>4
<1>2. ASSUME LayoutInv, EndPass
      PROVE  Descends
  <2>1. ~done /\ next' \in 0 .. Count /\ emitted' = emitted
    BY <1>2, LayoutAssumption DEF EndPass
  <2>2. Unwritten' = Unwritten
    BY <2>1 DEF Unwritten
  <2>3. (progressed /\ ~progressed') \/ (done' /\ UNCHANGED <<progressed, next>>)
    BY <1>2 DEF EndPass
  <2> QED BY <2>1, <2>2, <2>3 DEF Descends
<1>3. LayoutInv /\ [LayoutNext]_layoutVars => [Descends]_layoutVars
  BY <1>1, <1>2 DEF LayoutNext
<1> QED BY <1>3, LayoutInvariant, PTL DEF LayoutSpec

-------------------------------------------------------------------------------
(* Control: the frames *)

Parts == {"statement", "let_src", "for", "let_idx", "next_idx", "let_element", "init", "step", "test", "turn",
          "let_val", "case", "compare", "return_0", "ended", "loop_depth--"}
Frames == [part : Parts, of : Nat, at : Seq(Int)]
Stack == Seq(Frames)

LEMMA Fields ==
  ASSUME NEW p, NEW n, NEW a
  PROVE  Frame(p, n, a).part = p /\ Frame(p, n, a).of = n /\ Frame(p, n, a).at = a
BY DEF Frame

LEMMA FrameIs ==
  ASSUME NEW p \in Parts, NEW n \in Nat, NEW a \in Seq(Int)
  PROVE  Frame(p, n, a) \in Frames
BY DEF Frame, Frames

LEMMA PartFields ==
  ASSUME NEW p, NEW n
  PROVE  Part(p, n).part = p /\ Part(p, n).of = n /\ Part(p, n).at = <<>>
BY Fields DEF Part

LEMMA PartIsFrame ==
  ASSUME NEW p \in Parts, NEW n \in Nat
  PROVE  Part(p, n) \in Frames
<1>1. <<>> \in Seq(Int)
  OBVIOUS
<1>2. QED
  BY <1>1, FrameIs DEF Part

LEMMA CaseFields ==
  ASSUME NEW n, NEW i, NEW j
  PROVE  /\ Case(n, i, j).part = "case" /\ Case(n, i, j).of = n /\ Case(n, i, j).at = <<i, j>>
         /\ Case(n, i, j).at[1] = i /\ Case(n, i, j).at[2] = j
<1> DEFINE a == <<i, j>>
<1>1. Case(n, i, j) = Frame("case", n, a)
  BY DEF Case
<1>2. a[1] = i /\ a[2] = j
  OBVIOUS
<1> HIDE DEF a
<1>3. Case(n, i, j).part = "case" /\ Case(n, i, j).of = n /\ Case(n, i, j).at = a
  BY <1>1, Fields
<1>4. QED
  BY <1>2, <1>3 DEF a

LEMMA TurnsFields ==
  ASSUME NEW n, NEW i, NEW len
  PROVE  /\ Turns(n, i, len).part = "turn" /\ Turns(n, i, len).of = n /\ Turns(n, i, len).at # <<>>
         /\ Turns(n, i, len).at[1] = i /\ Turns(n, i, len).at[2] = len
<1> DEFINE a == <<i, len>>
<1>1. Turns(n, i, len) = Frame("turn", n, a)
  BY DEF Turns
<1>2. a[1] = i /\ a[2] = len /\ a # <<>>
  OBVIOUS
<1> HIDE DEF a
<1>3. Turns(n, i, len).part = "turn" /\ Turns(n, i, len).of = n /\ Turns(n, i, len).at = a
  BY <1>1, Fields
<1>4. QED
  BY <1>2, <1>3

LEMMA CompareFields ==
  ASSUME NEW n, NEW x, NEW i, NEW j
  PROVE  /\ Compare(n, x, i, j).part = "compare" /\ Compare(n, x, i, j).of = n
         /\ Compare(n, x, i, j).at[1] = x /\ Compare(n, x, i, j).at[2] = i /\ Compare(n, x, i, j).at[3] = j
<1> DEFINE a == <<x, i, j>>
<1>1. Compare(n, x, i, j) = Frame("compare", n, a)
  BY DEF Compare
<1>2. a[1] = x /\ a[2] = i /\ a[3] = j
  OBVIOUS
<1> HIDE DEF a
<1>3. Compare(n, x, i, j).part = "compare" /\ Compare(n, x, i, j).of = n /\ Compare(n, x, i, j).at = a
  BY <1>1, Fields
<1>4. QED
  BY <1>2, <1>3

LEMMA PairIsFrame ==
  ASSUME NEW n \in Nat, NEW i \in Int, NEW j \in Int
  PROVE  Case(n, i, j) \in Frames /\ Turns(n, i, j) \in Frames
<1> DEFINE a == <<i, j>>
<1>1. a \in Seq(Int)
  OBVIOUS
<1>2. Case(n, i, j) = Frame("case", n, a) /\ Turns(n, i, j) = Frame("turn", n, a)
  BY DEF Case, Turns
<1> HIDE DEF a
<1>3. QED
  BY <1>1, <1>2, FrameIs DEF Parts

LEMMA CompareIsFrame ==
  ASSUME NEW n \in Nat, NEW x \in Int, NEW i \in Int, NEW j \in Int
  PROVE  Compare(n, x, i, j) \in Frames
<1> DEFINE a == <<x, i, j>>
<1>1. a \in Seq(Int)
  OBVIOUS
<1>2. Compare(n, x, i, j) = Frame("compare", n, a)
  BY DEF Compare
<1> HIDE DEF a
<1>3. QED
  BY <1>1, <1>2, FrameIs DEF Parts

-------------------------------------------------------------------------------
(* The body *)

LEMMA BodyIs ==
  ASSUME NEW b \in Bodies, NEW n \in 1 .. Len(b)
  PROVE  /\ b \in Seq(Statement) /\ Len(b) \in Nat /\ b[n] \in Statement /\ n \in Nat
         /\ b[n].kind \in Kinds /\ b[n].gives \in BOOLEAN
         /\ b[n].blocks \in Seq(Seq(Nat)) /\ Len(b[n].blocks) = BlocksOf(b[n])
         /\ b[n].sizes \in Seq(Nat \ {0}) /\ Len(b[n].sizes) \in Nat
<1>1. b \in Seq(Statement) /\ WellFormed(b)
  BY ConstantsAssumption
<1>2. b[n] \in Statement
  BY <1>1, ElementOfSeq
<1>3. Len(b) \in Nat /\ n \in Nat
  BY <1>1, LenProperties
<1>4. b[n].sizes \in Seq(Nat \ {0}) /\ b[n].blocks \in Seq(Seq(Nat))
  BY <1>2 DEF Statement
<1>5. Len(b[n].sizes) \in Nat
  BY <1>4, LenProperties
<1>6. QED
  BY <1>1, <1>2, <1>3, <1>4, <1>5 DEF Statement, WellFormed

LEMMA RootIs ==
  ASSUME NEW b \in Bodies
  PROVE  Len(b) \in Nat /\ Len(b) \in 1 .. Len(b) /\ b[Len(b)].kind = "block"
<1>1. b \in Seq(Statement) /\ WellFormed(b)
  BY ConstantsAssumption
<1>2. Len(b) \in Nat \ {0}
  BY <1>1, EmptySeq DEF WellFormed
<1>3. QED
  BY <1>1, <1>2 DEF WellFormed

LEMMA BranchIs ==
  ASSUME NEW b \in Bodies, NEW n \in 1 .. Len(b), b[n].kind = "branch"
  PROVE  /\ Len(b[n].blocks) = Len(b[n].sizes) + 1 /\ Len(b[n].sizes) \in Nat /\ Len(b[n].sizes) >= 1
         /\ \A i \in 1 .. Len(b[n].sizes) : b[n].sizes[i] \in Nat /\ b[n].sizes[i] >= 1
<1>1. b[n].sizes \in Seq(Nat \ {0}) /\ Len(b[n].sizes) \in Nat /\ Len(b[n].blocks) = BlocksOf(b[n])
  BY BodyIs
<1>2. b[n].sizes # <<>>
  BY ConstantsAssumption DEF WellFormed
<1>3. Len(b[n].sizes) \in Nat \ {0}
  BY <1>1, <1>2, EmptySeq
<1>4. \A i \in 1 .. Len(b[n].sizes) : b[n].sizes[i] \in Nat \ {0}
  BY <1>1, ElementOfSeq
<1>5. QED
  BY <1>1, <1>3, <1>4 DEF BlocksOf, Loops

Child(b, n, m) == \E i \in 1 .. Len(b[n].blocks) : \E p \in 1 .. Len(b[n].blocks[i]) : m = b[n].blocks[i][p]

LEMMA ChildIsBefore ==
  ASSUME NEW b \in Bodies, NEW n \in 1 .. Len(b), NEW m, Child(b, n, m)
  PROVE  m \in 1 .. Len(b) /\ m < n
<1>1. PICK i \in 1 .. Len(b[n].blocks) : \E p \in 1 .. Len(b[n].blocks[i]) : m = b[n].blocks[i][p]
  BY DEF Child
<1>2. m \in 1 .. n - 1
  BY <1>1, ConstantsAssumption DEF WellFormed
<1>3. Len(b) \in Nat
  BY BodyIs
<1>4. QED
  BY <1>2, <1>3

LEMMA BlockIs ==
  ASSUME NEW b \in Bodies, NEW n \in 1 .. Len(b), NEW i \in 1 .. Len(b[n].blocks)
  PROVE  /\ Block(b, n, i) \in Stack /\ Len(Block(b, n, i)) = Len(b[n].blocks[i])
         /\ Len(b[n].blocks[i]) \in Nat
         /\ \A p \in 1 .. Len(Block(b, n, i)) :
              \E m \in 1 .. Len(b) : m = b[n].blocks[i][p] /\ m < n /\ Child(b, n, m) /\ Block(b, n, i)[p] = Part("statement", m)
<1>1. b[n].blocks[i] \in Seq(Nat)
  BY BodyIs, ElementOfSeq
<1>2. Len(b[n].blocks[i]) \in Nat
  BY <1>1, LenProperties
<1>3. \A p \in 1 .. Len(b[n].blocks[i]) : b[n].blocks[i][p] \in Nat
  BY <1>1, ElementOfSeq
<1>4. \A p \in 1 .. Len(b[n].blocks[i]) : Part("statement", b[n].blocks[i][p]) \in Frames
  BY <1>3, PartIsFrame DEF Parts
<1>5. Block(b, n, i) \in [1 .. Len(b[n].blocks[i]) -> Frames]
  BY <1>4 DEF Block
<1>6. Block(b, n, i) \in Stack /\ Len(Block(b, n, i)) = Len(b[n].blocks[i])
  BY <1>2, <1>5, SeqDef, LenProperties DEF Stack
<1>7. ASSUME NEW p \in 1 .. Len(b[n].blocks[i])
      PROVE  LET m == b[n].blocks[i][p]
             IN m \in 1 .. Len(b) /\ m < n /\ Child(b, n, m) /\ Block(b, n, i)[p] = Part("statement", m)
  <2>1. Child(b, n, b[n].blocks[i][p])
    BY DEF Child
  <2>2. QED
    BY <2>1, ChildIsBefore DEF Block
<1>8. QED
  BY <1>2, <1>6, <1>7

LEMMA BlockNumbers ==
  ASSUME NEW b \in Bodies, NEW n \in 1 .. Len(b)
  PROVE  /\ b[n].kind \in Loops \cup {"block", "if", "branch"} => 1 \in 1 .. Len(b[n].blocks)
         /\ b[n].kind = "if" => 2 \in 1 .. Len(b[n].blocks)
         /\ b[n].kind = "branch" => \A i \in 1 .. Len(b[n].sizes) + 1 : i \in 1 .. Len(b[n].blocks)
<1>1. Len(b[n].blocks) = BlocksOf(b[n])
  BY BodyIs
<1>2. QED
  BY <1>1, BranchIs DEF BlocksOf, Loops

-------------------------------------------------------------------------------
(* Stacks *)

LEMMA Pushed ==
  ASSUME NEW pre \in Stack, NEW k \in Stack
  PROVE  /\ pre \o k \in Stack /\ Len(pre) \in Nat /\ Len(k) \in Nat
         /\ Len(pre \o k) = Len(pre) + Len(k)
         /\ \A p \in 1 .. Len(pre) : (pre \o k)[p] = pre[p]
         /\ \A p \in 1 .. Len(k) : (pre \o k)[Len(pre) + p] = k[p]
         /\ \A p \in 1 .. Len(pre \o k) : p \in 1 .. Len(pre) \/ (p - Len(pre) \in 1 .. Len(k) /\ (pre \o k)[p] = k[p - Len(pre)])
<1>1. Len(pre) \in Nat /\ Len(k) \in Nat
  BY LenProperties DEF Stack
<1>2. /\ pre \o k \in Stack /\ Len(pre \o k) = Len(pre) + Len(k)
      /\ \A i \in 1 .. Len(pre) + Len(k) : (pre \o k)[i] = IF i <= Len(pre) THEN pre[i] ELSE k[i - Len(pre)]
  BY ConcatProperties DEF Stack
<1>3. \A p \in 1 .. Len(pre) : (pre \o k)[p] = pre[p]
  BY <1>1, <1>2
<1>4. \A p \in 1 .. Len(k) : (pre \o k)[Len(pre) + p] = k[p]
  BY <1>1, <1>2
<1>5. QED
  BY <1>1, <1>2, <1>3, <1>4

LEMMA OneIs ==
  ASSUME NEW x \in Frames
  PROVE  <<x>> \in Stack /\ Len(<<x>>) = 1 /\ <<x>>[1] = x
BY DEF Stack

LEMMA TwoIs ==
  ASSUME NEW x \in Frames, NEW y \in Frames
  PROVE  <<x, y>> \in Stack /\ Len(<<x, y>>) = 2 /\ <<x, y>>[1] = x /\ <<x, y>>[2] = y /\ <<x, y>> = <<x>> \o <<y>>
<1>1. <<x, y>> \in Stack /\ Len(<<x, y>>) = 2 /\ <<x, y>>[1] = x /\ <<x, y>>[2] = y
  BY DEF Stack
<1>2. <<x>> \o <<y>> \in Stack /\ Len(<<x>> \o <<y>>) = 2
      /\ (<<x>> \o <<y>>)[1] = x /\ (<<x>> \o <<y>>)[2] = y
  BY OneIs, Pushed
<1>3. \A p \in 1 .. 2 : <<x, y>>[p] = (<<x>> \o <<y>>)[p]
  BY <1>1, <1>2
<1>4. <<x, y>> = <<x>> \o <<y>>
  BY <1>1, <1>2, <1>3, SeqEqual DEF Stack
<1>5. QED
  BY <1>1, <1>4

LEMMA FirstIs ==
  ASSUME NEW x \in Frames, NEW k \in Stack
  PROVE  /\ <<x>> \o k \in Stack /\ <<x>> \o k # <<>>
         /\ Head(<<x>> \o k) = x /\ Tail(<<x>> \o k) = k
<1>1. <<x>> \in Stack /\ Len(<<x>>) = 1 /\ <<x>>[1] = x
  BY OneIs
<1>2. /\ <<x>> \o k \in Stack /\ Len(<<x>> \o k) = 1 + Len(k) /\ Len(k) \in Nat /\ (<<x>> \o k)[1] = x
      /\ \A p \in 1 .. Len(k) : (<<x>> \o k)[1 + p] = k[p]
  BY <1>1, Pushed
<1>3. <<x>> \o k # <<>>
  BY <1>2, EmptySeq
<1>4. Tail(<<x>> \o k) \in Stack /\ Len(Tail(<<x>> \o k)) = Len(k)
      /\ \A p \in 1 .. Len(k) : Tail(<<x>> \o k)[p] = k[p]
  BY <1>2, <1>3, HeadTailProperties DEF Stack
<1>5. Tail(<<x>> \o k) = k
  BY <1>4, SeqEqual DEF Stack
<1>6. QED
  BY <1>2, <1>3, <1>5

LEMMA StackIs ==
  ASSUME NEW s \in Stack, s # <<>>
  PROVE  /\ Head(s) \in Frames /\ Tail(s) \in Stack /\ Len(s) \in Nat /\ Len(s) >= 1 /\ Head(s) = s[1]
         /\ Len(Tail(s)) = Len(s) - 1 /\ \A p \in 1 .. Len(s) - 1 : Tail(s)[p] = s[p + 1]
<1>1. Len(s) \in Nat \ {0}
  BY EmptySeq DEF Stack
<1>2. QED
  BY <1>1, HeadTailProperties DEF Stack

LEMMA OnIs ==
  ASSUME NEW x \in Frames, NEW k \in Stack
  PROVE  Len(<<x>> \o k) = Len(k) + 1 /\ (<<x>> \o k)[1] = x /\ \A p \in 1 .. Len(k) : (<<x>> \o k)[p + 1] = k[p]
<1>1. <<x>> \in Stack /\ Len(<<x>>) = 1 /\ <<x>>[1] = x
  BY OneIs
<1>2. Len(k) \in Nat /\ \A p \in 1 .. Len(k) : 1 + p = p + 1
  BY Pushed
<1>3. QED
  BY <1>1, <1>2, Pushed

LEMMA SplitIs ==
  ASSUME NEW k \in Stack, k # <<>>
  PROVE  k = <<Head(k)>> \o Tail(k)
<1>1. Head(k) \in Frames /\ Tail(k) \in Stack /\ Len(k) \in Nat /\ Len(k) >= 1 /\ Head(k) = k[1]
      /\ Len(Tail(k)) = Len(k) - 1 /\ \A p \in 1 .. Len(k) - 1 : Tail(k)[p] = k[p + 1]
  BY StackIs
<1>2. LET u == <<Head(k)>> \o Tail(k)
      IN u \in Stack /\ Len(u) = Len(Tail(k)) + 1 /\ u[1] = k[1] /\ \A p \in 1 .. Len(Tail(k)) : u[p + 1] = Tail(k)[p]
  BY <1>1, OnIs, FirstIs
<1>3. \A p \in 1 .. Len(k) : p = 1 \/ (p - 1 \in 1 .. Len(k) - 1 /\ p = (p - 1) + 1)
  BY <1>1
<1>4. \A p \in 1 .. Len(k) : k[p] = (<<Head(k)>> \o Tail(k))[p]
  BY <1>1, <1>2, <1>3
<1>5. QED
  BY <1>1, <1>2, <1>4, SeqEqual DEF Stack

LEMMA KindIs ==
  ASSUME NEW b, NEW n
  PROVE  /\ Kind(b, Part("statement", n)) = b[n].kind
         /\ \A p : p # "statement" => Kind(b, Part(p, n)) = p
BY PartFields DEF Kind

-------------------------------------------------------------------------------
(* The hidden variables *)

Holds(h, name, n, x) == <<name, n>> \in DOMAIN h /\ h[<<name, n>>] = x

LEMMA SetHolds ==
  ASSUME NEW h, NEW name, NEW n, NEW x
  PROVE  /\ Holds(Set(h, name, n, x), name, n, x)
         /\ \A other, m, y : <<other, m>> # <<name, n>> /\ Holds(h, other, m, y) => Holds(Set(h, name, n, x), other, m, y)
         /\ DOMAIN Set(h, name, n, x) = DOMAIN h \cup {<<name, n>>}
         /\ \A v \in DOMAIN h : v # <<name, n>> => Set(h, name, n, x)[v] = h[v]
         /\ Set(h, name, n, x)[<<name, n>>] = x
BY DEF Holds, Set

-------------------------------------------------------------------------------
(* Frames of the two machines that correspond, and stacks of such frames *)

SameFrame(b, f) ==
  \E n \in 1 .. Len(b) :
    \/ f = Part("statement", n)
    \/ b[n].kind = "for" /\ f \in {Part("init", n), Part("step", n)}
    \/ b[n].kind \in {"while", "for"} /\ f \in {Part("test", n), Part("turn", n)}

(* In its turn a for-in is at element i - 1, the index of the element it has taken. *)
TurnFrame(b, f, g, h) ==
  \E n \in 1 .. Len(b), len \in 0 .. MaxLen : \E i \in 1 .. len :
    /\ b[n].kind = "for-in" /\ f = Part("turn", n) /\ g = Turns(n, i, len)
    /\ Holds(h, "idx", n, i - 1) /\ Holds(h, "src", n, len)

DeepFrame(b, f, g, h) == (SameFrame(b, f) /\ f = g) \/ TurnFrame(b, f, g, h)

Return0 == Part("return_0", 0)

(* main's C has a return 0; below all else, and then e is 1. *)
Deep(b, k, l, h, e) ==
  /\ k \in Stack /\ l \in Stack /\ e \in {0, 1} /\ Len(k) = Len(l) + e
  /\ e = 1 => k[Len(k)] = Return0
  /\ \A p \in 1 .. Len(l) : DeepFrame(b, k[p], l[p], h)

LEMMA Return0Is == Return0 \in Frames /\ Return0.part = "return_0" /\ Return0.of = 0 /\ Return0.at = <<>>
<1>1. <<>> \in Seq(Int)
  OBVIOUS
<1>2. QED
  BY <1>1 DEF Return0, Part, Frame, Frames, Parts

LEMMA SameFrameIs ==
  ASSUME NEW b \in Bodies, NEW f, SameFrame(b, f)
  PROVE  /\ f \in Frames /\ f.at = <<>> /\ f.of \in 1 .. Len(b)
         /\ f.part \in {"statement", "init", "step", "test", "turn"}
         /\ f = Part(f.part, f.of)
         /\ f.part \in {"init", "step"} => b[f.of].kind = "for"
         /\ f.part \in {"test", "turn"} => b[f.of].kind \in {"while", "for"}
         /\ Kind(b, f) = IF f.part = "statement" THEN b[f.of].kind ELSE f.part
<1>1. PICK n \in 1 .. Len(b) :
        \/ f = Part("statement", n)
        \/ b[n].kind = "for" /\ f \in {Part("init", n), Part("step", n)}
        \/ b[n].kind \in {"while", "for"} /\ f \in {Part("test", n), Part("turn", n)}
  BY DEF SameFrame
<1>2. n \in Nat
  BY BodyIs
<1>3. \A p \in Parts : Part(p, n) \in Frames /\ Part(p, n).part = p /\ Part(p, n).of = n /\ Part(p, n).at = <<>>
  BY <1>2, PartFields, PartIsFrame
<1>4. QED
  BY <1>1, <1>3 DEF Parts, Kind

LEMMA TurnFrameIs ==
  ASSUME NEW b \in Bodies, NEW f, NEW g, NEW h, TurnFrame(b, f, g, h)
  PROVE  /\ f \in Frames /\ g \in Frames /\ f.of \in 1 .. Len(b) /\ g.of = f.of
         /\ f.part = "turn" /\ g.part = "turn" /\ b[f.of].kind = "for-in" /\ f = Part("turn", f.of)
<1>1. PICK n \in 1 .. Len(b), len \in 0 .. MaxLen : \E i \in 1 .. len :
        b[n].kind = "for-in" /\ f = Part("turn", n) /\ g = Turns(n, i, len)
  BY DEF TurnFrame
<1>2. PICK i \in 1 .. len : b[n].kind = "for-in" /\ f = Part("turn", n) /\ g = Turns(n, i, len)
  BY <1>1
<1>3. n \in Nat /\ i \in Int /\ len \in Int
  BY BodyIs, ConstantsAssumption
<1>4. f \in Frames /\ f.part = "turn" /\ f.of = n
  BY <1>2, <1>3, PartFields, PartIsFrame DEF Parts
<1>5. g.part = "turn" /\ g.of = n
  BY <1>2, TurnsFields
<1>6. g \in Frames
  BY <1>2, <1>3, PairIsFrame
<1>7. QED
  BY <1>2, <1>4, <1>5, <1>6

LEMMA DeepIs ==
  ASSUME NEW b, NEW k, NEW l, NEW h, NEW e, Deep(b, k, l, h, e)
  PROVE  /\ k \in Stack /\ l \in Stack /\ Len(k) \in Nat /\ Len(l) \in Nat
         /\ e \in {0, 1} /\ e \in Nat /\ Len(k) = Len(l) + e /\ 1 .. Len(l) \subseteq 1 .. Len(k)
         /\ e = 1 => Len(k) \in 1 .. Len(k) /\ k[Len(k)] = Return0
         /\ \A p \in 1 .. Len(l) : DeepFrame(b, k[p], l[p], h)
<1>1. /\ k \in Stack /\ l \in Stack /\ e \in {0, 1} /\ Len(k) = Len(l) + e
      /\ e = 1 => k[Len(k)] = Return0
      /\ \A p \in 1 .. Len(l) : DeepFrame(b, k[p], l[p], h)
  BY DEF Deep
<1>2. Len(k) \in Nat /\ Len(l) \in Nat
  BY <1>1, LenProperties DEF Stack
<1>3. e \in Nat /\ 1 .. Len(l) \subseteq 1 .. Len(k) /\ (e = 1 => Len(k) \in 1 .. Len(k))
  BY <1>1, <1>2
<1>4. QED
  BY <1>1, <1>2, <1>3

LEMMA DeepOn ==
  ASSUME NEW b \in Bodies, NEW k, NEW l, NEW h, NEW e, Deep(b, k, l, h, e),
         NEW pre \in Stack, NEW cor \in Stack, Len(pre) = Len(cor),
         \A p \in 1 .. Len(pre) : DeepFrame(b, pre[p], cor[p], h)
  PROVE  Deep(b, pre \o k, cor \o l, h, e)
<1>1. /\ k \in Stack /\ l \in Stack /\ e \in {0, 1} /\ e \in Nat /\ Len(k) = Len(l) + e
      /\ 1 .. Len(l) \subseteq 1 .. Len(k)
      /\ e = 1 => Len(k) \in 1 .. Len(k) /\ k[Len(k)] = Return0
      /\ \A p \in 1 .. Len(l) : DeepFrame(b, k[p], l[p], h)
  BY DeepIs
<1>2. /\ pre \o k \in Stack /\ Len(pre) \in Nat /\ Len(k) \in Nat /\ Len(pre \o k) = Len(pre) + Len(k)
      /\ \A p \in 1 .. Len(pre) : (pre \o k)[p] = pre[p]
      /\ \A p \in 1 .. Len(k) : (pre \o k)[Len(pre) + p] = k[p]
  BY <1>1, Pushed
<1>3. /\ cor \o l \in Stack /\ Len(l) \in Nat /\ Len(cor \o l) = Len(cor) + Len(l)
      /\ \A p \in 1 .. Len(cor) : (cor \o l)[p] = cor[p]
      /\ \A p \in 1 .. Len(l) : (cor \o l)[Len(cor) + p] = l[p]
  BY <1>1, Pushed
<1>4. ASSUME NEW p \in 1 .. Len(cor \o l)
      PROVE  DeepFrame(b, (pre \o k)[p], (cor \o l)[p], h)
  <2>1. CASE p \in 1 .. Len(pre)
    BY <2>1, <1>2, <1>3
  <2>2. CASE p \notin 1 .. Len(pre)
    <3>1. PICK q \in 1 .. Len(l) : p = Len(pre) + q
      <4>1. p - Len(pre) \in 1 .. Len(l) /\ p = Len(pre) + (p - Len(pre))
        BY <2>2, <1>2, <1>3
      <4>2. QED
        BY <4>1
    <3>2. q \in 1 .. Len(k)
      BY <1>1
    <3>3. (pre \o k)[p] = k[q] /\ (cor \o l)[p] = l[q]
      BY <3>1, <3>2, <1>2, <1>3
    <3>4. QED
      BY <3>3, <1>1
  <2>3. QED
    BY <2>1, <2>2
<1>5. e = 1 => (pre \o k)[Len(pre \o k)] = Return0
  BY <1>1, <1>2
<1>6. Len(pre \o k) = Len(cor \o l) + e
  BY <1>1, <1>2, <1>3
<1>7. QED
  BY <1>1, <1>2, <1>3, <1>4, <1>5, <1>6 DEF Deep

LEMMA DeepPush ==
  ASSUME NEW b \in Bodies, NEW k, NEW l, NEW h, NEW e, Deep(b, k, l, h, e),
         NEW pre \in Stack, \A p \in 1 .. Len(pre) : SameFrame(b, pre[p])
  PROVE  Deep(b, pre \o k, pre \o l, h, e)
BY DeepOn DEF DeepFrame

LEMMA DeepPushOne ==
  ASSUME NEW b \in Bodies, NEW k, NEW l, NEW h, NEW e, Deep(b, k, l, h, e),
         NEW f, SameFrame(b, f)
  PROVE  Deep(b, <<f>> \o k, <<f>> \o l, h, e)
<1>1. f \in Frames
  BY SameFrameIs
<1>2. <<f>> \in Stack /\ \A p \in 1 .. Len(<<f>>) : SameFrame(b, <<f>>[p])
  BY <1>1, OneIs
<1>3. QED
  BY <1>2, DeepPush

LEMMA DeepBlock ==
  ASSUME NEW b \in Bodies, NEW k, NEW l, NEW h, NEW e, Deep(b, k, l, h, e),
         NEW n \in 1 .. Len(b), NEW i \in 1 .. Len(b[n].blocks)
  PROVE  Deep(b, Block(b, n, i) \o k, Block(b, n, i) \o l, h, e)
<1>1. Block(b, n, i) \in Stack /\ \A p \in 1 .. Len(Block(b, n, i)) : SameFrame(b, Block(b, n, i)[p])
  BY BlockIs DEF SameFrame
<1>2. QED
  BY <1>1, DeepPush

LEMMA DeepDrop ==
  ASSUME NEW b \in Bodies, NEW k, NEW l, NEW h, NEW e, Deep(b, k, l, h, e),
         NEW i \in 1 .. Len(l) + 1
  PROVE  Deep(b, SubSeq(k, i, Len(k)), SubSeq(l, i, Len(l)), h, e)
<1> DEFINE u == SubSeq(k, i, Len(k))
           v == SubSeq(l, i, Len(l))
<1>1. /\ k \in Stack /\ l \in Stack /\ e \in {0, 1}
      /\ e = 1 => k[Len(k)] = Return0
      /\ \A p \in 1 .. Len(l) : DeepFrame(b, k[p], l[p], h)
  BY DeepIs
<1>2. Len(k) \in Nat /\ Len(l) \in Nat /\ e \in Nat /\ Len(k) = Len(l) + e /\ i \in Int /\ i >= 1 /\ i <= Len(l) + 1
  BY DeepIs
<1>3. /\ \A p \in i .. Len(k) : p \in 1 .. Len(k)
      /\ \A p \in i .. Len(l) : p \in 1 .. Len(l)
  BY <1>2
<1>4. /\ \A p \in i .. Len(k) : k[p] \in Frames
      /\ \A p \in i .. Len(l) : l[p] \in Frames
  BY <1>1, <1>3, ElementOfSeq DEF Stack
<1>5. /\ u \in Stack /\ Len(u) = IF i <= Len(k) THEN Len(k) - i + 1 ELSE 0
      /\ \A p \in 1 .. Len(k) - i + 1 : u[p] = k[i + p - 1]
  BY <1>2, <1>4, SubSeqProperties DEF Stack
<1>6. /\ v \in Stack /\ Len(v) = IF i <= Len(l) THEN Len(l) - i + 1 ELSE 0
      /\ \A p \in 1 .. Len(l) - i + 1 : v[p] = l[i + p - 1]
  BY <1>2, <1>4, SubSeqProperties DEF Stack
<1> HIDE DEF u, v
<1>7. Len(u) = Len(k) - i + 1 /\ Len(v) = Len(l) - i + 1
  BY <1>2, <1>5, <1>6
<1>8. Len(u) = Len(v) + e
  BY <1>2, <1>7
<1>9. e = 1 => u[Len(u)] = Return0
  <2>1. e = 1 => Len(u) \in 1 .. Len(k) - i + 1 /\ i + Len(u) - 1 = Len(k)
    BY <1>2, <1>7
  <2>2. e = 1 => u[Len(u)] = k[Len(k)]
    BY <2>1, <1>5
  <2>3. QED
    BY <2>2, <1>1
<1>10. ASSUME NEW p \in 1 .. Len(v)
       PROVE  DeepFrame(b, u[p], v[p], h)
  <2>1. i + p - 1 \in 1 .. Len(l) /\ p \in 1 .. Len(l) - i + 1 /\ p \in 1 .. Len(k) - i + 1
    BY <1>2, <1>7
  <2>2. u[p] = k[i + p - 1] /\ v[p] = l[i + p - 1]
    BY <2>1, <1>5, <1>6
  <2>3. QED
    BY <2>1, <2>2, <1>1
<1>11. QED
  BY <1>1, <1>5, <1>6, <1>8, <1>9, <1>10 DEF Deep, u, v

LEMMA DeepFirst ==
  ASSUME NEW b \in Bodies, NEW k, NEW l, NEW h, NEW e, Deep(b, k, l, h, e), l # <<>>
  PROVE  /\ k # <<>> /\ Head(k) \in Frames /\ Head(l) \in Frames
         /\ DeepFrame(b, Head(k), Head(l), h)
         /\ Deep(b, Tail(k), Tail(l), h, e)
<1>1. /\ k \in Stack /\ l \in Stack /\ Len(k) \in Nat /\ Len(l) \in Nat
      /\ 1 .. Len(l) \subseteq 1 .. Len(k)
      /\ \A p \in 1 .. Len(l) : DeepFrame(b, k[p], l[p], h)
  BY DeepIs
<1>2. Head(l) \in Frames /\ Len(l) >= 1 /\ Head(l) = l[1]
  BY <1>1, StackIs
<1>3. 1 \in 1 .. Len(l) /\ 1 \in 1 .. Len(k) /\ 2 \in 1 .. Len(l) + 1
  BY <1>1, <1>2
<1>4. k # <<>>
  BY <1>1, <1>3, EmptySeq
<1>5. Head(k) \in Frames /\ Head(k) = k[1]
  BY <1>1, <1>4, StackIs
<1>6. Tail(k) = SubSeq(k, 2, Len(k)) /\ Tail(l) = SubSeq(l, 2, Len(l))
  BY <1>1, <1>4, TailIsSubSeq DEF Stack
<1>7. Deep(b, Tail(k), Tail(l), h, e)
  BY <1>3, <1>6, DeepDrop
<1>8. QED
  BY <1>1, <1>2, <1>3, <1>4, <1>5, <1>7

LEMMA DeepEmpty ==
  ASSUME NEW b, NEW k, NEW h, NEW e, Deep(b, k, <<>>, h, e)
  PROVE  IF e = 1 THEN k = <<Return0>> ELSE k = <<>>
<1>1. k \in Stack /\ e \in {0, 1} /\ Len(k) = Len(<<>>) + e
      /\ (e = 1 => k[Len(k)] = Return0)
  BY DeepIs
<1>2. Len(k) = e
  BY <1>1
<1>3. CASE e = 1
  <2>1. Len(k) = 1 /\ k[1] = Return0
    BY <1>1, <1>2, <1>3
  <2>2. Return0 \in Frames
    BY Return0Is
  <2>3. <<Return0>> \in Stack /\ Len(<<Return0>>) = 1
        /\ <<Return0>>[1] = Return0
    BY <2>2, OneIs
  <2>4. \A p \in 1 .. 1 : k[p] = <<Return0>>[p]
    BY <2>1, <2>3
  <2>5. k = <<Return0>>
    BY <1>1, <2>1, <2>3, <2>4, SeqEqual DEF Stack
  <2>6. QED
    BY <1>3, <2>5
<1>4. CASE e = 0
  <2>1. k = <<>>
    BY <1>1, <1>2, <1>4, EmptySeq DEF Stack
  <2>2. QED
    BY <1>4, <2>1
<1>5. QED
  BY <1>1, <1>3, <1>4

(* A for-in's variables are set while no turn of it is in what follows. *)
LEMMA DeepSet ==
  ASSUME NEW b \in Bodies, NEW k, NEW l, NEW h, NEW e, Deep(b, k, l, h, e),
         NEW name, NEW n, NEW x,
         \A p \in 1 .. Len(k) : k[p].part = "turn" => k[p].of # n
  PROVE  Deep(b, k, l, Set(h, name, n, x), e)
<1>1. /\ k \in Stack /\ l \in Stack /\ 1 .. Len(l) \subseteq 1 .. Len(k)
      /\ e \in {0, 1} /\ Len(k) = Len(l) + e
      /\ e = 1 => k[Len(k)] = Return0
      /\ \A p \in 1 .. Len(l) : DeepFrame(b, k[p], l[p], h)
  BY DeepIs
<1>2. ASSUME NEW p \in 1 .. Len(l), TurnFrame(b, k[p], l[p], h)
      PROVE  TurnFrame(b, k[p], l[p], Set(h, name, n, x))
  <2>1. PICK m \in 1 .. Len(b), len \in 0 .. MaxLen : \E i \in 1 .. len :
          /\ b[m].kind = "for-in" /\ k[p] = Part("turn", m) /\ l[p] = Turns(m, i, len)
          /\ Holds(h, "idx", m, i - 1) /\ Holds(h, "src", m, len)
    BY <1>2 DEF TurnFrame
  <2>2. PICK i \in 1 .. len :
          /\ b[m].kind = "for-in" /\ k[p] = Part("turn", m) /\ l[p] = Turns(m, i, len)
          /\ Holds(h, "idx", m, i - 1) /\ Holds(h, "src", m, len)
    BY <2>1
  <2>3. k[p].part = "turn" /\ k[p].of = m
    BY <2>2, PartFields
  <2>4. m # n
    BY <2>3, <1>1
  <2>5. <<"idx", m>> # <<name, n>> /\ <<"src", m>> # <<name, n>>
    BY <2>4
  <2>6. Holds(Set(h, name, n, x), "idx", m, i - 1) /\ Holds(Set(h, name, n, x), "src", m, len)
    BY <2>2, <2>5, SetHolds
  <2>7. QED
    BY <2>2, <2>6 DEF TurnFrame
<1>3. \A p \in 1 .. Len(l) : DeepFrame(b, k[p], l[p], Set(h, name, n, x))
  BY <1>1, <1>2 DEF DeepFrame
<1>4. QED
  BY <1>1, <1>3 DEF Deep

LEMMA LeastIs ==
  ASSUME NEW I, I \subseteq Nat, I # {}
  PROVE  Min(I) \in I /\ \A y \in I : Min(I) <= y
<1>1. \E x \in I : \A y \in I : ~(<<y, x>> \in OpToRel(<, Nat))
  BY WFMin, NatLessThanWellFounded
<1>2. \A x, y \in Nat : ~(<<y, x>> \in OpToRel(<, Nat)) => x =< y
  BY DEF OpToRel
<1>3. \E x \in I : \A y \in I : x =< y
  BY <1>1, <1>2
<1>4. QED
  BY <1>3 DEF Min

TurnsIn(k) == {i \in 1 .. Len(k) : k[i].part = "turn"}

LEMMA InnermostIs ==
  ASSUME NEW k \in Stack
  PROVE  /\ Innermost(k) = IF TurnsIn(k) # {} THEN Min(TurnsIn(k)) ELSE 0
         /\ Innermost(k) > 0 <=> TurnsIn(k) # {}
         /\ Innermost(k) > 0 => Innermost(k) \in 1 .. Len(k) /\ k[Innermost(k)].part = "turn"
         /\ Innermost(k) \in 0 .. Len(k)
<1>1. Innermost(k) = IF TurnsIn(k) # {} THEN Min(TurnsIn(k)) ELSE 0
  BY DEF Innermost, SelectInSeq, TurnsIn
<1>2. Len(k) \in Nat
  BY LenProperties DEF Stack
<1>3. TurnsIn(k) \subseteq Nat
  BY <1>2 DEF TurnsIn
<1>4. TurnsIn(k) # {} => Min(TurnsIn(k)) \in TurnsIn(k)
  BY <1>3, LeastIs
<1>5. TurnsIn(k) # {} => Min(TurnsIn(k)) \in 1 .. Len(k) /\ k[Min(TurnsIn(k))].part = "turn"
  BY <1>4 DEF TurnsIn
<1>6. QED
  BY <1>1, <1>2, <1>5

LEMMA InnermostDeep ==
  ASSUME NEW b \in Bodies, NEW k, NEW l, NEW h, NEW e, Deep(b, k, l, h, e)
  PROVE  Innermost(k) = Innermost(l) /\ Innermost(k) \in 0 .. Len(l)
<1>1. /\ k \in Stack /\ l \in Stack /\ Len(k) \in Nat /\ Len(l) \in Nat
      /\ e \in {0, 1} /\ Len(k) = Len(l) + e /\ 1 .. Len(l) \subseteq 1 .. Len(k)
      /\ e = 1 => k[Len(k)] = Return0
      /\ \A p \in 1 .. Len(l) : DeepFrame(b, k[p], l[p], h)
  BY DeepIs
<1>2. \A p \in 1 .. Len(l) : k[p].part = l[p].part
  BY <1>1, TurnFrameIs DEF DeepFrame
<1>3. Return0.part # "turn"
  BY Return0Is
<1>4. \A p \in 1 .. Len(k) : p \in 1 .. Len(l) \/ (e = 1 /\ p = Len(k))
  BY <1>1
<1>5. \A p \in 1 .. Len(k) : k[p].part = "turn" => p \in 1 .. Len(l)
  BY <1>1, <1>3, <1>4
<1>6. TurnsIn(k) = TurnsIn(l)
  BY <1>1, <1>2, <1>5 DEF TurnsIn
<1>7. QED
  BY <1>1, <1>6, InnermostIs

-------------------------------------------------------------------------------
(* The moves that the two machines share *)

LEMMA CMovesAre ==
  ASSUME NEW b, NEW s \in Frames, NEW k \in Stack, NEW h, NEW r
  PROVE  CMoves(b, <<s>> \o k, h, r) = HiddenMoves(b, s, k, h, r)
BY FirstIs DEF CMoves

LEMMA SharedIs ==
  ASSUME NEW b \in Bodies, NEW s, SameFrame(b, s), Kind(b, s) \notin {"for-in", "branch"},
         NEW k \in Stack, NEW l \in Stack, NEW h, NEW r
  PROVE  /\ CMoves(b, <<s>> \o k, h, r) = CoreMoves(b, s, k, h, r)
         /\ SourceMoves(b, <<s>> \o l, r) = CoreMoves(b, s, l, <<>>, r)
<1>1. /\ s \in Frames /\ s.at = <<>> /\ s.of \in 1 .. Len(b)
      /\ Kind(b, s) = IF s.part = "statement" THEN b[s.of].kind ELSE s.part
      /\ s.part \in {"statement", "init", "step", "test", "turn"}
  BY SameFrameIs
<1>2. b[s.of].kind \in Kinds
  BY <1>1, BodyIs
<1>3. Kind(b, s) \in Kinds \cup {"init", "step", "test", "turn"}
  BY <1>1, <1>2
<1>4. HiddenMoves(b, s, k, h, r) = CoreMoves(b, s, k, h, r)
  BY <1>3 DEF HiddenMoves, Kinds
<1>5. SourceMoves(b, <<s>> \o l, r) = CoreMoves(b, s, l, <<>>, r)
  BY <1>1, <1>3, FirstIs DEF SourceMoves, Kinds
<1>6. QED
  BY <1>1, <1>4, <1>5, CMovesAre

LEMMA TestsAre ==
  ASSUME NEW b, NEW n, NEW h, NEW t \in Tests(b, n, h)
  PROVE  /\ t.way \in {1, 2}
         /\ b[n].kind # "for-in" => t.event = <<"test", n, t.way>> /\ Tests(b, n, h) = Tests(b, n, <<>>)
         /\ b[n].kind = "for-in" => t.event = Silent /\ t.way = IF InList(n, h) THEN 1 ELSE 2
BY DEF Tests

(* A move on corresponding stacks *)
Same(b, m, mv, h, e) ==
  /\ mv.event = m.event
  /\ (m.rest = Ended /\ mv.rest = Ended) \/ Deep(b, m.rest, mv.rest, h, e)

LEMMA MoveIs ==
  ASSUME NEW event, NEW rest, NEW store
  PROVE  /\ Move(event, rest, store).event = event
         /\ Move(event, rest, store).rest = rest
         /\ Move(event, rest, store).store = store
BY DEF Move

(* The moves of a frame, by its kind *)
LEMMA CoreMoveIs ==
  ASSUME NEW b, NEW s, NEW k, NEW h, NEW r, NEW m \in CoreMoves(b, s, k, h, r)
  PROVE  Kind(b, s) \in {"do", "init", "step", "block", "if", "while", "for", "test", "turn", "break", "continue", "return"}
BY DEF CoreMoves

LEMMA LoopIs ==
  ASSUME NEW b, NEW n
  PROVE  /\ b[n].kind = "for-in" =>
              /\ LoopOf(b, n).init = <<Part("let_idx", n)>> /\ LoopOf(b, n).step = <<Part("next_idx", n)>>
              /\ LoopOf(b, n).body = <<Part("let_element", n)>> \o Block(b, n, 1)
         /\ b[n].kind = "for" =>
              /\ LoopOf(b, n).init = <<Part("init", n)>> /\ LoopOf(b, n).step = <<Part("step", n)>>
              /\ LoopOf(b, n).body = Block(b, n, 1)
         /\ b[n].kind \notin {"for", "for-in"} =>
              LoopOf(b, n).init = <<>> /\ LoopOf(b, n).step = <<>> /\ LoopOf(b, n).body = Block(b, n, 1)
BY DEF LoopOf, ForInLoop

LEMMA PushedTwice ==
  ASSUME NEW pre \in Stack, NEW mid \in Stack, NEW k \in Stack
  PROVE  (pre \o mid) \o k = pre \o (mid \o k)
BY ConcatAssociative DEF Stack

LEMMA NonePushed ==
  ASSUME NEW k \in Stack
  PROVE  <<>> \o k = k /\ <<>> \in Stack
BY ConcatEmptySeq, EmptySeq DEF Stack

(* The init or the step of a while or a for, and its test *)
LEMMA DeepHeader ==
  ASSUME NEW b \in Bodies, NEW n \in 1 .. Len(b), b[n].kind \in {"while", "for"},
         NEW k, NEW l, NEW h, NEW e, Deep(b, k, l, h, e)
  PROVE  /\ Deep(b, LoopOf(b, n).init \o <<Part("test", n)>> \o k, LoopOf(b, n).init \o <<Part("test", n)>> \o l, h, e)
         /\ Deep(b, LoopOf(b, n).step \o <<Part("test", n)>> \o k, LoopOf(b, n).step \o <<Part("test", n)>> \o l, h, e)
<1>1. k \in Stack /\ l \in Stack
  BY DeepIs
<1>2. SameFrame(b, Part("test", n))
  BY DEF SameFrame
<1>3. <<Part("test", n)>> \in Stack
  BY <1>2, SameFrameIs, OneIs
<1>4. Deep(b, <<Part("test", n)>> \o k, <<Part("test", n)>> \o l, h, e)
  BY <1>2, DeepPushOne
<1>5. ASSUME NEW pre \in Stack, \A p \in 1 .. Len(pre) : SameFrame(b, pre[p])
      PROVE  Deep(b, pre \o <<Part("test", n)>> \o k, pre \o <<Part("test", n)>> \o l, h, e)
  <2>1. pre \o <<Part("test", n)>> \o k = pre \o (<<Part("test", n)>> \o k)
        /\ pre \o <<Part("test", n)>> \o l = pre \o (<<Part("test", n)>> \o l)
    BY <1>1, <1>3, PushedTwice
  <2>2. Deep(b, pre \o (<<Part("test", n)>> \o k), pre \o (<<Part("test", n)>> \o l), h, e)
    BY <1>4, <1>5, DeepPush
  <2>3. QED
    BY <2>1, <2>2
<1>6. CASE b[n].kind = "while"
  <2>1. LoopOf(b, n).init = <<>> /\ LoopOf(b, n).step = <<>>
    BY <1>6, LoopIs
  <2>2. <<>> \in Stack /\ \A p \in 1 .. Len(<<>>) : SameFrame(b, <<>>[p])
    BY NonePushed, <1>1
  <2>3. QED
    BY <2>1, <2>2, <1>5
<1>7. CASE b[n].kind = "for"
  <2>1. LoopOf(b, n).init = <<Part("init", n)>> /\ LoopOf(b, n).step = <<Part("step", n)>>
    BY <1>7, LoopIs
  <2>2. SameFrame(b, Part("init", n)) /\ SameFrame(b, Part("step", n))
    BY <1>7 DEF SameFrame
  <2>3. <<Part("init", n)>> \in Stack /\ (\A p \in 1 .. Len(<<Part("init", n)>>) : SameFrame(b, <<Part("init", n)>>[p]))
        /\ <<Part("step", n)>> \in Stack /\ (\A p \in 1 .. Len(<<Part("step", n)>>) : SameFrame(b, <<Part("step", n)>>[p]))
    BY <2>2, SameFrameIs, OneIs
  <2>4. QED
    BY <2>1, <2>3, <1>5
<1>8. QED
  BY <1>6, <1>7

Answered(b, s, l, h, e, r, m) ==
  m.store = h /\ \E mv \in CoreMoves(b, s, l, <<>>, r) : Same(b, m, mv, h, e)

LEMMA CoreStep ==
  ASSUME NEW b \in Bodies, NEW s, SameFrame(b, s), Kind(b, s) \notin {"for-in", "branch"},
         NEW k, NEW l, NEW h, NEW e, Deep(b, k, l, h, e), NEW r,
         NEW m \in CoreMoves(b, s, k, h, r),
         Kind(b, s) \in {"break", "continue"} => Innermost(k) > 0
  PROVE  Answered(b, s, l, h, e, r, m)
<1> DEFINE n == s.of
           kind == Kind(b, s)
<1>0. Kind(b, s) = kind /\ s.of = n
  OBVIOUS
<1>1. /\ s \in Frames /\ n \in 1 .. Len(b) /\ n \in Nat
      /\ s.part \in {"statement", "init", "step", "test", "turn"}
      /\ s.part \in {"test", "turn"} => b[n].kind \in {"while", "for"}
      /\ kind = IF s.part = "statement" THEN b[n].kind ELSE s.part
  BY SameFrameIs, BodyIs
<1>2. b[n].kind \in Kinds
  BY <1>1, BodyIs
<1>3. k \in Stack /\ l \in Stack
  BY DeepIs
<1>4. /\ kind \in {"while", "for", "if", "block", "test", "turn"} => 1 \in 1 .. Len(b[n].blocks)
      /\ kind = "if" => 2 \in 1 .. Len(b[n].blocks) /\ b[n].kind = "if"
      /\ kind \in {"while", "for"} => b[n].kind = kind
  <2>1. /\ kind \in {"while", "for", "if", "block", "test", "turn"} => b[n].kind \in {"while", "for", "if", "block"}
        /\ kind \in {"while", "for", "if"} => b[n].kind = kind
    BY <1>1, <1>2 DEF Kinds
  <2>2. b[n].kind \in {"while", "for", "if", "block"} => 1 \in 1 .. Len(b[n].blocks)
    BY <1>1, BlockNumbers DEF Loops
  <2>3. b[n].kind = "if" => 2 \in 1 .. Len(b[n].blocks)
    BY <1>1, BlockNumbers
  <2> HIDE DEF n, kind
  <2>4. QED
    BY <2>1, <2>2, <2>3
<1>5. Part("test", n) \in Frames /\ Part("turn", n) \in Frames /\ Part("init", n) \in Frames /\ Part("step", n) \in Frames
  BY <1>1, PartIsFrame DEF Parts
<1>6. /\ b[n].kind \in {"while", "for"} => SameFrame(b, Part("test", n)) /\ SameFrame(b, Part("turn", n))
      /\ b[n].kind = "for" => SameFrame(b, Part("init", n)) /\ SameFrame(b, Part("step", n))
  BY <1>1 DEF SameFrame
<1>7. b[n].kind \in {"while", "for"} => Deep(b, <<Part("test", n)>> \o k, <<Part("test", n)>> \o l, h, e)
  BY <1>6, DeepPushOne
<1>8. b[n].kind \in {"while", "for"} => Deep(b, <<Part("turn", n)>> \o k, <<Part("turn", n)>> \o l, h, e)
  BY <1>6, DeepPushOne
<1> HIDE DEF n, kind
<1>10. CASE kind \in {"do", "init", "step"}
  <2>1. m = Move(<<kind, n>>, k, h) /\ Move(<<kind, n>>, l, <<>>) \in CoreMoves(b, s, l, <<>>, r)
    BY <1>10, <1>0 DEF CoreMoves
  <2>2. QED
    BY <2>1 DEF Answered, Same, Move
<1>11. CASE kind = "block"
  <2>1. m = Move(Silent, Block(b, n, 1) \o k, h)
        /\ Move(Silent, Block(b, n, 1) \o l, <<>>) \in CoreMoves(b, s, l, <<>>, r)
    BY <1>11, <1>0 DEF CoreMoves
  <2>2. Deep(b, Block(b, n, 1) \o k, Block(b, n, 1) \o l, h, e)
    BY <1>1, <1>4, <1>11, DeepBlock
  <2>3. QED
    BY <2>1, <2>2 DEF Answered, Same, Move
<1>12. CASE kind = "if"
  <2>1. PICK t \in Tests(b, n, h) : m = Move(t.event, Block(b, n, t.way) \o k, h)
    BY <1>12, <1>0 DEF CoreMoves
  <2>2. t.way \in {1, 2} /\ t \in Tests(b, n, <<>>)
    BY <1>4, <1>12, TestsAre
  <2>3. Move(t.event, Block(b, n, t.way) \o l, <<>>) \in CoreMoves(b, s, l, <<>>, r)
    BY <1>12, <2>2, <1>0 DEF CoreMoves
  <2>4. t.way \in 1 .. Len(b[n].blocks)
    BY <1>4, <1>12, <2>2
  <2>5. Deep(b, Block(b, n, t.way) \o k, Block(b, n, t.way) \o l, h, e)
    BY <1>1, <2>4, DeepBlock
  <2>6. QED
    BY <2>1, <2>3, <2>5 DEF Answered, Same, Move
<1>13. CASE kind \in {"while", "for"}
  <2>1. m = Move(Silent, LoopOf(b, n).init \o <<Part("test", n)>> \o k, h)
        /\ Move(Silent, LoopOf(b, n).init \o <<Part("test", n)>> \o l, <<>>) \in CoreMoves(b, s, l, <<>>, r)
    BY <1>13, <1>0 DEF CoreMoves
  <2>3. Deep(b, LoopOf(b, n).init \o <<Part("test", n)>> \o k, LoopOf(b, n).init \o <<Part("test", n)>> \o l, h, e)
    BY <1>1, <1>4, <1>13, DeepHeader
  <2>4. QED
    BY <2>1, <2>3 DEF Answered, Same, Move
<1>14. CASE kind = "test"
  <2>1. PICK t \in Tests(b, n, h) :
          m = Move(t.event, (IF t.way = 1 THEN LoopOf(b, n).body \o <<Part("turn", n)>> ELSE <<>>) \o k, h)
    BY <1>14, <1>0 DEF CoreMoves
  <2>2. b[n].kind \in {"while", "for"}
    BY <1>1, <1>14, <1>2 DEF Kinds
  <2>3. t.way \in {1, 2} /\ t \in Tests(b, n, <<>>)
    BY <2>2, TestsAre
  <2>4. Move(t.event, (IF t.way = 1 THEN LoopOf(b, n).body \o <<Part("turn", n)>> ELSE <<>>) \o l, <<>>)
          \in CoreMoves(b, s, l, <<>>, r)
    BY <1>14, <2>3, <1>0 DEF CoreMoves
  <2>5. LoopOf(b, n).body = Block(b, n, 1) /\ Block(b, n, 1) \in Stack
    BY <2>2, <1>1, <1>4, <1>14, LoopIs, BlockIs
  <2>6. ASSUME NEW z \in Stack
        PROVE  (LoopOf(b, n).body \o <<Part("turn", n)>>) \o z = Block(b, n, 1) \o (<<Part("turn", n)>> \o z)
    BY <2>5, <1>5, OneIs, PushedTwice
  <2>7. Deep(b, Block(b, n, 1) \o (<<Part("turn", n)>> \o k), Block(b, n, 1) \o (<<Part("turn", n)>> \o l), h, e)
    BY <1>1, <1>4, <1>8, <1>14, <2>2, DeepBlock
  <2>8. CASE t.way = 1
    <3>1. m = Move(t.event, Block(b, n, 1) \o (<<Part("turn", n)>> \o k), h)
      BY <2>1, <2>6, <2>8, <1>3
    <3>2. Move(t.event, Block(b, n, 1) \o (<<Part("turn", n)>> \o l), <<>>) \in CoreMoves(b, s, l, <<>>, r)
      BY <2>4, <2>6, <2>8, <1>3
    <3>3. QED
      BY <3>1, <3>2, <2>7 DEF Answered, Same, Move
  <2>9. CASE t.way = 2
    <3>1. m = Move(t.event, k, h)
      BY <2>1, <2>9, <1>3, NonePushed
    <3>2. Move(t.event, l, <<>>) \in CoreMoves(b, s, l, <<>>, r)
      BY <2>4, <2>9, <1>3, NonePushed
    <3>3. QED
      BY <3>1, <3>2 DEF Answered, Same, Move
  <2>10. QED
    BY <2>3, <2>8, <2>9
<1>15. CASE kind = "turn"
  <2>1. m = Move(Silent, LoopOf(b, n).step \o <<Part("test", n)>> \o k, h)
        /\ Move(Silent, LoopOf(b, n).step \o <<Part("test", n)>> \o l, <<>>) \in CoreMoves(b, s, l, <<>>, r)
    BY <1>15, <1>0 DEF CoreMoves
  <2>2. b[n].kind \in {"while", "for"}
    BY <1>1, <1>15, <1>2 DEF Kinds
  <2>3. Deep(b, LoopOf(b, n).step \o <<Part("test", n)>> \o k, LoopOf(b, n).step \o <<Part("test", n)>> \o l, h, e)
    BY <1>1, <2>2, DeepHeader
  <2>4. QED
    BY <2>1, <2>3 DEF Answered, Same, Move
<1>16. CASE kind = "break"
  <2>1. m = Move(Silent, SubSeq(k, Innermost(k) + 1, Len(k)), h)
        /\ Move(Silent, SubSeq(l, Innermost(l) + 1, Len(l)), <<>>) \in CoreMoves(b, s, l, <<>>, r)
    BY <1>16, <1>0 DEF CoreMoves
  <2>2. Innermost(k) = Innermost(l) /\ Innermost(k) \in 0 .. Len(l)
    BY InnermostDeep
  <2>3. Innermost(l) + 1 \in 1 .. Len(l) + 1
    BY <2>2, DeepIs
  <2>4. QED
    BY <2>1, <2>2, <2>3, DeepDrop DEF Answered, Same, Move
<1>17. CASE kind = "continue"
  <2>1. m = Move(Silent, SubSeq(k, Innermost(k), Len(k)), h)
        /\ Move(Silent, SubSeq(l, Innermost(l), Len(l)), <<>>) \in CoreMoves(b, s, l, <<>>, r)
    BY <1>17, <1>0 DEF CoreMoves
  <2>2. Innermost(k) = Innermost(l) /\ Innermost(k) \in 0 .. Len(l)
    BY InnermostDeep
  <2>3. Innermost(k) > 0
    BY <1>17 DEF kind
  <2>4. Len(l) \in Nat
    BY DeepIs
  <2>5. Innermost(l) \in 1 .. Len(l) + 1
    BY <2>2, <2>3, <2>4
  <2>6. QED
    BY <2>1, <2>2, <2>5, DeepDrop DEF Answered, Same, Move
<1>18. CASE kind = "return"
  <2>1. m = Move(<<"end", Leaves(b[n].gives, r)>>, Ended, h)
        /\ Move(<<"end", Leaves(b[n].gives, r)>>, Ended, <<>>) \in CoreMoves(b, s, l, <<>>, r)
    BY <1>18, <1>0 DEF CoreMoves
  <2>2. QED
    BY <2>1 DEF Answered, Same, Move
<1>19. kind \in {"do", "init", "step", "block", "if", "while", "for", "test", "turn", "break", "continue", "return"}
  BY <1>1, <1>2 DEF Kinds, kind
<1>20. QED
  BY <1>10, <1>11, <1>12, <1>13, <1>14, <1>15, <1>16, <1>17, <1>18, <1>19

-------------------------------------------------------------------------------
(* What C has to execute, cc, corresponds to what the source machine has,   *)
(* ss: both end, or they have corresponding stacks with the same frame on   *)
(* top, or C is inside of a for-in or a branch, before a frame the parser   *)
(* made.                                                                    *)

(* No turn of for-in n is in stack k: n is not inside of itself. *)
Outside(n, k) == \A p \in 1 .. Len(k) : k[p].part = "turn" => k[p].of # n

BeforeSource(n, cc, ss, k, l) ==
  cc = <<Part("let_src", n)>> \o (<<Part("for", n)>> \o k) /\ ss = <<Part("statement", n)>> \o l

BeforeLoop(n, cc, ss, k, l, len) ==
  /\ ss = <<Turns(n, 0, len)>> \o l
  /\ \/ cc = <<Part("for", n)>> \o k
     \/ cc = <<Part("let_idx", n)>> \o (<<Part("test", n)>> \o k)

InLoop(b, n, cc, ss, k, l, h, len, i) ==
  /\ ss = <<Turns(n, i, len)>> \o l
  /\ \/ cc = <<Part("test", n)>> \o k /\ Holds(h, "idx", n, i)
     \/ cc = <<Part("next_idx", n)>> \o (<<Part("test", n)>> \o k) /\ i > 0 /\ Holds(h, "idx", n, i - 1)
     \/ /\ cc = <<Part("let_element", n)>> \o (Block(b, n, 1) \o (<<Part("turn", n)>> \o k))
        /\ i < len /\ Holds(h, "idx", n, i)

InForIn(b, n, cc, ss, k, l, h) ==
  /\ b[n].kind = "for-in" /\ Outside(n, k)
  /\ \/ BeforeSource(n, cc, ss, k, l)
     \/ \E len \in 0 .. MaxLen :
          /\ Holds(h, "src", n, len)
          /\ BeforeLoop(n, cc, ss, k, l, len) \/ \E i \in 0 .. len : InLoop(b, n, cc, ss, k, l, h, len, i)

BeforeSubject(n, cc, ss, k, l) ==
  cc = <<Part("let_val", n)>> \o (<<Case(n, 1, 1)>> \o k) /\ ss = <<Part("statement", n)>> \o l

AtValue(b, n, cc, ss, k, l, h) ==
  \E x \in Values, i \in 1 .. Len(b[n].sizes) : \E j \in 1 .. b[n].sizes[i] :
    cc = <<Case(n, i, j)>> \o k /\ ss = <<Compare(n, x, i, j)>> \o l /\ Holds(h, "val", n, x)

InBranch(b, n, cc, ss, k, l, h) ==
  b[n].kind = "branch" /\ (BeforeSubject(n, cc, ss, k, l) \/ AtValue(b, n, cc, ss, k, l, h))

Aligned(b, cc, ss, h, e) ==
  \/ cc = Ended /\ ss = Ended
  \/ \E k, l \in Stack :
       /\ Deep(b, k, l, h, e)
       /\ \/ cc = k /\ ss = l
          \/ \E n \in 1 .. Len(b) : InForIn(b, n, cc, ss, k, l, h) \/ InBranch(b, n, cc, ss, k, l, h)

(* A silent move of the source machine *)
Quiet(b, ss, t, r) == \E mv \in SourceMoves(b, ss, r) : mv.event = Silent /\ mv.rest = t

(* The source machine has an answer to move m of the C machine. *)
Reply(b, ss, e, r, m) ==
  IF m.event = Silent
  THEN \/ Aligned(b, m.rest, ss, m.store, e)
       \/ \E t : Quiet(b, ss, t, r) /\ Aligned(b, m.rest, t, m.store, e)
  ELSE \E mv \in SourceMoves(b, ss, r) : mv.event = m.event /\ Aligned(b, m.rest, mv.rest, m.store, e)

Extra(r) == IF r = "status" THEN 1 ELSE 0

HiddenOK(h) ==
  \A v \in DOMAIN h :
    /\ v[1] \in {"src", "idx", "val"}
    /\ v[1] # "val" => h[v] \in 0 .. MaxLen
    /\ v[1] = "val" => h[v] \in Values

LEMMA SetOK ==
  ASSUME NEW h, HiddenOK(h), NEW n, NEW x, NEW name \in {"src", "idx", "val"},
         name # "val" => x \in 0 .. MaxLen, name = "val" => x \in Values
  PROVE  HiddenOK(Set(h, name, n, x))
<1>1. /\ DOMAIN Set(h, name, n, x) = DOMAIN h \cup {<<name, n>>}
      /\ \A v \in DOMAIN h : v # <<name, n>> => Set(h, name, n, x)[v] = h[v]
      /\ Set(h, name, n, x)[<<name, n>>] = x
  BY DEF Set
<1>2. <<name, n>>[1] = name
  OBVIOUS
<1>3. ASSUME NEW v \in DOMAIN Set(h, name, n, x)
      PROVE  /\ v[1] \in {"src", "idx", "val"}
             /\ v[1] # "val" => Set(h, name, n, x)[v] \in 0 .. MaxLen
             /\ v[1] = "val" => Set(h, name, n, x)[v] \in Values
  <2>1. CASE v = <<name, n>>
    BY <1>1, <1>2, <2>1
  <2>2. CASE v # <<name, n>>
    <3>1. v \in DOMAIN h /\ Set(h, name, n, x)[v] = h[v]
      BY <1>1, <2>2
    <3>2. QED
      BY <3>1 DEF HiddenOK
  <2>3. QED
    BY <2>1, <2>2
<1>4. QED
  BY <1>3 DEF HiddenOK

LEMMA DeepIsAligned ==
  ASSUME NEW b, NEW k, NEW l, NEW h, NEW e, Deep(b, k, l, h, e)
  PROVE  Aligned(b, k, l, h, e)
BY DeepIs DEF Aligned

(* The last frame of a stack is done: the end of the function *)
LEMMA EndReply ==
  ASSUME NEW b, NEW k, NEW h, NEW r, Deep(b, k, <<>>, h, Extra(r)), NEW m \in CMoves(b, k, h, r)
  PROVE  Reply(b, <<>>, Extra(r), r, m) /\ m.store = h
<1>1. SourceMoves(b, <<>>, r) = {Move(<<"end", Leaves(FALSE, r)>>, Ended, <<>>)}
  BY DEF SourceMoves
<1>2. m = Move(<<"end", Leaves(FALSE, r)>>, Ended, h)
  <2>1. CASE r = "status"
    <3>1. Extra(r) = 1
      BY <2>1 DEF Extra
    <3>2. k = <<Return0>>
      BY <3>1, DeepEmpty
    <3>3. Return0.part = "return_0" /\ Return0 \in Frames /\ Kind(b, Return0) = "return_0"
      BY Return0Is DEF Kind
    <3>4. k # <<>> /\ Head(k) = Return0
      BY <3>2
    <3>5. CMoves(b, k, h, r) = {Move(<<"end", "status">>, Ended, h)}
      BY <3>3, <3>4 DEF CMoves, HiddenMoves
    <3>6. Leaves(FALSE, r) = "status"
      BY <2>1 DEF Leaves
    <3>7. QED
      BY <3>5, <3>6
  <2>2. CASE r # "status"
    <3>1. Extra(r) = 0
      BY <2>2 DEF Extra
    <3>2. k = <<>>
      BY <3>1, DeepEmpty
    <3>3. CMoves(b, k, h, r) = {Move(<<"end", "nothing">>, Ended, h)}
      BY <3>2 DEF CMoves
    <3>4. Leaves(FALSE, r) = "nothing"
      BY <2>2 DEF Leaves
    <3>5. QED
      BY <3>3, <3>4
  <2>3. QED
    BY <2>1, <2>2
<1>3. m.event = <<"end", Leaves(FALSE, r)>> /\ m.rest = Ended /\ m.store = h
  BY <1>2 DEF Move
<1>4. m.event # Silent
  BY <1>3 DEF Silent
<1>5. \E mv \in SourceMoves(b, <<>>, r) : mv.event = m.event /\ mv.rest = Ended
  <2> DEFINE mv == Move(<<"end", Leaves(FALSE, r)>>, Ended, <<>>)
  <2>1. mv \in SourceMoves(b, <<>>, r)
    BY <1>1
  <2>2. mv.event = <<"end", Leaves(FALSE, r)>> /\ mv.rest = Ended
    BY DEF Move
  <2> HIDE DEF mv
  <2>3. QED
    BY <1>3, <2>1, <2>2
<1>6. Aligned(b, Ended, Ended, h, Extra(r))
  BY DEF Aligned
<1>7. QED
  BY <1>3, <1>4, <1>5, <1>6 DEF Reply

(* Both machines have the same frame on top, not a for-in or a branch. *)
LEMMA SharedReply ==
  ASSUME NEW b \in Bodies, NEW s, SameFrame(b, s), Kind(b, s) \notin {"for-in", "branch"},
         NEW k, NEW l, NEW h, NEW r, Deep(b, k, l, h, Extra(r)), NEW m \in CMoves(b, <<s>> \o k, h, r),
         Kind(b, s) \in {"break", "continue"} => Innermost(k) > 0
  PROVE  Reply(b, <<s>> \o l, Extra(r), r, m) /\ m.store = h
<1>1. k \in Stack /\ l \in Stack
  BY DeepIs
<1>2. CMoves(b, <<s>> \o k, h, r) = CoreMoves(b, s, k, h, r)
      /\ SourceMoves(b, <<s>> \o l, r) = CoreMoves(b, s, l, <<>>, r)
  BY <1>1, SharedIs
<1>3. Answered(b, s, l, h, Extra(r), r, m)
  BY <1>2, CoreStep
<1>4. PICK mv \in CoreMoves(b, s, l, <<>>, r) : Same(b, m, mv, h, Extra(r))
  BY <1>3 DEF Answered
<1>5. m.store = h /\ mv.event = m.event /\ mv \in SourceMoves(b, <<s>> \o l, r)
  BY <1>2, <1>3, <1>4 DEF Answered, Same
<1>6. Aligned(b, m.rest, mv.rest, m.store, Extra(r))
  BY <1>4, <1>5, DeepIsAligned DEF Same, Aligned
<1>7. QED
  BY <1>5, <1>6 DEF Reply, Quiet

-------------------------------------------------------------------------------
(* The moves of the frames that only C has, each as a lemma *)

IsSource(m, n, x, k, h) == m.event = <<"source", n, x>> /\ m.rest = k /\ m.store = Set(h, "src", n, x)
IsTest(m, b, n, k, h) ==
  /\ m.event = Silent /\ m.store = h
  /\ InList(n, h) => m.rest = (LoopOf(b, n).body \o <<Part("turn", n)>>) \o k
  /\ ~InList(n, h) => m.rest = k
IsElement(m, n, k, h) == m.event = <<"element", n, h[<<"idx", n>>]>> /\ m.rest = k /\ m.store = h
IsSubject(m, n, x, k, h) == m.event = <<"subject", n, x>> /\ m.rest = k /\ m.store = Set(h, "val", n, x)
IsCase(m, b, n, i, j, x, k, h) ==
  /\ m.event = <<"case", n, <<i, j>>, x>> /\ m.store = h
  /\ m.rest = (IF x = h[<<"val", n>>] THEN Block(b, n, i) ELSE CaseElse(b, n, i, j)) \o k

LEMMA FromForIn ==
  ASSUME NEW b, NEW n \in Nat, b[n].kind = "for-in", NEW k \in Stack, NEW h, NEW r,
         NEW m \in CMoves(b, <<Part("statement", n)>> \o k, h, r)
  PROVE  m.event = Silent /\ m.rest = ParseForIn(n) \o k /\ m.store = h
<1> DEFINE s == Part("statement", n)
<1>1. s \in Frames
  BY PartIsFrame DEF Parts
<1>2. s.of = n /\ Kind(b, s) = "for-in"
  BY DEF Part, Frame, Kind
<1>3. CMoves(b, <<s>> \o k, h, r) = HiddenMoves(b, s, k, h, r)
  BY <1>1, CMovesAre
<1> HIDE DEF s
<1>4. HiddenMoves(b, s, k, h, r) = {Move(Silent, ParseForIn(n) \o k, h)}
  BY <1>2 DEF HiddenMoves
<1>5. m \in {Move(Silent, ParseForIn(n) \o k, h)}
  BY <1>3, <1>4 DEF s
<1>6. m = Move(Silent, ParseForIn(n) \o k, h)
  BY <1>5
<1>7. QED
  BY <1>6 DEF Move

LEMMA FromBranch ==
  ASSUME NEW b, NEW n \in Nat, b[n].kind = "branch", NEW k \in Stack, NEW h, NEW r,
         NEW m \in CMoves(b, <<Part("statement", n)>> \o k, h, r)
  PROVE  m.event = Silent /\ m.rest = ParseBranch(n) \o k /\ m.store = h
<1> DEFINE s == Part("statement", n)
<1>1. s \in Frames
  BY PartIsFrame DEF Parts
<1>2. s.of = n /\ Kind(b, s) = "branch"
  BY DEF Part, Frame, Kind
<1>3. CMoves(b, <<s>> \o k, h, r) = HiddenMoves(b, s, k, h, r)
  BY <1>1, CMovesAre
<1> HIDE DEF s
<1>4. HiddenMoves(b, s, k, h, r) = {Move(Silent, ParseBranch(n) \o k, h)}
  BY <1>2 DEF HiddenMoves
<1>5. m \in {Move(Silent, ParseBranch(n) \o k, h)}
  BY <1>3, <1>4 DEF s
<1>6. m = Move(Silent, ParseBranch(n) \o k, h)
  BY <1>5
<1>7. QED
  BY <1>6 DEF Move

LEMMA FromLetSrc ==
  ASSUME NEW b, NEW n \in Nat, NEW k \in Stack, NEW h, NEW r,
         NEW m \in CMoves(b, <<Part("let_src", n)>> \o k, h, r)
  PROVE  \E x \in 0 .. MaxLen : IsSource(m, n, x, k, h)
<1> DEFINE s == Part("let_src", n)
<1>1. s \in Frames
  BY PartIsFrame DEF Parts
<1>2. s.of = n /\ Kind(b, s) = "let_src"
  BY DEF Part, Frame, Kind
<1>3. CMoves(b, <<s>> \o k, h, r) = HiddenMoves(b, s, k, h, r)
  BY <1>1, CMovesAre
<1> HIDE DEF s
<1>4. HiddenMoves(b, s, k, h, r) = {Move(<<"source", n, x>>, k, Set(h, "src", n, x)) : x \in 0 .. MaxLen}
  BY <1>2 DEF HiddenMoves
<1>5. m \in {Move(<<"source", n, x>>, k, Set(h, "src", n, x)) : x \in 0 .. MaxLen}
  BY <1>3, <1>4 DEF s
<1>6. PICK x \in 0 .. MaxLen : m = Move(<<"source", n, x>>, k, Set(h, "src", n, x))
  BY <1>5
<1>7. IsSource(m, n, x, k, h)
  BY <1>6 DEF Move, IsSource
<1>8. QED
  BY <1>7

LEMMA FromFor ==
  ASSUME NEW b, NEW n \in Nat, NEW k \in Stack, NEW h, NEW r,
         NEW m \in CMoves(b, <<Part("for", n)>> \o k, h, r)
  PROVE  m.event = Silent /\ m.rest = LoopOf(b, n).init \o <<Part("test", n)>> \o k /\ m.store = h
<1> DEFINE s == Part("for", n)
<1>1. s \in Frames
  BY PartIsFrame DEF Parts
<1>2. s.of = n /\ Kind(b, s) = "for"
  BY DEF Part, Frame, Kind
<1>3. CMoves(b, <<s>> \o k, h, r) = HiddenMoves(b, s, k, h, r)
  BY <1>1, CMovesAre
<1> HIDE DEF s
<1>4. HiddenMoves(b, s, k, h, r) = {Move(Silent, LoopOf(b, n).init \o <<Part("test", n)>> \o k, h)}
  BY <1>2 DEF HiddenMoves, CoreMoves
<1>5. m \in {Move(Silent, LoopOf(b, n).init \o <<Part("test", n)>> \o k, h)}
  BY <1>3, <1>4 DEF s
<1>6. m = Move(Silent, LoopOf(b, n).init \o <<Part("test", n)>> \o k, h)
  BY <1>5
<1>7. QED
  BY <1>6 DEF Move

LEMMA FromLetIdx ==
  ASSUME NEW b, NEW n \in Nat, NEW k \in Stack, NEW h, NEW r,
         NEW m \in CMoves(b, <<Part("let_idx", n)>> \o k, h, r)
  PROVE  m.event = Silent /\ m.rest = k /\ m.store = Set(h, "idx", n, 0)
<1> DEFINE s == Part("let_idx", n)
<1>1. s \in Frames
  BY PartIsFrame DEF Parts
<1>2. s.of = n /\ Kind(b, s) = "let_idx"
  BY DEF Part, Frame, Kind
<1>3. CMoves(b, <<s>> \o k, h, r) = HiddenMoves(b, s, k, h, r)
  BY <1>1, CMovesAre
<1> HIDE DEF s
<1>4. HiddenMoves(b, s, k, h, r) = {Move(Silent, k, Set(h, "idx", n, 0))}
  BY <1>2 DEF HiddenMoves
<1>5. m \in {Move(Silent, k, Set(h, "idx", n, 0))}
  BY <1>3, <1>4 DEF s
<1>6. m = Move(Silent, k, Set(h, "idx", n, 0))
  BY <1>5
<1>7. QED
  BY <1>6 DEF Move

LEMMA FromNext ==
  ASSUME NEW b, NEW n \in Nat, NEW k \in Stack, NEW h, NEW r,
         NEW m \in CMoves(b, <<Part("next_idx", n)>> \o k, h, r)
  PROVE  m.event = Silent /\ m.rest = k /\ m.store = Set(h, "idx", n, h[<<"idx", n>>] + 1)
<1> DEFINE s == Part("next_idx", n)
<1>1. s \in Frames
  BY PartIsFrame DEF Parts
<1>2. s.of = n /\ Kind(b, s) = "next_idx"
  BY DEF Part, Frame, Kind
<1>3. CMoves(b, <<s>> \o k, h, r) = HiddenMoves(b, s, k, h, r)
  BY <1>1, CMovesAre
<1> HIDE DEF s
<1>4. HiddenMoves(b, s, k, h, r) = {Move(Silent, k, Set(h, "idx", n, h[<<"idx", n>>] + 1))}
  BY <1>2 DEF HiddenMoves
<1>5. m \in {Move(Silent, k, Set(h, "idx", n, h[<<"idx", n>>] + 1))}
  BY <1>3, <1>4 DEF s
<1>6. m = Move(Silent, k, Set(h, "idx", n, h[<<"idx", n>>] + 1))
  BY <1>5
<1>7. QED
  BY <1>6 DEF Move

LEMMA FromElement ==
  ASSUME NEW b, NEW n \in Nat, NEW k \in Stack, NEW h, NEW r,
         NEW m \in CMoves(b, <<Part("let_element", n)>> \o k, h, r)
  PROVE  IsElement(m, n, k, h)
<1> DEFINE s == Part("let_element", n)
<1>1. s \in Frames
  BY PartIsFrame DEF Parts
<1>2. s.of = n /\ Kind(b, s) = "let_element"
  BY DEF Part, Frame, Kind
<1>3. CMoves(b, <<s>> \o k, h, r) = HiddenMoves(b, s, k, h, r)
  BY <1>1, CMovesAre
<1> HIDE DEF s
<1>4. HiddenMoves(b, s, k, h, r) = {Move(<<"element", n, h[<<"idx", n>>]>>, k, h)}
  BY <1>2 DEF HiddenMoves
<1>5. m \in {Move(<<"element", n, h[<<"idx", n>>]>>, k, h)}
  BY <1>3, <1>4 DEF s
<1>6. m = Move(<<"element", n, h[<<"idx", n>>]>>, k, h)
  BY <1>5
<1>7. QED
  BY <1>6 DEF Move, IsElement

LEMMA FromTurn ==
  ASSUME NEW b, NEW n \in Nat, NEW k \in Stack, NEW h, NEW r,
         NEW m \in CMoves(b, <<Part("turn", n)>> \o k, h, r)
  PROVE  m.event = Silent /\ m.rest = LoopOf(b, n).step \o <<Part("test", n)>> \o k /\ m.store = h
<1> DEFINE s == Part("turn", n)
<1>1. s \in Frames
  BY PartIsFrame DEF Parts
<1>2. s.of = n /\ Kind(b, s) = "turn"
  BY DEF Part, Frame, Kind
<1>3. CMoves(b, <<s>> \o k, h, r) = HiddenMoves(b, s, k, h, r)
  BY <1>1, CMovesAre
<1> HIDE DEF s
<1>4. HiddenMoves(b, s, k, h, r) = {Move(Silent, LoopOf(b, n).step \o <<Part("test", n)>> \o k, h)}
  BY <1>2 DEF HiddenMoves, CoreMoves
<1>5. m \in {Move(Silent, LoopOf(b, n).step \o <<Part("test", n)>> \o k, h)}
  BY <1>3, <1>4 DEF s
<1>6. m = Move(Silent, LoopOf(b, n).step \o <<Part("test", n)>> \o k, h)
  BY <1>5
<1>7. QED
  BY <1>6 DEF Move

LEMMA FromLetVal ==
  ASSUME NEW b, NEW n \in Nat, NEW k \in Stack, NEW h, NEW r,
         NEW m \in CMoves(b, <<Part("let_val", n)>> \o k, h, r)
  PROVE  \E x \in Values : IsSubject(m, n, x, k, h)
<1> DEFINE s == Part("let_val", n)
<1>1. s \in Frames
  BY PartIsFrame DEF Parts
<1>2. s.of = n /\ Kind(b, s) = "let_val"
  BY DEF Part, Frame, Kind
<1>3. CMoves(b, <<s>> \o k, h, r) = HiddenMoves(b, s, k, h, r)
  BY <1>1, CMovesAre
<1> HIDE DEF s
<1>4. HiddenMoves(b, s, k, h, r) = {Move(<<"subject", n, x>>, k, Set(h, "val", n, x)) : x \in Values}
  BY <1>2 DEF HiddenMoves
<1>5. m \in {Move(<<"subject", n, x>>, k, Set(h, "val", n, x)) : x \in Values}
  BY <1>3, <1>4 DEF s
<1>6. PICK x \in Values : m = Move(<<"subject", n, x>>, k, Set(h, "val", n, x))
  BY <1>5
<1>7. IsSubject(m, n, x, k, h)
  BY <1>6 DEF Move, IsSubject
<1>8. QED
  BY <1>7

LEMMA FromTest ==
  ASSUME NEW b, NEW n \in Nat, b[n].kind = "for-in", NEW k \in Stack, NEW h, NEW r,
         NEW m \in CMoves(b, <<Part("test", n)>> \o k, h, r)
  PROVE  IsTest(m, b, n, k, h)
<1> DEFINE s == Part("test", n)
<1>1. s \in Frames
  BY PartIsFrame DEF Parts
<1>2. s.of = n /\ Kind(b, s) = "test"
  BY DEF Part, Frame, Kind
<1>3. CMoves(b, <<s>> \o k, h, r) = HiddenMoves(b, s, k, h, r)
  BY <1>1, CMovesAre
<1> HIDE DEF s
<1>4. HiddenMoves(b, s, k, h, r) = CoreMoves(b, s, k, h, r)
  BY <1>2 DEF HiddenMoves
<1>5. PICK t \in Tests(b, n, h) :
        m = Move(t.event, (IF t.way = 1 THEN LoopOf(b, n).body \o <<Part("turn", n)>> ELSE <<>>) \o k, h)
  <2>1. m \in CoreMoves(b, s, k, h, r)
    BY <1>3, <1>4 DEF s
  <2>2. QED
    BY <2>1, <1>2 DEF CoreMoves
<1>6. t.event = Silent /\ t.way = IF InList(n, h) THEN 1 ELSE 2
  BY TestsAre
<1>7. m.event = t.event /\ m.store = h
      /\ m.rest = (IF t.way = 1 THEN LoopOf(b, n).body \o <<Part("turn", n)>> ELSE <<>>) \o k
  BY <1>5 DEF Move
<1>8. InList(n, h) <=> t.way = 1
  BY <1>6
<1>9. ~InList(n, h) => m.rest = k
  BY <1>7, <1>8, NonePushed
<1>10. QED
  BY <1>6, <1>7, <1>8, <1>9 DEF IsTest

LEMMA FromCase ==
  ASSUME NEW b, NEW n \in Nat, NEW i \in Int, NEW j \in Int, NEW k \in Stack, NEW h, NEW r,
         NEW m \in CMoves(b, <<Case(n, i, j)>> \o k, h, r)
  PROVE  \E x \in Values : IsCase(m, b, n, i, j, x, k, h)
<1> DEFINE s == Case(n, i, j)
<1>1. s \in Frames
  BY PairIsFrame
<1>2. s.of = n /\ Kind(b, s) = "case" /\ s.at = <<i, j>>
  BY DEF Case, Frame, Kind
<1>3. s.at[1] = i /\ s.at[2] = j
  BY CaseFields
<1>4. CMoves(b, <<s>> \o k, h, r) = HiddenMoves(b, s, k, h, r)
  BY <1>1, CMovesAre
<1> HIDE DEF s
<1>5. PICK x \in Values :
        m = Move(<<"case", n, s.at, x>>,
                 (IF x = h[<<"val", n>>] THEN Block(b, n, s.at[1]) ELSE CaseElse(b, n, s.at[1], s.at[2])) \o k, h)
  <2>1. m \in HiddenMoves(b, s, k, h, r)
    BY <1>4 DEF s
  <2>2. QED
    BY <2>1, <1>2 DEF HiddenMoves
<1>6. m.event = <<"case", n, s.at, x>> /\ m.store = h
      /\ m.rest = (IF x = h[<<"val", n>>] THEN Block(b, n, s.at[1]) ELSE CaseElse(b, n, s.at[1], s.at[2])) \o k
  BY <1>5 DEF Move
<1>7. QED
  BY <1>2, <1>3, <1>6 DEF IsCase

(* The answers of the source machine *)

LEMMA ToTurns ==
  ASSUME NEW b, NEW n \in Nat, b[n].kind = "for-in", NEW l \in Stack, NEW r, NEW x \in 0 .. MaxLen
  PROVE  \E mv \in SourceMoves(b, <<Part("statement", n)>> \o l, r) :
           mv.event = <<"source", n, x>> /\ mv.rest = <<Turns(n, 0, x)>> \o l
<1> DEFINE s == Part("statement", n)
           mv == Move(<<"source", n, x>>, <<Turns(n, 0, x)>> \o l, <<>>)
<1>1. s \in Frames
  BY PartIsFrame DEF Parts
<1>2. s.of = n /\ Kind(b, s) = "for-in"
  BY DEF Part, Frame, Kind
<1>3. Head(<<s>> \o l) = s /\ Tail(<<s>> \o l) = l /\ <<s>> \o l # <<>>
  BY <1>1, FirstIs
<1>4. mv.event = <<"source", n, x>> /\ mv.rest = <<Turns(n, 0, x)>> \o l
  BY DEF Move
<1> HIDE DEF s
<1>5. mv \in SourceMoves(b, <<s>> \o l, r)
  BY <1>2, <1>3 DEF SourceMoves
<1> HIDE DEF mv
<1>6. QED
  BY <1>4, <1>5 DEF s

LEMMA TurnMoves ==
  ASSUME NEW b, NEW n \in Nat, NEW i \in Int, NEW len \in Int, NEW l \in Stack, NEW r
  PROVE  /\ i = len => Move(Silent, l, <<>>) \in SourceMoves(b, <<Turns(n, i, len)>> \o l, r)
         /\ i # len => Move(<<"element", n, i>>, Block(b, n, 1) \o <<Turns(n, i + 1, len)>> \o l, <<>>)
                         \in SourceMoves(b, <<Turns(n, i, len)>> \o l, r)
<1> DEFINE s == Turns(n, i, len)
<1>1. s \in Frames
  BY PairIsFrame
<1>2. s.of = n /\ Kind(b, s) = "turn"
  BY DEF Turns, Frame, Kind
<1>3. s.at # <<>> /\ s.at[1] = i /\ s.at[2] = len
  BY TurnsFields
<1>4. Head(<<s>> \o l) = s /\ Tail(<<s>> \o l) = l /\ <<s>> \o l # <<>>
  BY <1>1, FirstIs
<1> HIDE DEF s
<1>5. SourceMoves(b, <<s>> \o l, r) =
        {IF s.at[1] = s.at[2] THEN Move(Silent, l, <<>>)
         ELSE Move(<<"element", s.of, s.at[1]>>, Block(b, s.of, 1) \o <<Turns(s.of, s.at[1] + 1, s.at[2])>> \o l, <<>>)}
  BY <1>2, <1>3, <1>4 DEF SourceMoves
<1>6. QED
  BY <1>2, <1>3, <1>5 DEF s

TakesElement(mv, b, n, i, len, l) ==
  mv.event = <<"element", n, i>> /\ mv.rest = Block(b, n, 1) \o <<Turns(n, i + 1, len)>> \o l

LEMMA ToElement ==
  ASSUME NEW b, NEW n \in Nat, NEW i \in Int, NEW len \in Int, i # len, NEW l \in Stack, NEW r
  PROVE  \E mv \in SourceMoves(b, <<Turns(n, i, len)>> \o l, r) : TakesElement(mv, b, n, i, len, l)
<1> DEFINE mv == Move(<<"element", n, i>>, Block(b, n, 1) \o <<Turns(n, i + 1, len)>> \o l, <<>>)
<1>1. mv \in SourceMoves(b, <<Turns(n, i, len)>> \o l, r)
  BY TurnMoves
<1>2. TakesElement(mv, b, n, i, len, l)
  BY DEF Move, TakesElement
<1> HIDE DEF mv
<1>3. QED
  BY <1>1, <1>2

LEMMA ToDone ==
  ASSUME NEW b, NEW n \in Nat, NEW i \in Int, NEW len \in Int, i = len, NEW l \in Stack, NEW r
  PROVE  Quiet(b, <<Turns(n, i, len)>> \o l, l, r)
<1> DEFINE mv == Move(Silent, l, <<>>)
<1>1. mv \in SourceMoves(b, <<Turns(n, i, len)>> \o l, r)
  BY TurnMoves
<1>2. mv.event = Silent /\ mv.rest = l
  BY DEF Move
<1> HIDE DEF mv
<1>3. QED
  BY <1>1, <1>2 DEF Quiet

LEMMA ToCompare ==
  ASSUME NEW b, NEW n \in Nat, b[n].kind = "branch", NEW l \in Stack, NEW r, NEW x \in Values
  PROVE  \E mv \in SourceMoves(b, <<Part("statement", n)>> \o l, r) :
           mv.event = <<"subject", n, x>> /\ mv.rest = <<Compare(n, x, 1, 1)>> \o l
<1> DEFINE s == Part("statement", n)
           mv == Move(<<"subject", n, x>>, <<Compare(n, x, 1, 1)>> \o l, <<>>)
<1>1. s \in Frames
  BY PartIsFrame DEF Parts
<1>2. s.of = n /\ Kind(b, s) = "branch"
  BY DEF Part, Frame, Kind
<1>3. Head(<<s>> \o l) = s /\ Tail(<<s>> \o l) = l /\ <<s>> \o l # <<>>
  BY <1>1, FirstIs
<1>4. mv.event = <<"subject", n, x>> /\ mv.rest = <<Compare(n, x, 1, 1)>> \o l
  BY DEF Move
<1> HIDE DEF s
<1>5. mv \in SourceMoves(b, <<s>> \o l, r)
  BY <1>2, <1>3 DEF SourceMoves
<1> HIDE DEF mv
<1>6. QED
  BY <1>4, <1>5 DEF s

TakesValue(mv, b, n, x, i, j, y, l) ==
  /\ mv.event = <<"case", n, <<i, j>>, y>>
  /\ mv.rest = (IF y = x THEN Block(b, n, i) ELSE Unequal(b, n, x, i, j)) \o l

LEMMA ToValue ==
  ASSUME NEW b, NEW n \in Nat, NEW x \in Int, NEW i \in Int, NEW j \in Int, NEW l \in Stack, NEW r, NEW y \in Values
  PROVE  \E mv \in SourceMoves(b, <<Compare(n, x, i, j)>> \o l, r) : TakesValue(mv, b, n, x, i, j, y, l)
<1> DEFINE s == Compare(n, x, i, j)
           mv == Move(<<"case", n, <<i, j>>, y>>, (IF y = x THEN Block(b, n, i) ELSE Unequal(b, n, x, i, j)) \o l, <<>>)
<1>1. s \in Frames
  BY CompareIsFrame
<1>2. s.of = n /\ Kind(b, s) = "compare"
  BY DEF Compare, Frame, Kind
<1>3. s.at[1] = x /\ s.at[2] = i /\ s.at[3] = j
  BY CompareFields
<1>4. Head(<<s>> \o l) = s /\ Tail(<<s>> \o l) = l /\ <<s>> \o l # <<>>
  BY <1>1, FirstIs
<1>5. TakesValue(mv, b, n, x, i, j, y, l)
  BY DEF Move, TakesValue
<1> HIDE DEF s
<1>6. Move(<<"case", s.of, <<s.at[2], s.at[3]>>, y>>,
           (IF y = s.at[1] THEN Block(b, s.of, s.at[2]) ELSE Unequal(b, s.of, s.at[1], s.at[2], s.at[3])) \o l, <<>>)
        \in SourceMoves(b, <<s>> \o l, r)
  BY <1>2, <1>4 DEF SourceMoves
<1>7. mv \in SourceMoves(b, <<s>> \o l, r)
  BY <1>2, <1>3, <1>6
<1> HIDE DEF mv
<1>8. QED
  BY <1>5, <1>7 DEF s

-------------------------------------------------------------------------------
(* The replies to the moves of a for-in *)

LEMMA SetIn ==
  ASSUME NEW h, NEW name, NEW n, NEW x
  PROVE  Holds(Set(h, name, n, x), name, n, x)
BY DEF Holds, Set

LEMMA SetOther ==
  ASSUME NEW h, NEW name, NEW n, NEW x, NEW other, NEW m, NEW y, <<other, m>> # <<name, n>>, Holds(h, other, m, y)
  PROVE  Holds(Set(h, name, n, x), other, m, y)
BY DEF Holds, Set

LEMMA ReplyIs ==
  ASSUME NEW b, NEW ss, NEW e, NEW r, NEW m
  PROVE  /\ m.event = Silent /\ Aligned(b, m.rest, ss, m.store, e) => Reply(b, ss, e, r, m)
         /\ \A t : m.event = Silent /\ Quiet(b, ss, t, r) /\ Aligned(b, m.rest, t, m.store, e) => Reply(b, ss, e, r, m)
         /\ \A mv \in SourceMoves(b, ss, r) :
              m.event # Silent /\ mv.event = m.event /\ Aligned(b, m.rest, mv.rest, m.store, e) => Reply(b, ss, e, r, m)
BY DEF Reply

LEMMA InForInIsAligned ==
  ASSUME NEW b, NEW n \in 1 .. Len(b), NEW cc, NEW ss, NEW k, NEW l, NEW h, NEW e,
         Deep(b, k, l, h, e), InForIn(b, n, cc, ss, k, l, h)
  PROVE  Aligned(b, cc, ss, h, e)
<1>1. k \in Stack /\ l \in Stack
  BY DeepIs
<1>2. QED
  BY <1>1 DEF Aligned

LEMMA EventIs == \A a, x, y, z : <<a, x>> # Silent /\ <<a, x, y>> # Silent /\ <<a, x, y, z>> # Silent
BY DEF Silent

(* for-in: the statement itself *)
LEMMA ForInReply ==
  ASSUME NEW b \in Bodies, NEW n \in 1 .. Len(b), b[n].kind = "for-in",
         NEW k, NEW l, NEW h, NEW e, Deep(b, k, l, h, e), Outside(n, k), NEW r,
         NEW m \in CMoves(b, <<Part("statement", n)>> \o k, h, r)
  PROVE  Reply(b, <<Part("statement", n)>> \o l, e, r, m) /\ m.store = h
<1>1. k \in Stack /\ l \in Stack /\ n \in Nat
  BY DeepIs, BodyIs
<1>2. Part("let_src", n) \in Frames /\ Part("for", n) \in Frames
  BY <1>1, PartIsFrame DEF Parts
<1>3. ParseForIn(n) \o k = <<Part("let_src", n)>> \o (<<Part("for", n)>> \o k)
  <2>1. <<Part("let_src", n)>> \in Stack /\ <<Part("for", n)>> \in Stack
    BY <1>2, OneIs
  <2>2. ParseForIn(n) = <<Part("let_src", n)>> \o <<Part("for", n)>>
    BY <1>2, TwoIs DEF ParseForIn
  <2>3. (<<Part("let_src", n)>> \o <<Part("for", n)>>) \o k = <<Part("let_src", n)>> \o (<<Part("for", n)>> \o k)
    BY <2>1, <1>1, PushedTwice
  <2>4. QED
    BY <2>2, <2>3
<1>4. m.event = Silent /\ m.rest = ParseForIn(n) \o k /\ m.store = h
  BY <1>1, FromForIn
<1>5. BeforeSource(n, m.rest, <<Part("statement", n)>> \o l, k, l)
  BY <1>3, <1>4 DEF BeforeSource
<1>6. InForIn(b, n, m.rest, <<Part("statement", n)>> \o l, k, l, h)
  BY <1>5 DEF InForIn
<1>7. Aligned(b, m.rest, <<Part("statement", n)>> \o l, h, e)
  BY <1>6, InForInIsAligned
<1>8. QED
  BY <1>4, <1>7, ReplyIs

(* The list is evaluated and kept. *)
LEMMA SourceReply ==
  ASSUME NEW b \in Bodies, NEW n \in 1 .. Len(b), b[n].kind = "for-in",
         NEW k, NEW l, NEW h, NEW e, Deep(b, k, l, h, e), Outside(n, k), NEW r, HiddenOK(h),
         NEW m \in CMoves(b, <<Part("let_src", n)>> \o (<<Part("for", n)>> \o k), h, r)
  PROVE  Reply(b, <<Part("statement", n)>> \o l, e, r, m) /\ HiddenOK(m.store)
<1>1. k \in Stack /\ l \in Stack /\ n \in Nat
  BY DeepIs, BodyIs
<1>2. Part("for", n) \in Frames
  BY <1>1, PartIsFrame DEF Parts
<1>3. <<Part("for", n)>> \o k \in Stack
  BY <1>1, <1>2, FirstIs
<1>4. PICK x \in 0 .. MaxLen :
        m.event = <<"source", n, x>> /\ m.rest = <<Part("for", n)>> \o k /\ m.store = Set(h, "src", n, x)
  <2>1. \E x \in 0 .. MaxLen : IsSource(m, n, x, <<Part("for", n)>> \o k, h)
    BY <1>1, <1>3, FromLetSrc
  <2>2. QED
    BY <2>1 DEF IsSource
<1>5. PICK mv \in SourceMoves(b, <<Part("statement", n)>> \o l, r) :
        mv.event = <<"source", n, x>> /\ mv.rest = <<Turns(n, 0, x)>> \o l
  BY <1>1, ToTurns
<1>6. HiddenOK(m.store)
  BY <1>4, SetOK
<1>7. Deep(b, k, l, m.store, e)
  BY <1>4, DeepSet DEF Outside
<1>8. Holds(m.store, "src", n, x)
  BY <1>4, SetIn
<1>9. BeforeLoop(n, m.rest, mv.rest, k, l, x)
  BY <1>4, <1>5 DEF BeforeLoop
<1>10. InForIn(b, n, m.rest, mv.rest, k, l, m.store)
  BY <1>8, <1>9 DEF InForIn
<1>11. Aligned(b, m.rest, mv.rest, m.store, e)
  BY <1>7, <1>10, InForInIsAligned
<1>12. m.event # Silent /\ mv.event = m.event
  BY <1>4, <1>5, EventIs
<1>13. QED
  BY <1>6, <1>11, <1>12, ReplyIs

(* The loop begins: the for that the parser made, and its index *)
LEMMA LoopReply ==
  ASSUME NEW b \in Bodies, NEW n \in 1 .. Len(b), b[n].kind = "for-in",
         NEW k, NEW l, NEW h, NEW e, Deep(b, k, l, h, e), Outside(n, k), NEW r, HiddenOK(h),
         NEW len \in 0 .. MaxLen, Holds(h, "src", n, len),
         NEW cc, NEW ss, BeforeLoop(n, cc, ss, k, l, len), NEW m \in CMoves(b, cc, h, r)
  PROVE  Reply(b, ss, e, r, m) /\ HiddenOK(m.store)
<1>1. k \in Stack /\ l \in Stack /\ n \in Nat
  BY DeepIs, BodyIs
<1>2. Part("test", n) \in Frames /\ Part("let_idx", n) \in Frames
  BY <1>1, PartIsFrame DEF Parts
<1>3. <<Part("test", n)>> \o k \in Stack
  BY <1>1, <1>2, FirstIs
<1>4. ss = <<Turns(n, 0, len)>> \o l
  BY DEF BeforeLoop
<1>5. CASE cc = <<Part("for", n)>> \o k
  <2>1. m.event = Silent /\ m.rest = LoopOf(b, n).init \o <<Part("test", n)>> \o k /\ m.store = h
    BY <1>1, <1>5, FromFor
  <2>2. LoopOf(b, n).init \o <<Part("test", n)>> \o k = <<Part("let_idx", n)>> \o (<<Part("test", n)>> \o k)
    <3>1. <<Part("let_idx", n)>> \in Stack /\ <<Part("test", n)>> \in Stack
      BY <1>2, OneIs
    <3>2. LoopOf(b, n).init = <<Part("let_idx", n)>>
      BY LoopIs
    <3>3. (<<Part("let_idx", n)>> \o <<Part("test", n)>>) \o k = <<Part("let_idx", n)>> \o (<<Part("test", n)>> \o k)
      BY <3>1, <1>1, PushedTwice
    <3>4. QED
      BY <3>2, <3>3
  <2>3. BeforeLoop(n, m.rest, ss, k, l, len)
    BY <1>4, <2>1, <2>2 DEF BeforeLoop
  <2>4. InForIn(b, n, m.rest, ss, k, l, m.store)
    BY <2>1, <2>3 DEF InForIn
  <2>5. Aligned(b, m.rest, ss, m.store, e)
    BY <2>1, <2>4, InForInIsAligned
  <2>6. QED
    BY <2>1, <2>5, ReplyIs
<1>6. CASE cc = <<Part("let_idx", n)>> \o (<<Part("test", n)>> \o k)
  <2>1. m.event = Silent /\ m.rest = <<Part("test", n)>> \o k /\ m.store = Set(h, "idx", n, 0)
    <3> DEFINE k2 == <<Part("test", n)>> \o k
    <3>1. k2 \in Stack /\ m \in CMoves(b, <<Part("let_idx", n)>> \o k2, h, r)
      BY <1>3, <1>6
    <3> HIDE DEF k2
    <3>2. m.event = Silent /\ m.rest = k2 /\ m.store = Set(h, "idx", n, 0)
      BY <1>1, <3>1, FromLetIdx
    <3>3. QED
      BY <3>2 DEF k2
  <2>2. 0 \in 0 .. MaxLen /\ 0 \in 0 .. len
    BY ConstantsAssumption
  <2>3. HiddenOK(m.store)
    BY <2>1, <2>2, SetOK
  <2>4. Deep(b, k, l, m.store, e)
    BY <2>1, DeepSet DEF Outside
  <2>5. <<"src", n>> # <<"idx", n>>
    OBVIOUS
  <2>6. Holds(m.store, "idx", n, 0)
    BY <2>1, SetIn
  <2>7. Holds(m.store, "src", n, len)
    BY <2>1, <2>5, SetOther
  <2>8. InLoop(b, n, m.rest, ss, k, l, m.store, len, 0)
    BY <1>4, <2>1, <2>6 DEF InLoop
  <2>9. InForIn(b, n, m.rest, ss, k, l, m.store)
    BY <2>2, <2>7, <2>8 DEF InForIn
  <2>10. Aligned(b, m.rest, ss, m.store, e)
    BY <2>4, <2>9, InForInIsAligned
  <2>11. QED
    BY <2>1, <2>3, <2>10, ReplyIs
<1>7. QED
  BY <1>5, <1>6 DEF BeforeLoop

LEMMA TestReply ==
  ASSUME NEW b \in Bodies, NEW n \in 1 .. Len(b), b[n].kind = "for-in",
         NEW k, NEW l, NEW h, NEW e, Deep(b, k, l, h, e), Outside(n, k), NEW r,
         NEW len \in 0 .. MaxLen, Holds(h, "src", n, len), NEW i \in 0 .. len, Holds(h, "idx", n, i),
         NEW m \in CMoves(b, <<Part("test", n)>> \o k, h, r)
  PROVE  Reply(b, <<Turns(n, i, len)>> \o l, e, r, m) /\ m.store = h
<1>1. k \in Stack /\ l \in Stack /\ n \in Nat /\ len \in Int /\ i \in Int
  BY DeepIs, BodyIs, ConstantsAssumption
<1>2. /\ m.event = Silent /\ m.store = h
      /\ InList(n, h) => m.rest = (LoopOf(b, n).body \o <<Part("turn", n)>>) \o k
      /\ ~InList(n, h) => m.rest = k
  <2>1. IsTest(m, b, n, k, h)
    BY <1>1, FromTest
  <2>2. QED
    BY <2>1 DEF IsTest
<1>3. InList(n, h) <=> i < len
  BY DEF InList, Holds
<1>4. CASE i < len
  <2>1. Part("let_element", n) \in Frames /\ Part("turn", n) \in Frames
    BY <1>1, PartIsFrame DEF Parts
  <2>2. <<Part("let_element", n)>> \in Stack /\ <<Part("turn", n)>> \in Stack
    BY <2>1, OneIs
  <2>3. Block(b, n, 1) \in Stack
    BY BlockNumbers, BlockIs DEF Loops
  <2>4. LoopOf(b, n).body = <<Part("let_element", n)>> \o Block(b, n, 1)
    BY LoopIs
  <2>5. <<Part("turn", n)>> \o k \in Stack /\ Block(b, n, 1) \o <<Part("turn", n)>> \in Stack
    BY <1>1, <2>2, <2>3, Pushed
  <2>6. (<<Part("let_element", n)>> \o Block(b, n, 1)) \o <<Part("turn", n)>>
          = <<Part("let_element", n)>> \o (Block(b, n, 1) \o <<Part("turn", n)>>)
    BY <2>2, <2>3, PushedTwice
  <2>7. (<<Part("let_element", n)>> \o (Block(b, n, 1) \o <<Part("turn", n)>>)) \o k
          = <<Part("let_element", n)>> \o ((Block(b, n, 1) \o <<Part("turn", n)>>) \o k)
    BY <1>1, <2>2, <2>5, PushedTwice
  <2>8. (Block(b, n, 1) \o <<Part("turn", n)>>) \o k = Block(b, n, 1) \o (<<Part("turn", n)>> \o k)
    BY <1>1, <2>2, <2>3, PushedTwice
  <2>9. m.rest = <<Part("let_element", n)>> \o (Block(b, n, 1) \o (<<Part("turn", n)>> \o k))
    <3>1. m.rest = (LoopOf(b, n).body \o <<Part("turn", n)>>) \o k
      BY <1>2, <1>3, <1>4
    <3>2. QED
      BY <3>1, <2>4, <2>6, <2>7, <2>8
  <2>10. InLoop(b, n, m.rest, <<Turns(n, i, len)>> \o l, k, l, h, len, i)
    BY <1>4, <2>9 DEF InLoop
  <2>11. InForIn(b, n, m.rest, <<Turns(n, i, len)>> \o l, k, l, h)
    BY <2>10 DEF InForIn
  <2>12. Aligned(b, m.rest, <<Turns(n, i, len)>> \o l, m.store, e)
    BY <1>2, <2>11, InForInIsAligned
  <2>13. QED
    BY <1>2, <2>12, ReplyIs
<1>5. CASE ~(i < len)
  <2>1. i = len
    BY <1>1, <1>5
  <2>2. m.rest = k
    BY <1>2, <1>3, <1>5
  <2>3. Quiet(b, <<Turns(n, i, len)>> \o l, l, r)
    BY <1>1, <2>1, ToDone
  <2>4. Aligned(b, m.rest, l, m.store, e)
    BY <1>2, <2>2, DeepIsAligned
  <2>5. QED
    BY <1>2, <2>3, <2>4, ReplyIs
<1>6. QED
  BY <1>4, <1>5

LEMMA NextReply ==
  ASSUME NEW b \in Bodies, NEW n \in 1 .. Len(b), b[n].kind = "for-in",
         NEW k, NEW l, NEW h, NEW e, Deep(b, k, l, h, e), Outside(n, k), NEW r, HiddenOK(h),
         NEW len \in 0 .. MaxLen, Holds(h, "src", n, len), NEW i \in 1 .. len, Holds(h, "idx", n, i - 1),
         NEW m \in CMoves(b, <<Part("next_idx", n)>> \o (<<Part("test", n)>> \o k), h, r)
  PROVE  Reply(b, <<Turns(n, i, len)>> \o l, e, r, m) /\ HiddenOK(m.store)
<1>1. k \in Stack /\ l \in Stack /\ n \in Nat /\ len \in Int /\ i \in Int /\ i \in 0 .. len
  BY DeepIs, BodyIs, ConstantsAssumption
<1>2. <<Part("test", n)>> \o k \in Stack
  BY <1>1, PartIsFrame, FirstIs DEF Parts
<1>3. m.event = Silent /\ m.rest = <<Part("test", n)>> \o k /\ m.store = Set(h, "idx", n, i)
  <2> DEFINE k2 == <<Part("test", n)>> \o k
  <2>1. k2 \in Stack /\ m \in CMoves(b, <<Part("next_idx", n)>> \o k2, h, r)
    BY <1>2
  <2> HIDE DEF k2
  <2>2. m.event = Silent /\ m.rest = k2 /\ m.store = Set(h, "idx", n, h[<<"idx", n>>] + 1)
    BY <1>1, <2>1, FromNext
  <2>3. h[<<"idx", n>>] + 1 = i
    BY <1>1 DEF Holds
  <2>4. QED
    BY <2>2, <2>3 DEF k2
<1>4. i \in 0 .. MaxLen
  BY ConstantsAssumption
<1>5. HiddenOK(m.store)
  BY <1>3, <1>4, SetOK
<1>6. Deep(b, k, l, m.store, e)
  BY <1>3, DeepSet DEF Outside
<1>7. <<"src", n>> # <<"idx", n>>
  OBVIOUS
<1>8. Holds(m.store, "idx", n, i)
  BY <1>3, SetIn
<1>9. Holds(m.store, "src", n, len)
  BY <1>3, <1>7, SetOther
<1>10. InLoop(b, n, m.rest, <<Turns(n, i, len)>> \o l, k, l, m.store, len, i)
  BY <1>3, <1>8 DEF InLoop
<1>11. InForIn(b, n, m.rest, <<Turns(n, i, len)>> \o l, k, l, m.store)
  BY <1>1, <1>9, <1>10 DEF InForIn
<1>12. Aligned(b, m.rest, <<Turns(n, i, len)>> \o l, m.store, e)
  BY <1>6, <1>11, InForInIsAligned
<1>13. QED
  BY <1>3, <1>5, <1>12, ReplyIs

LEMMA ElementReply ==
  ASSUME NEW b \in Bodies, NEW n \in 1 .. Len(b), b[n].kind = "for-in",
         NEW k, NEW l, NEW h, NEW e, Deep(b, k, l, h, e), NEW r,
         NEW len \in 0 .. MaxLen, Holds(h, "src", n, len), NEW i \in 0 .. len, i < len, Holds(h, "idx", n, i),
         NEW m \in CMoves(b, <<Part("let_element", n)>> \o (Block(b, n, 1) \o (<<Part("turn", n)>> \o k)), h, r)
  PROVE  Reply(b, <<Turns(n, i, len)>> \o l, e, r, m) /\ m.store = h
<1>1. k \in Stack /\ l \in Stack /\ n \in Nat /\ len \in Int /\ i \in Int /\ i + 1 \in Int /\ 1 \in 1 .. Len(b[n].blocks)
  BY DeepIs, BodyIs, BlockNumbers, ConstantsAssumption DEF Loops
<1>2. Part("turn", n) \in Frames /\ Turns(n, i + 1, len) \in Frames
  BY <1>1, PartIsFrame, PairIsFrame DEF Parts
<1>3. <<Part("turn", n)>> \in Stack /\ <<Turns(n, i + 1, len)>> \in Stack
  BY <1>2, OneIs
<1>4. Deep(b, <<Part("turn", n)>> \o k, <<Turns(n, i + 1, len)>> \o l, h, e)
  <2>1. TurnFrame(b, Part("turn", n), Turns(n, i + 1, len), h)
    <3>1. i + 1 \in 1 .. len /\ (i + 1) - 1 = i
      BY <1>1
    <3>2. Holds(h, "idx", n, (i + 1) - 1)
      BY <3>1
    <3>3. QED
      BY <3>1, <3>2 DEF TurnFrame
  <2>2. Len(<<Part("turn", n)>>) = Len(<<Turns(n, i + 1, len)>>)
        /\ \A p \in 1 .. Len(<<Part("turn", n)>>) : DeepFrame(b, <<Part("turn", n)>>[p], <<Turns(n, i + 1, len)>>[p], h)
    BY <1>2, <2>1, OneIs DEF DeepFrame
  <2>3. QED
    BY <1>3, <2>2, DeepOn
<1>5. Deep(b, Block(b, n, 1) \o (<<Part("turn", n)>> \o k), Block(b, n, 1) \o (<<Turns(n, i + 1, len)>> \o l), h, e)
  BY <1>1, <1>4, DeepBlock
<1>6. m.event = <<"element", n, i>> /\ m.rest = Block(b, n, 1) \o (<<Part("turn", n)>> \o k) /\ m.store = h
  <2> DEFINE k2 == Block(b, n, 1) \o (<<Part("turn", n)>> \o k)
  <2>1. k2 \in Stack
    BY <1>5, DeepIs
  <2>2. m \in CMoves(b, <<Part("let_element", n)>> \o k2, h, r)
    OBVIOUS
  <2> HIDE DEF k2
  <2>3. IsElement(m, n, k2, h)
    BY <1>1, <2>1, <2>2, FromElement
  <2>4. h[<<"idx", n>>] = i
    BY DEF Holds
  <2>5. QED
    BY <2>3, <2>4 DEF IsElement, k2
<1>7. PICK mv \in SourceMoves(b, <<Turns(n, i, len)>> \o l, r) :
        mv.event = <<"element", n, i>> /\ mv.rest = Block(b, n, 1) \o <<Turns(n, i + 1, len)>> \o l
  <2>1. i # len
    BY <1>1
  <2>2. PICK mv \in SourceMoves(b, <<Turns(n, i, len)>> \o l, r) : TakesElement(mv, b, n, i, len, l)
    BY <1>1, <2>1, ToElement
  <2>3. QED
    BY <2>2 DEF TakesElement
<1>8. mv.rest = Block(b, n, 1) \o (<<Turns(n, i + 1, len)>> \o l)
  <2>1. Block(b, n, 1) \in Stack
    BY <1>1, BlockIs
  <2>2. (Block(b, n, 1) \o <<Turns(n, i + 1, len)>>) \o l = Block(b, n, 1) \o (<<Turns(n, i + 1, len)>> \o l)
    BY <1>1, <1>3, <2>1, PushedTwice
  <2>3. QED
    BY <1>7, <2>2
<1>9. Aligned(b, m.rest, mv.rest, m.store, e)
  BY <1>5, <1>6, <1>8, DeepIsAligned
<1>10. m.event # Silent /\ mv.event = m.event
  BY <1>6, <1>7, EventIs
<1>11. QED
  BY <1>6, <1>9, <1>10, ReplyIs

(* A turn of a for-in is done: the frame of the loop is on top of both stacks. *)
LEMMA TurnReply ==
  ASSUME NEW b \in Bodies, NEW f, NEW g, NEW h, TurnFrame(b, f, g, h),
         NEW k, NEW l, NEW e, Deep(b, k, l, h, e), Outside(f.of, k), NEW r,
         NEW m \in CMoves(b, <<f>> \o k, h, r)
  PROVE  Reply(b, <<g>> \o l, e, r, m) /\ m.store = h
<1>1. PICK n \in 1 .. Len(b), len \in 0 .. MaxLen : \E i \in 1 .. len :
        /\ b[n].kind = "for-in" /\ f = Part("turn", n) /\ g = Turns(n, i, len)
        /\ Holds(h, "idx", n, i - 1) /\ Holds(h, "src", n, len)
  BY DEF TurnFrame
<1>2. PICK i \in 1 .. len :
        /\ b[n].kind = "for-in" /\ f = Part("turn", n) /\ g = Turns(n, i, len)
        /\ Holds(h, "idx", n, i - 1) /\ Holds(h, "src", n, len)
  BY <1>1
<1>3. k \in Stack /\ l \in Stack /\ n \in Nat /\ i \in 0 .. len /\ i > 0
  BY DeepIs, BodyIs, ConstantsAssumption
<1>4. f.of = n
  BY <1>2, PartFields
<1>5. m.event = Silent /\ m.rest = LoopOf(b, n).step \o <<Part("test", n)>> \o k /\ m.store = h
  <2>1. m \in CMoves(b, <<Part("turn", n)>> \o k, h, r)
    BY <1>2
  <2>2. QED
    BY <2>1, <1>3, FromTurn
<1>6. m.rest = <<Part("next_idx", n)>> \o (<<Part("test", n)>> \o k)
  <2>1. Part("next_idx", n) \in Frames /\ Part("test", n) \in Frames
    BY <1>3, PartIsFrame DEF Parts
  <2>2. <<Part("next_idx", n)>> \in Stack /\ <<Part("test", n)>> \in Stack
    BY <2>1, OneIs
  <2>3. LoopOf(b, n).step = <<Part("next_idx", n)>>
    BY <1>2, LoopIs
  <2>4. (<<Part("next_idx", n)>> \o <<Part("test", n)>>) \o k = <<Part("next_idx", n)>> \o (<<Part("test", n)>> \o k)
    BY <1>3, <2>2, PushedTwice
  <2>5. QED
    BY <1>5, <2>3, <2>4
<1>7. InLoop(b, n, m.rest, <<g>> \o l, k, l, h, len, i)
  BY <1>2, <1>3, <1>6 DEF InLoop
<1>8. InForIn(b, n, m.rest, <<g>> \o l, k, l, h)
  BY <1>2, <1>3, <1>4, <1>7 DEF InForIn
<1>9. Aligned(b, m.rest, <<g>> \o l, m.store, e)
  BY <1>5, <1>8, InForInIsAligned
<1>10. QED
  BY <1>5, <1>9, ReplyIs

-------------------------------------------------------------------------------
(* The replies to the moves of a branch *)

LEMMA InBranchIsAligned ==
  ASSUME NEW b, NEW n \in 1 .. Len(b), NEW cc, NEW ss, NEW k, NEW l, NEW h, NEW e,
         Deep(b, k, l, h, e), InBranch(b, n, cc, ss, k, l, h)
  PROVE  Aligned(b, cc, ss, h, e)
<1>1. k \in Stack /\ l \in Stack
  BY DeepIs
<1>2. QED
  BY <1>1 DEF Aligned

LEMMA DeepTurnIs ==
  ASSUME NEW b \in Bodies, NEW k, NEW l, NEW h, NEW e, Deep(b, k, l, h, e),
         NEW p \in 1 .. Len(k), k[p].part = "turn"
  PROVE  p \in 1 .. Len(l) /\ k[p].of \in 1 .. Len(b) /\ b[k[p].of].kind \in Loops
<1>1. /\ Len(k) \in Nat /\ Len(l) \in Nat /\ e \in {0, 1} /\ Len(k) = Len(l) + e
      /\ e = 1 => k[Len(k)] = Return0
      /\ \A q \in 1 .. Len(l) : DeepFrame(b, k[q], l[q], h)
  BY DeepIs
<1>2. Return0.part # "turn"
  BY Return0Is
<1>3. p \in 1 .. Len(l) \/ (e = 1 /\ p = Len(k))
  BY <1>1
<1>4. p \in 1 .. Len(l)
  BY <1>1, <1>2, <1>3
<1>5. DeepFrame(b, k[p], l[p], h)
  BY <1>1, <1>4
<1>6. QED
  BY <1>4, <1>5, SameFrameIs, TurnFrameIs DEF DeepFrame, Loops

LEMMA BranchReply ==
  ASSUME NEW b \in Bodies, NEW n \in 1 .. Len(b), b[n].kind = "branch",
         NEW k, NEW l, NEW h, NEW e, Deep(b, k, l, h, e), NEW r,
         NEW m \in CMoves(b, <<Part("statement", n)>> \o k, h, r)
  PROVE  Reply(b, <<Part("statement", n)>> \o l, e, r, m) /\ m.store = h
<1>1. k \in Stack /\ l \in Stack /\ n \in Nat
  BY DeepIs, BodyIs
<1>2. Part("let_val", n) \in Frames /\ Case(n, 1, 1) \in Frames
  BY <1>1, PartIsFrame, PairIsFrame DEF Parts
<1>3. ParseBranch(n) \o k = <<Part("let_val", n)>> \o (<<Case(n, 1, 1)>> \o k)
  <2>1. <<Part("let_val", n)>> \in Stack /\ <<Case(n, 1, 1)>> \in Stack
    BY <1>2, OneIs
  <2>2. ParseBranch(n) = <<Part("let_val", n)>> \o <<Case(n, 1, 1)>>
    BY <1>2, TwoIs DEF ParseBranch
  <2>3. (<<Part("let_val", n)>> \o <<Case(n, 1, 1)>>) \o k = <<Part("let_val", n)>> \o (<<Case(n, 1, 1)>> \o k)
    BY <2>1, <1>1, PushedTwice
  <2>4. QED
    BY <2>2, <2>3
<1>4. m.event = Silent /\ m.rest = ParseBranch(n) \o k /\ m.store = h
  BY <1>1, FromBranch
<1>5. BeforeSubject(n, m.rest, <<Part("statement", n)>> \o l, k, l)
  BY <1>3, <1>4 DEF BeforeSubject
<1>6. InBranch(b, n, m.rest, <<Part("statement", n)>> \o l, k, l, h)
  BY <1>5 DEF InBranch
<1>7. Aligned(b, m.rest, <<Part("statement", n)>> \o l, h, e)
  BY <1>6, InBranchIsAligned
<1>8. QED
  BY <1>4, <1>7, ReplyIs

LEMMA AtValueIs ==
  ASSUME NEW b, NEW n \in 1 .. Len(b), b[n].kind = "branch", NEW k, NEW l, NEW h, NEW e, Deep(b, k, l, h, e),
         NEW x \in Values, NEW i \in 1 .. Len(b[n].sizes), NEW j \in 1 .. b[n].sizes[i], Holds(h, "val", n, x)
  PROVE  Aligned(b, <<Case(n, i, j)>> \o k, <<Compare(n, x, i, j)>> \o l, h, e)
<1>1. AtValue(b, n, <<Case(n, i, j)>> \o k, <<Compare(n, x, i, j)>> \o l, k, l, h)
  BY DEF AtValue
<1>2. InBranch(b, n, <<Case(n, i, j)>> \o k, <<Compare(n, x, i, j)>> \o l, k, l, h)
  BY <1>1 DEF InBranch
<1>3. QED
  BY <1>2, InBranchIsAligned

(* The subject is evaluated and kept. *)
LEMMA SubjectReply ==
  ASSUME NEW b \in Bodies, NEW n \in 1 .. Len(b), b[n].kind = "branch",
         NEW k, NEW l, NEW h, NEW e, Deep(b, k, l, h, e), NEW r, HiddenOK(h),
         NEW m \in CMoves(b, <<Part("let_val", n)>> \o (<<Case(n, 1, 1)>> \o k), h, r)
  PROVE  Reply(b, <<Part("statement", n)>> \o l, e, r, m) /\ HiddenOK(m.store)
<1>1. k \in Stack /\ l \in Stack /\ n \in Nat
  BY DeepIs, BodyIs
<1>2. <<Case(n, 1, 1)>> \o k \in Stack
  <2>1. ASSUME NEW i \in Int, NEW j \in Int
        PROVE  Case(n, i, j) \in Frames
    BY <1>1, PairIsFrame
  <2>2. Case(n, 1, 1) \in Frames
    BY <2>1
  <2>3. QED
    BY <1>1, <2>2, FirstIs
<1>3. PICK x \in Values : IsSubject(m, n, x, <<Case(n, 1, 1)>> \o k, h)
  BY <1>1, <1>2, FromLetVal
<1>4. m.event = <<"subject", n, x>> /\ m.rest = <<Case(n, 1, 1)>> \o k /\ m.store = Set(h, "val", n, x)
  BY <1>3 DEF IsSubject
<1>5. PICK mv \in SourceMoves(b, <<Part("statement", n)>> \o l, r) :
        mv.event = <<"subject", n, x>> /\ mv.rest = <<Compare(n, x, 1, 1)>> \o l
  BY <1>1, ToCompare
<1>6. HiddenOK(m.store)
  BY <1>4, SetOK
<1>7. Deep(b, k, l, m.store, e)
  <2>1. \A p \in 1 .. Len(k) : k[p].part = "turn" => k[p].of # n
    BY DeepTurnIs DEF Loops
  <2>2. QED
    BY <1>4, <2>1, DeepSet
<1>8. Holds(m.store, "val", n, x)
  BY <1>4, SetIn
<1>9. 1 \in 1 .. Len(b[n].sizes) /\ 1 \in 1 .. b[n].sizes[1]
  BY BranchIs
<1>10. Aligned(b, m.rest, mv.rest, m.store, e)
  BY <1>4, <1>5, <1>7, <1>8, <1>9, AtValueIs
<1>11. m.event # Silent /\ mv.event = m.event
  BY <1>4, <1>5, EventIs
<1>12. QED
  BY <1>6, <1>10, <1>11, ReplyIs

(* A value of a case is compared with it. *)
LEMMA ValueReply ==
  ASSUME NEW b \in Bodies, NEW n \in 1 .. Len(b), b[n].kind = "branch",
         NEW k, NEW l, NEW h, NEW e, Deep(b, k, l, h, e), NEW r,
         NEW x \in Values, NEW i \in 1 .. Len(b[n].sizes), NEW j \in 1 .. b[n].sizes[i], Holds(h, "val", n, x),
         NEW m \in CMoves(b, <<Case(n, i, j)>> \o k, h, r)
  PROVE  Reply(b, <<Compare(n, x, i, j)>> \o l, e, r, m) /\ m.store = h
<1>1. k \in Stack /\ l \in Stack /\ n \in Nat /\ x \in Int /\ i \in Int /\ j \in Int
  BY DeepIs, BodyIs, ConstantsAssumption
<1>2. PICK y \in Values : IsCase(m, b, n, i, j, y, k, h)
  BY <1>1, FromCase
<1>3. /\ m.event = <<"case", n, <<i, j>>, y>> /\ m.store = h
      /\ m.rest = (IF y = x THEN Block(b, n, i) ELSE CaseElse(b, n, i, j)) \o k
  BY <1>2 DEF IsCase, Holds
<1>4. PICK mv \in SourceMoves(b, <<Compare(n, x, i, j)>> \o l, r) : TakesValue(mv, b, n, x, i, j, y, l)
  BY <1>1, ToValue
<1>5. /\ mv.event = <<"case", n, <<i, j>>, y>>
      /\ mv.rest = (IF y = x THEN Block(b, n, i) ELSE Unequal(b, n, x, i, j)) \o l
  BY <1>4 DEF TakesValue
<1>6. /\ Len(b[n].blocks) = Len(b[n].sizes) + 1 /\ Len(b[n].sizes) \in Nat
      /\ \A z \in 1 .. Len(b[n].sizes) : b[n].sizes[z] \in Nat /\ b[n].sizes[z] >= 1
  BY BranchIs
<1>7. ASSUME NEW z \in 1 .. Len(b[n].blocks)
      PROVE  Aligned(b, Block(b, n, z) \o k, Block(b, n, z) \o l, h, e)
  BY DeepBlock, DeepIsAligned
<1>8. Aligned(b, m.rest, mv.rest, h, e)
  <2>1. CASE y = x
    <3>1. m.rest = Block(b, n, i) \o k /\ mv.rest = Block(b, n, i) \o l /\ i \in 1 .. Len(b[n].blocks)
      BY <1>3, <1>5, <1>6, <2>1
    <3>2. QED
      BY <3>1, <1>7
  <2>2. CASE y # x /\ j < b[n].sizes[i]
    <3>1. m.rest = <<Case(n, i, j + 1)>> \o k /\ mv.rest = <<Compare(n, x, i, j + 1)>> \o l
      BY <1>3, <1>5, <2>2 DEF CaseElse, Unequal
    <3>2. j + 1 \in 1 .. b[n].sizes[i]
      BY <1>6, <2>2
    <3>3. QED
      BY <3>1, <3>2, AtValueIs
  <2>3. CASE y # x /\ ~(j < b[n].sizes[i]) /\ i < Len(b[n].sizes)
    <3>1. m.rest = <<Case(n, i + 1, 1)>> \o k /\ mv.rest = <<Compare(n, x, i + 1, 1)>> \o l
      BY <1>3, <1>5, <2>3 DEF CaseElse, Unequal
    <3>2. i + 1 \in 1 .. Len(b[n].sizes)
      BY <1>6, <2>3
    <3>3. 1 \in 1 .. b[n].sizes[i + 1]
      BY <1>6, <3>2
    <3>4. QED
      BY <3>1, <3>2, <3>3, AtValueIs
  <2>4. CASE y # x /\ ~(j < b[n].sizes[i]) /\ ~(i < Len(b[n].sizes))
    <3>1. m.rest = Block(b, n, i + 1) \o k /\ mv.rest = Block(b, n, i + 1) \o l
      BY <1>3, <1>5, <2>4 DEF CaseElse, Unequal
    <3>2. i + 1 \in 1 .. Len(b[n].blocks)
      BY <1>6
    <3>3. QED
      BY <3>1, <3>2, <1>7
  <2>5. QED
    BY <2>1, <2>2, <2>3, <2>4
<1>9. Aligned(b, m.rest, mv.rest, m.store, e)
  BY <1>3, <1>8
<1>10. m.event # Silent /\ mv.event = m.event
  BY <1>3, <1>5, EventIs
<1>11. QED
  BY <1>3, <1>9, <1>10, ReplyIs

-------------------------------------------------------------------------------
(* Every move of the C machine has a reply. *)

LEMMA EndedHasNoMove ==
  ASSUME NEW b, NEW h, NEW r
  PROVE  CMoves(b, Ended, h, r) = {}
<1>1. Ended # <<>> /\ Head(Ended) = Part("ended", 0)
  BY DEF Ended
<1>2. Kind(b, Part("ended", 0)) = "ended"
  BY DEF Part, Frame, Kind
<1>3. HiddenMoves(b, Part("ended", 0), Tail(Ended), h, r) = {}
  BY <1>2 DEF HiddenMoves, CoreMoves
<1>4. QED
  BY <1>1, <1>3 DEF CMoves

LEMMA DeepReply ==
  ASSUME NEW b \in Bodies, NEW k, NEW l, NEW h, NEW r, Deep(b, k, l, h, Extra(r)), HiddenOK(h),
         NEW m \in CMoves(b, k, h, r),
         k # <<>> /\ Kind(b, Head(k)) \in {"break", "continue"} => Innermost(Tail(k)) > 0,
         k # <<>> /\ Head(k).part \in {"statement", "turn"} => Outside(Head(k).of, Tail(k))
  PROVE  Reply(b, l, Extra(r), r, m) /\ HiddenOK(m.store)
<1>1. k \in Stack /\ l \in Stack
  BY DeepIs
<1>2. CASE l = <<>>
  BY <1>2, EndReply
<1>3. CASE l # <<>>
  <2>1. /\ k # <<>> /\ Head(k) \in Frames /\ Head(l) \in Frames
        /\ DeepFrame(b, Head(k), Head(l), h) /\ Deep(b, Tail(k), Tail(l), h, Extra(r))
    BY <1>3, DeepFirst
  <2>2. k = <<Head(k)>> \o Tail(k) /\ l = <<Head(l)>> \o Tail(l)
    BY <1>1, <1>3, <2>1, SplitIs
  <2>3. m \in CMoves(b, <<Head(k)>> \o Tail(k), h, r)
    BY <2>2
  <2>4. CASE TurnFrame(b, Head(k), Head(l), h)
    <3>1. Head(k).part = "turn"
      BY <2>4, TurnFrameIs
    <3>2. Outside(Head(k).of, Tail(k))
      BY <2>1, <3>1
    <3>3. Reply(b, <<Head(l)>> \o Tail(l), Extra(r), r, m) /\ m.store = h
      BY <2>1, <2>3, <2>4, <3>2, TurnReply
    <3>4. QED
      BY <2>2, <3>3
  <2>5. CASE SameFrame(b, Head(k)) /\ Head(k) = Head(l)
    <3> DEFINE s == Head(k)
               n == s.of
    <3>1. /\ n \in 1 .. Len(b) /\ s = Part(s.part, n)
          /\ s.part \in {"statement", "init", "step", "test", "turn"}
          /\ Kind(b, s) = IF s.part = "statement" THEN b[n].kind ELSE s.part
      BY <2>5, SameFrameIs
    <3>2. CASE Kind(b, s) = "for-in"
      <4>1. s.part = "statement" /\ b[n].kind = "for-in" /\ s = Part("statement", n)
        BY <3>1, <3>2
      <4>2. Outside(n, Tail(k))
        BY <2>1, <4>1
      <4>3. m \in CMoves(b, <<Part("statement", n)>> \o Tail(k), h, r)
        BY <2>3, <4>1
      <4> HIDE DEF n
      <4>4. Reply(b, <<Part("statement", n)>> \o Tail(l), Extra(r), r, m) /\ m.store = h
        BY <2>1, <3>1, <4>1, <4>2, <4>3, ForInReply
      <4>5. l = <<Part("statement", n)>> \o Tail(l)
        BY <2>2, <2>5, <4>1
      <4>6. QED
        BY <4>4, <4>5
    <3>3. CASE Kind(b, s) = "branch"
      <4>1. s.part = "statement" /\ b[n].kind = "branch" /\ s = Part("statement", n)
        BY <3>1, <3>3
      <4>2. m \in CMoves(b, <<Part("statement", n)>> \o Tail(k), h, r)
        BY <2>3, <4>1
      <4> HIDE DEF n
      <4>3. Reply(b, <<Part("statement", n)>> \o Tail(l), Extra(r), r, m) /\ m.store = h
        BY <2>1, <3>1, <4>1, <4>2, BranchReply
      <4>4. l = <<Part("statement", n)>> \o Tail(l)
        BY <2>2, <2>5, <4>1
      <4>5. QED
        BY <4>3, <4>4
    <3>4. CASE Kind(b, s) \notin {"for-in", "branch"}
      <4>1. Reply(b, <<s>> \o Tail(l), Extra(r), r, m) /\ m.store = h
        BY <2>1, <2>3, <2>5, <3>4, SharedReply
      <4>2. QED
        BY <2>2, <2>5, <4>1
    <3>5. QED
      BY <3>2, <3>3, <3>4
  <2>6. QED
    BY <2>1, <2>4, <2>5 DEF DeepFrame
<1>4. QED
  BY <1>2, <1>3

LEMMA InForInReply ==
  ASSUME NEW b \in Bodies, NEW n \in 1 .. Len(b), NEW cc, NEW ss,
         NEW k, NEW l, NEW h, NEW e, Deep(b, k, l, h, e), InForIn(b, n, cc, ss, k, l, h), NEW r, HiddenOK(h),
         NEW m \in CMoves(b, cc, h, r)
  PROVE  Reply(b, ss, e, r, m) /\ HiddenOK(m.store)
<1>1. b[n].kind = "for-in" /\ Outside(n, k)
  BY DEF InForIn
<1>2. CASE BeforeSource(n, cc, ss, k, l)
  <2>1. cc = <<Part("let_src", n)>> \o (<<Part("for", n)>> \o k) /\ ss = <<Part("statement", n)>> \o l
    BY <1>2 DEF BeforeSource
  <2>2. m \in CMoves(b, <<Part("let_src", n)>> \o (<<Part("for", n)>> \o k), h, r)
    BY <2>1
  <2>3. Reply(b, <<Part("statement", n)>> \o l, e, r, m) /\ HiddenOK(m.store)
    BY <1>1, <2>2, SourceReply
  <2>4. QED
    BY <2>1, <2>3
<1>3. CASE ~BeforeSource(n, cc, ss, k, l)
  <2>1. PICK len \in 0 .. MaxLen :
          /\ Holds(h, "src", n, len)
          /\ BeforeLoop(n, cc, ss, k, l, len) \/ \E i \in 0 .. len : InLoop(b, n, cc, ss, k, l, h, len, i)
    BY <1>3 DEF InForIn
  <2>2. CASE BeforeLoop(n, cc, ss, k, l, len)
    BY <1>1, <2>1, <2>2, LoopReply
  <2>3. CASE \E i \in 0 .. len : InLoop(b, n, cc, ss, k, l, h, len, i)
    <3>1. PICK i \in 0 .. len : InLoop(b, n, cc, ss, k, l, h, len, i)
      BY <2>3
    <3>2. ss = <<Turns(n, i, len)>> \o l
      BY <3>1 DEF InLoop
    <3>3. CASE cc = <<Part("test", n)>> \o k /\ Holds(h, "idx", n, i)
      <4>1. m \in CMoves(b, <<Part("test", n)>> \o k, h, r)
        BY <3>3
      <4>2. Reply(b, <<Turns(n, i, len)>> \o l, e, r, m) /\ m.store = h
        BY <1>1, <2>1, <3>3, <4>1, TestReply
      <4>3. QED
        BY <3>2, <4>2
    <3>4. CASE cc = <<Part("next_idx", n)>> \o (<<Part("test", n)>> \o k) /\ i > 0 /\ Holds(h, "idx", n, i - 1)
      <4>1. m \in CMoves(b, <<Part("next_idx", n)>> \o (<<Part("test", n)>> \o k), h, r) /\ i \in 1 .. len
        BY <3>4
      <4>2. Reply(b, <<Turns(n, i, len)>> \o l, e, r, m) /\ HiddenOK(m.store)
        BY <1>1, <2>1, <3>4, <4>1, NextReply
      <4>3. QED
        BY <3>2, <4>2
    <3>5. CASE /\ cc = <<Part("let_element", n)>> \o (Block(b, n, 1) \o (<<Part("turn", n)>> \o k))
               /\ i < len /\ Holds(h, "idx", n, i)
      <4>1. m \in CMoves(b, <<Part("let_element", n)>> \o (Block(b, n, 1) \o (<<Part("turn", n)>> \o k)), h, r)
        BY <3>5
      <4>2. Reply(b, <<Turns(n, i, len)>> \o l, e, r, m) /\ m.store = h
        BY <1>1, <2>1, <3>5, <4>1, ElementReply
      <4>3. QED
        BY <3>2, <4>2
    <3>6. QED
      BY <3>1, <3>3, <3>4, <3>5 DEF InLoop
  <2>4. QED
    BY <2>1, <2>2, <2>3
<1>4. QED
  BY <1>2, <1>3

LEMMA InBranchReply ==
  ASSUME NEW b \in Bodies, NEW n \in 1 .. Len(b), NEW cc, NEW ss,
         NEW k, NEW l, NEW h, NEW e, Deep(b, k, l, h, e), InBranch(b, n, cc, ss, k, l, h), NEW r, HiddenOK(h),
         NEW m \in CMoves(b, cc, h, r)
  PROVE  Reply(b, ss, e, r, m) /\ HiddenOK(m.store)
<1>1. b[n].kind = "branch"
  BY DEF InBranch
<1>2. CASE BeforeSubject(n, cc, ss, k, l)
  <2>1. cc = <<Part("let_val", n)>> \o (<<Case(n, 1, 1)>> \o k) /\ ss = <<Part("statement", n)>> \o l
    BY <1>2 DEF BeforeSubject
  <2>2. m \in CMoves(b, <<Part("let_val", n)>> \o (<<Case(n, 1, 1)>> \o k), h, r)
    BY <2>1
  <2>3. Reply(b, <<Part("statement", n)>> \o l, e, r, m) /\ HiddenOK(m.store)
    BY <1>1, <2>2, SubjectReply
  <2>4. QED
    BY <2>1, <2>3
<1>3. CASE AtValue(b, n, cc, ss, k, l, h)
  <2>1. PICK x \in Values, i \in 1 .. Len(b[n].sizes) : \E j \in 1 .. b[n].sizes[i] :
          cc = <<Case(n, i, j)>> \o k /\ ss = <<Compare(n, x, i, j)>> \o l /\ Holds(h, "val", n, x)
    BY <1>3 DEF AtValue
  <2>2. PICK j \in 1 .. b[n].sizes[i] :
          cc = <<Case(n, i, j)>> \o k /\ ss = <<Compare(n, x, i, j)>> \o l /\ Holds(h, "val", n, x)
    BY <2>1
  <2>3. m \in CMoves(b, <<Case(n, i, j)>> \o k, h, r)
    BY <2>2
  <2>4. Reply(b, <<Compare(n, x, i, j)>> \o l, e, r, m) /\ m.store = h
    BY <1>1, <2>2, <2>3, ValueReply
  <2>5. QED
    BY <2>2, <2>4
<1>4. QED
  BY <1>2, <1>3 DEF InBranch

LEMMA AlignedStep ==
  ASSUME NEW b \in Bodies, NEW cc, NEW ss, NEW h, NEW r, Aligned(b, cc, ss, h, Extra(r)), HiddenOK(h),
         NEW m \in CMoves(b, cc, h, r),
         cc # <<>> /\ Kind(b, Head(cc)) \in {"break", "continue"} => Innermost(Tail(cc)) > 0,
         cc # <<>> /\ Head(cc).part \in {"statement", "turn"} => Outside(Head(cc).of, Tail(cc))
  PROVE  Reply(b, ss, Extra(r), r, m) /\ HiddenOK(m.store)
<1>1. cc # Ended
  BY EndedHasNoMove
<1>2. PICK k, l \in Stack :
        /\ Deep(b, k, l, h, Extra(r))
        /\ \/ cc = k /\ ss = l
           \/ \E n \in 1 .. Len(b) : InForIn(b, n, cc, ss, k, l, h) \/ InBranch(b, n, cc, ss, k, l, h)
  BY <1>1 DEF Aligned
<1>3. CASE cc = k /\ ss = l
  <2>1. m \in CMoves(b, k, h, r)
    BY <1>3
  <2>2. /\ k # <<>> /\ Kind(b, Head(k)) \in {"break", "continue"} => Innermost(Tail(k)) > 0
        /\ k # <<>> /\ Head(k).part \in {"statement", "turn"} => Outside(Head(k).of, Tail(k))
    BY <1>3
  <2>3. Reply(b, l, Extra(r), r, m) /\ HiddenOK(m.store)
    BY <1>2, <2>1, <2>2, DeepReply
  <2>4. QED
    BY <1>3, <2>3
<1>4. CASE \E n \in 1 .. Len(b) : InForIn(b, n, cc, ss, k, l, h) \/ InBranch(b, n, cc, ss, k, l, h)
  <2>1. PICK n \in 1 .. Len(b) : InForIn(b, n, cc, ss, k, l, h) \/ InBranch(b, n, cc, ss, k, l, h)
    BY <1>4
  <2>2. CASE InForIn(b, n, cc, ss, k, l, h)
    BY <1>2, <2>2, InForInReply
  <2>3. CASE InBranch(b, n, cc, ss, k, l, h)
    BY <1>2, <2>3, InBranchReply
  <2>4. QED
    BY <2>1, <2>2, <2>3
<1>5. QED
  BY <1>2, <1>3, <1>4

(* An element is taken at an index of the list. *)
LEMMA ElementInList ==
  ASSUME NEW b \in Bodies, NEW cc, NEW ss, NEW h, NEW e, Aligned(b, cc, ss, h, e),
         cc # <<>>, Head(cc).part = "let_element"
  PROVE  h[<<"idx", Head(cc).of>>] < h[<<"src", Head(cc).of>>]
<1>1. cc # Ended
  <2>1. Head(Ended).part = "ended"
    BY DEF Ended, Part, Frame
  <2>2. QED
    BY <2>1
<1>2. PICK k, l \in Stack :
        /\ Deep(b, k, l, h, e)
        /\ \/ cc = k /\ ss = l
           \/ \E n \in 1 .. Len(b) : InForIn(b, n, cc, ss, k, l, h) \/ InBranch(b, n, cc, ss, k, l, h)
  BY <1>1 DEF Aligned
<1>3. CASE cc = k /\ ss = l
  <2>1. CASE l = <<>>
    <3>1. k = <<Return0>>
      BY <1>2, <1>3, <2>1, DeepEmpty
    <3>2. Head(k).part = "return_0"
      BY <3>1, Return0Is
    <3>3. QED
      BY <1>3, <3>2
  <2>2. CASE l # <<>>
    <3>1. DeepFrame(b, Head(k), Head(l), h)
      BY <1>2, <2>2, DeepFirst
    <3>2. Head(k).part # "let_element"
      BY <3>1, SameFrameIs, TurnFrameIs DEF DeepFrame
    <3>3. QED
      BY <1>3, <3>2
  <2>3. QED
    BY <2>1, <2>2
<1>4. ASSUME NEW n \in 1 .. Len(b), InForIn(b, n, cc, ss, k, l, h) \/ InBranch(b, n, cc, ss, k, l, h)
      PROVE  h[<<"idx", Head(cc).of>>] < h[<<"src", Head(cc).of>>]
  <2>1. n \in Nat
    BY BodyIs
  <2>2. ASSUME NEW f \in Frames, NEW z \in Stack, cc = <<f>> \o z
        PROVE  f.part = "let_element" /\ Head(cc) = f
    BY <2>2, FirstIs
  <2>3. ASSUME NEW p \in Parts \ {"let_element"}, NEW z \in Stack, cc = <<Part(p, n)>> \o z
        PROVE  FALSE
    BY <2>1, <2>2, <2>3, PartIsFrame, PartFields
  <2>4. ASSUME NEW i \in Int, NEW j \in Int, NEW z \in Stack, cc = <<Case(n, i, j)>> \o z
        PROVE  FALSE
    BY <2>1, <2>2, <2>4, PairIsFrame, CaseFields
  <2>5. /\ \A p \in Parts : <<Part(p, n)>> \o k \in Stack
        /\ <<Case(n, 1, 1)>> \o k \in Stack
    <3>1. \A i, j \in Int : Case(n, i, j) \in Frames
      BY <2>1, PairIsFrame
    <3>2. Case(n, 1, 1) \in Frames
      BY <3>1
    <3>3. <<Case(n, 1, 1)>> \o k \in Stack
      BY <3>2, FirstIs
    <3>4. QED
      BY <2>1, <3>3, PartIsFrame, FirstIs
  <2>6. CASE InBranch(b, n, cc, ss, k, l, h)
    <3>1. ~BeforeSubject(n, cc, ss, k, l)
      BY <2>3, <2>5 DEF BeforeSubject, Parts
    <3>2. ~AtValue(b, n, cc, ss, k, l, h)
      <4>1. SUFFICES ASSUME AtValue(b, n, cc, ss, k, l, h)
                     PROVE  FALSE
        OBVIOUS
      <4>2. PICK x \in Values, i \in 1 .. Len(b[n].sizes) : \E j \in 1 .. b[n].sizes[i] : cc = <<Case(n, i, j)>> \o k
        BY <4>1 DEF AtValue
      <4>3. PICK j \in 1 .. b[n].sizes[i] : cc = <<Case(n, i, j)>> \o k
        BY <4>2
      <4>4. QED
        BY <4>3, <2>4
    <3>3. QED
      BY <2>6, <3>1, <3>2 DEF InBranch
  <2>7. CASE InForIn(b, n, cc, ss, k, l, h)
    <3>1. ~BeforeSource(n, cc, ss, k, l)
      BY <2>3, <2>5 DEF BeforeSource, Parts
    <3>2. PICK len \in 0 .. MaxLen :
            /\ Holds(h, "src", n, len)
            /\ BeforeLoop(n, cc, ss, k, l, len) \/ \E i \in 0 .. len : InLoop(b, n, cc, ss, k, l, h, len, i)
      BY <2>7, <3>1 DEF InForIn
    <3>3. ~BeforeLoop(n, cc, ss, k, l, len)
      BY <2>3, <2>5 DEF BeforeLoop, Parts
    <3>4. PICK i \in 0 .. len : InLoop(b, n, cc, ss, k, l, h, len, i)
      BY <3>2, <3>3
    <3>5. /\ cc = <<Part("let_element", n)>> \o (Block(b, n, 1) \o (<<Part("turn", n)>> \o k))
          /\ i < len /\ Holds(h, "idx", n, i)
      BY <3>4, <2>3, <2>5 DEF InLoop, Parts
    <3>6. Block(b, n, 1) \o (<<Part("turn", n)>> \o k) \in Stack
      <4>1. b[n].kind = "for-in"
        BY <2>7 DEF InForIn
      <4>2. Block(b, n, 1) \in Stack
        BY <4>1, BlockNumbers, BlockIs DEF Loops
      <4>3. <<Part("turn", n)>> \o k \in Stack
        BY <2>5 DEF Parts
      <4>4. QED
        BY <4>2, <4>3, Pushed
    <3>7. Part("let_element", n) \in Frames /\ Part("let_element", n).of = n
      BY <2>1, PartIsFrame, PartFields DEF Parts
    <3>8. Head(cc).of = n
      BY <3>5, <3>6, <3>7, <2>2
    <3>9. QED
      BY <3>2, <3>5, <3>8 DEF Holds
  <2>8. QED
    BY <1>4, <2>6, <2>7
<1>5. QED
  BY <1>2, <1>3, <1>4

-------------------------------------------------------------------------------
(* The source machine goes one way: it has one silent move, or an event     *)
(* decides where it goes.                                                   *)

Decided(S) ==
  \A m1, m2 \in S : /\ m1.event = Silent => m2.event = Silent /\ m2.rest = m1.rest
                    /\ m1.event = m2.event => m1.rest = m2.rest

LEMMA OneMoveDecides ==
  ASSUME NEW S, NEW m, S = {m}
  PROVE  Decided(S)
BY DEF Decided

LEMMA SilentDecides ==
  ASSUME NEW S, NEW x, \A m \in S : m.event = Silent /\ m.rest = x
  PROVE  Decided(S)
BY DEF Decided

LEMMA EventsDecide ==
  ASSUME NEW S, \A m \in S : m.event # Silent,
         \A m1, m2 \in S : m1.event = m2.event => m1.rest = m2.rest
  PROVE  Decided(S)
BY DEF Decided

LEMMA LastIs ==
  /\ \A x, y, u, v : <<x, y, u>> = <<x, y, v>> => u = v
  /\ \A x, y, z, u, v : <<x, y, z, u>> = <<x, y, z, v>> => u = v
OBVIOUS

(* The two ways of a test *)
Ways(S, T, x1, x2) ==
  \A m \in S : \E z \in T : m.event = z.event /\ m.rest = IF z.way = 1 THEN x1 ELSE x2

LEMMA WaysDecide ==
  ASSUME NEW b, NEW n, NEW S, NEW x1, NEW x2, Ways(S, Tests(b, n, <<>>), x1, x2)
  PROVE  Decided(S)
<1>1. CASE b[n].kind = "for-in"
  <2>1. \A z \in Tests(b, n, <<>>) : z.event = Silent /\ z.way = IF InList(n, <<>>) THEN 1 ELSE 2
    BY <1>1, TestsAre
  <2>2. \A m \in S : m.event = Silent /\ m.rest = IF InList(n, <<>>) THEN x1 ELSE x2
    BY <2>1 DEF Ways
  <2>3. QED
    BY <2>2, SilentDecides
<1>2. CASE b[n].kind # "for-in"
  <2>1. \A z \in Tests(b, n, <<>>) : z.event = <<"test", n, z.way>>
    BY <1>2, TestsAre
  <2>2. \A m \in S : \E w : m.event = <<"test", n, w>> /\ m.rest = IF w = 1 THEN x1 ELSE x2
    BY <2>1 DEF Ways
  <2>3. \A m \in S : m.event # Silent
    BY <2>2, EventIs
  <2>4. ASSUME NEW m1 \in S, NEW m2 \in S, m1.event = m2.event
        PROVE  m1.rest = m2.rest
    <3>1. PICK w1 : m1.event = <<"test", n, w1>> /\ m1.rest = IF w1 = 1 THEN x1 ELSE x2
      BY <2>2
    <3>2. PICK w2 : m2.event = <<"test", n, w2>> /\ m2.rest = IF w2 = 1 THEN x1 ELSE x2
      BY <2>2
    <3>3. <<"test", n, w1>> = <<"test", n, w2>>
      BY <2>4, <3>1, <3>2
    <3>4. w1 = w2
      BY <3>3, LastIs
    <3>5. QED
      BY <3>1, <3>2, <3>4
  <2>5. QED
    BY <2>3, <2>4, EventsDecide
<1>3. QED
  BY <1>1, <1>2

LEMMA CoreDecided ==
  ASSUME NEW b, NEW s, NEW k, NEW r
  PROVE  Decided(CoreMoves(b, s, k, <<>>, r))
<1> DEFINE S == CoreMoves(b, s, k, <<>>, r)
           n == s.of
           kind == Kind(b, s)
<1>0. kind = Kind(b, s) /\ n = s.of /\ S = CoreMoves(b, s, k, <<>>, r)
  OBVIOUS
<1> HIDE DEF S, n, kind
<1>1. CASE kind \in {"do", "init", "step", "block", "while", "for", "turn", "break", "continue", "return"}
  <2>1. \E m : S = {m}
    BY <1>0, <1>1 DEF CoreMoves
  <2>2. QED
    BY <1>0, <2>1, OneMoveDecides
<1>2. CASE kind \in {"if", "test"}
  <2>1. CASE kind = "if"
    <3> DEFINE x1 == Block(b, n, 1) \o k
               x2 == Block(b, n, 2) \o k
    <3>1. ASSUME NEW m \in S
          PROVE  \E z \in Tests(b, n, <<>>) : m.event = z.event /\ m.rest = IF z.way = 1 THEN x1 ELSE x2
      <4>1. PICK z \in Tests(b, n, <<>>) : m = Move(z.event, Block(b, n, z.way) \o k, <<>>)
        BY <1>0, <2>1 DEF CoreMoves
      <4>2. m.event = z.event /\ m.rest = Block(b, n, z.way) \o k
        BY <4>1 DEF Move
      <4>3. z.way \in {1, 2}
        BY TestsAre
      <4>4. m.rest = IF z.way = 1 THEN x1 ELSE x2
        BY <4>2, <4>3
      <4>5. QED
        BY <4>2, <4>4
    <3> HIDE DEF x1, x2
    <3>2. Ways(S, Tests(b, n, <<>>), x1, x2)
      BY <3>1 DEF Ways
    <3>3. Decided(S)
      BY <3>2, WaysDecide
    <3>4. QED
      BY <1>0, <3>3
  <2>2. CASE kind = "test"
    <3> DEFINE x1 == (LoopOf(b, n).body \o <<Part("turn", n)>>) \o k
               x2 == <<>> \o k
    <3>1. ASSUME NEW m \in S
          PROVE  \E z \in Tests(b, n, <<>>) : m.event = z.event /\ m.rest = IF z.way = 1 THEN x1 ELSE x2
      <4>1. PICK z \in Tests(b, n, <<>>) :
              m = Move(z.event, (IF z.way = 1 THEN LoopOf(b, n).body \o <<Part("turn", n)>> ELSE <<>>) \o k, <<>>)
        BY <1>0, <2>2 DEF CoreMoves
      <4>2. m.event = z.event
            /\ m.rest = (IF z.way = 1 THEN LoopOf(b, n).body \o <<Part("turn", n)>> ELSE <<>>) \o k
        BY <4>1 DEF Move
      <4>3. m.rest = IF z.way = 1 THEN x1 ELSE x2
        BY <4>2
      <4>4. QED
        BY <4>2, <4>3
    <3> HIDE DEF x1, x2
    <3>2. Ways(S, Tests(b, n, <<>>), x1, x2)
      BY <3>1 DEF Ways
    <3>3. Decided(S)
      BY <3>2, WaysDecide
    <3>4. QED
      BY <1>0, <3>3
  <2>3. QED
    BY <1>2, <2>1, <2>2
<1>3. CASE kind \notin {"do", "init", "step", "block", "while", "for", "turn", "break", "continue", "return", "if", "test"}
  <2>1. S = {}
    BY <1>0, <1>3 DEF CoreMoves
  <2>2. Decided(S)
    BY <2>1 DEF Decided
  <2>3. QED
    BY <1>0, <2>2
<1>4. QED
  BY <1>1, <1>2, <1>3

LEMMA OneWay ==
  ASSUME NEW b, NEW ss, NEW r
  PROVE  Decided(SourceMoves(b, ss, r))
<1>1. CASE ss = <<>>
  BY <1>1, OneMoveDecides DEF SourceMoves
<1>2. CASE ss # <<>>
  <2> DEFINE s == Head(ss)
             k == Tail(ss)
             n == s.of
             kind == Kind(b, s)
             S == SourceMoves(b, ss, r)
  <2>0. s = Head(ss) /\ k = Tail(ss) /\ kind = Kind(b, Head(ss)) /\ n = Head(ss).of /\ S = SourceMoves(b, ss, r)
    OBVIOUS
  <2> HIDE DEF s, k, n, kind, S
  <2>1. CASE kind = "for-in"
    <3>1. S = {Move(<<"source", n, x>>, <<Turns(n, 0, x)>> \o k, <<>>) : x \in 0 .. MaxLen}
      BY <1>2, <2>0, <2>1 DEF SourceMoves
    <3>2. \A m \in S : \E x : m.event = <<"source", n, x>> /\ m.rest = <<Turns(n, 0, x)>> \o k
      BY <3>1 DEF Move
    <3>3. Decided(S)
      <4>1. \A m \in S : m.event # Silent
        BY <3>2, EventIs
      <4>2. ASSUME NEW m1 \in S, NEW m2 \in S, m1.event = m2.event
            PROVE  m1.rest = m2.rest
        <5>1. PICK x1 : m1.event = <<"source", n, x1>> /\ m1.rest = <<Turns(n, 0, x1)>> \o k
          BY <3>2
        <5>2. PICK x2 : m2.event = <<"source", n, x2>> /\ m2.rest = <<Turns(n, 0, x2)>> \o k
          BY <3>2
        <5>3. <<"source", n, x1>> = <<"source", n, x2>>
          BY <4>2, <5>1, <5>2
        <5>4. x1 = x2
          BY <5>3, LastIs
        <5>5. QED
          BY <5>1, <5>2, <5>4
      <4>3. QED
        BY <4>1, <4>2, EventsDecide
    <3>4. QED
      BY <2>0, <3>3
  <2>2. CASE kind = "turn" /\ s.at # <<>>
    <3>1. \E m : S = {m}
      BY <1>2, <2>0, <2>2 DEF SourceMoves
    <3>2. QED
      BY <2>0, <3>1, OneMoveDecides
  <2>3. CASE kind = "branch"
    <3>1. S = {Move(<<"subject", n, x>>, <<Compare(n, x, 1, 1)>> \o k, <<>>) : x \in Values}
      BY <1>2, <2>0, <2>3 DEF SourceMoves
    <3>2. \A m \in S : \E x : m.event = <<"subject", n, x>> /\ m.rest = <<Compare(n, x, 1, 1)>> \o k
      BY <3>1 DEF Move
    <3>3. Decided(S)
      <4>1. \A m \in S : m.event # Silent
        BY <3>2, EventIs
      <4>2. ASSUME NEW m1 \in S, NEW m2 \in S, m1.event = m2.event
            PROVE  m1.rest = m2.rest
        <5>1. PICK x1 : m1.event = <<"subject", n, x1>> /\ m1.rest = <<Compare(n, x1, 1, 1)>> \o k
          BY <3>2
        <5>2. PICK x2 : m2.event = <<"subject", n, x2>> /\ m2.rest = <<Compare(n, x2, 1, 1)>> \o k
          BY <3>2
        <5>3. <<"subject", n, x1>> = <<"subject", n, x2>>
          BY <4>2, <5>1, <5>2
        <5>4. x1 = x2
          BY <5>3, LastIs
        <5>5. QED
          BY <5>1, <5>2, <5>4
      <4>3. QED
        BY <4>1, <4>2, EventsDecide
    <3>4. QED
      BY <2>0, <3>3
  <2>4. CASE kind = "compare"
    <3> DEFINE y == s.at[1]
               w == <<s.at[2], s.at[3]>>
               u == Block(b, n, s.at[2])
               v == Unequal(b, n, s.at[1], s.at[2], s.at[3])
    <3>1. \A m \in S : \E x : m = Move(<<"case", n, w, x>>, (IF x = y THEN u ELSE v) \o k, <<>>)
      BY <1>2, <2>0, <2>4 DEF SourceMoves
    <3> HIDE DEF y, w, u, v
    <3>2. \A m \in S : \E x : m.event = <<"case", n, w, x>> /\ m.rest = (IF x = y THEN u ELSE v) \o k
      BY <3>1 DEF Move
    <3>3. Decided(S)
      <4>1. \A m \in S : m.event # Silent
        BY <3>2, EventIs
      <4>2. ASSUME NEW m1 \in S, NEW m2 \in S, m1.event = m2.event
            PROVE  m1.rest = m2.rest
        <5>1. PICK x1 : m1.event = <<"case", n, w, x1>> /\ m1.rest = (IF x1 = y THEN u ELSE v) \o k
          BY <3>2
        <5>2. PICK x2 : m2.event = <<"case", n, w, x2>> /\ m2.rest = (IF x2 = y THEN u ELSE v) \o k
          BY <3>2
        <5>3. <<"case", n, w, x1>> = <<"case", n, w, x2>>
          BY <4>2, <5>1, <5>2
        <5>4. x1 = x2
          BY <5>3, LastIs
        <5>5. QED
          BY <5>1, <5>2, <5>4
      <4>3. QED
        BY <4>1, <4>2, EventsDecide
    <3>4. QED
      BY <2>0, <3>3
  <2>5. CASE kind \notin {"for-in", "branch", "compare"} /\ ~(kind = "turn" /\ s.at # <<>>)
    <3>1. S = CoreMoves(b, s, k, <<>>, r)
      BY <1>2, <2>0, <2>5 DEF SourceMoves
    <3>2. QED
      BY <2>0, <3>1, CoreDecided
  <2>6. QED
    BY <2>1, <2>2, <2>3, <2>4, <2>5
<1>3. QED
  BY <1>1, <1>2

-------------------------------------------------------------------------------
(* The source machine may be behind: silent moves lead from ss to t. *)

Leads(b, r, ss, t, d, f) ==
  f[0] = ss /\ f[d] = t /\ \A i \in 0 .. d - 1 : Quiet(b, f[i], f[i + 1], r)

Lag(b, r, ss, t) == \E d \in Nat : \E f : Leads(b, r, ss, t, d, f)

LEMMA LagNone ==
  ASSUME NEW b, NEW r, NEW ss
  PROVE  Lag(b, r, ss, ss)
<1> DEFINE f == [i \in {0} |-> ss]
<1>1. Leads(b, r, ss, ss, 0, f)
  BY DEF Leads
<1> HIDE DEF f
<1>2. QED
  BY <1>1 DEF Lag

LEMMA LagMore ==
  ASSUME NEW b, NEW r, NEW ss, NEW t, NEW u, Lag(b, r, ss, t), Quiet(b, t, u, r)
  PROVE  Lag(b, r, ss, u)
<1>1. PICK d \in Nat : \E f : Leads(b, r, ss, t, d, f)
  BY DEF Lag
<1>2. PICK f : Leads(b, r, ss, t, d, f)
  BY <1>1
<1> DEFINE g == [i \in 0 .. d + 1 |-> IF i <= d THEN f[i] ELSE u]
<1>3. g[0] = ss /\ g[d + 1] = u
  BY <1>2 DEF Leads
<1>4. ASSUME NEW i \in 0 .. (d + 1) - 1
      PROVE  Quiet(b, g[i], g[i + 1], r)
  <2>1. CASE i = d
    <3>1. g[i] = t /\ g[i + 1] = u
      BY <1>2, <2>1 DEF Leads
    <3>2. QED
      BY <3>1
  <2>2. CASE i # d
    <3>1. i \in 0 .. d - 1 /\ i <= d /\ i + 1 <= d /\ i \in 0 .. d + 1 /\ i + 1 \in 0 .. d + 1
      BY <2>2
    <3>2. g[i] = f[i] /\ g[i + 1] = f[i + 1]
      BY <3>1
    <3>3. Quiet(b, f[i], f[i + 1], r)
      BY <1>2, <3>1 DEF Leads
    <3>4. QED
      BY <3>2, <3>3
  <2>3. QED
    BY <2>1, <2>2
<1> HIDE DEF g
<1>5. Leads(b, r, ss, u, d + 1, g)
  BY <1>3, <1>4 DEF Leads
<1>6. d + 1 \in Nat
  OBVIOUS
<1>7. QED
  BY <1>5, <1>6 DEF Lag

LEMMA LagLess ==
  ASSUME NEW b, NEW r, NEW ss, NEW t, Lag(b, r, ss, t), ss # t
  PROVE  \E u : Quiet(b, ss, u, r) /\ Lag(b, r, u, t)
<1>1. PICK d \in Nat : \E f : Leads(b, r, ss, t, d, f)
  BY DEF Lag
<1>2. PICK f : Leads(b, r, ss, t, d, f)
  BY <1>1
<1>3. f[0] = ss /\ f[d] = t /\ \A i \in 0 .. d - 1 : Quiet(b, f[i], f[i + 1], r)
  BY <1>2 DEF Leads
<1>4. d # 0
  BY <1>3
<1>5. Quiet(b, ss, f[1], r)
  <2>1. 0 \in 0 .. d - 1 /\ 0 + 1 = 1
    BY <1>4
  <2>2. Quiet(b, f[0], f[0 + 1], r)
    BY <1>3, <2>1
  <2>3. QED
    BY <1>3, <2>1, <2>2
<1> DEFINE g == [i \in 0 .. d - 1 |-> f[i + 1]]
<1>6. g[0] = f[1] /\ g[d - 1] = t
  BY <1>3, <1>4
<1>7. ASSUME NEW i \in 0 .. (d - 1) - 1
      PROVE  Quiet(b, g[i], g[i + 1], r)
  <2>1. i \in 0 .. d - 1 /\ i + 1 \in 0 .. d - 1
    BY <1>4
  <2>2. g[i] = f[i + 1] /\ g[i + 1] = f[(i + 1) + 1]
    BY <2>1
  <2>3. QED
    BY <2>1, <2>2, <1>3
<1> HIDE DEF g
<1>8. Leads(b, r, f[1], t, d - 1, g)
  BY <1>6, <1>7 DEF Leads
<1>9. d - 1 \in Nat
  BY <1>4
<1>10. Lag(b, r, f[1], t)
  BY <1>8, <1>9 DEF Lag
<1>11. QED
  BY <1>5, <1>10

(* The invariant of the two machines: once the source machine has made its  *)
(* silent moves, and that of the event it owes, the two are aligned.        *)
Owes(b, r, t, ow, cc, h) ==
  IF ow = Silent THEN Aligned(b, cc, t, h, Extra(r))
  ELSE \E mv \in SourceMoves(b, t, r) : mv.event = ow /\ Aligned(b, cc, mv.rest, h, Extra(r))

Matched(b, r, ss, ow, cc, h) == \E t : Lag(b, r, ss, t) /\ Owes(b, r, t, ow, cc, h)

LEMMA MatchedC ==
  ASSUME NEW b \in Bodies, NEW r, NEW ss, NEW cc, NEW h, Matched(b, r, ss, Silent, cc, h), HiddenOK(h),
         NEW m \in CMoves(b, cc, h, r),
         cc # <<>> /\ Kind(b, Head(cc)) \in {"break", "continue"} => Innermost(Tail(cc)) > 0,
         cc # <<>> /\ Head(cc).part \in {"statement", "turn"} => Outside(Head(cc).of, Tail(cc))
  PROVE  Matched(b, r, ss, m.event, m.rest, m.store) /\ HiddenOK(m.store)
<1>1. PICK t : Lag(b, r, ss, t) /\ Aligned(b, cc, t, h, Extra(r))
  BY DEF Matched, Owes
<1>2. Reply(b, t, Extra(r), r, m) /\ HiddenOK(m.store)
  BY <1>1, AlignedStep
<1>3. CASE m.event = Silent
  <2>1. CASE Aligned(b, m.rest, t, m.store, Extra(r))
    <3>1. Owes(b, r, t, m.event, m.rest, m.store)
      BY <1>3, <2>1 DEF Owes
    <3>2. QED
      BY <1>1, <1>2, <3>1 DEF Matched
  <2>2. CASE ~Aligned(b, m.rest, t, m.store, Extra(r))
    <3>1. PICK u : Quiet(b, t, u, r) /\ Aligned(b, m.rest, u, m.store, Extra(r))
      BY <1>2, <1>3, <2>2 DEF Reply
    <3>2. Lag(b, r, ss, u)
      BY <1>1, <3>1, LagMore
    <3>3. Owes(b, r, u, m.event, m.rest, m.store)
      BY <1>3, <3>1 DEF Owes
    <3>4. QED
      BY <1>2, <3>2, <3>3 DEF Matched
  <2>3. QED
    BY <2>1, <2>2
<1>4. CASE m.event # Silent
  <2>1. Owes(b, r, t, m.event, m.rest, m.store)
    BY <1>2, <1>4 DEF Reply, Owes
  <2>2. QED
    BY <1>1, <1>2, <2>1 DEF Matched
<1>5. QED
  BY <1>3, <1>4

LEMMA MatchedMoves ==
  ASSUME NEW b, NEW r, NEW ss, NEW cc, NEW h, NEW ow, ow # Silent, Matched(b, r, ss, ow, cc, h)
  PROVE  /\ \E m \in SourceMoves(b, ss, r) : m.event \in {Silent, ow}
         /\ \A m \in SourceMoves(b, ss, r) :
              /\ m.event = ow => Matched(b, r, m.rest, Silent, cc, h)
              /\ m.event = Silent => Matched(b, r, m.rest, ow, cc, h)
<1>1. PICK t : Lag(b, r, ss, t) /\ Owes(b, r, t, ow, cc, h)
  BY DEF Matched
<1>2. PICK mv \in SourceMoves(b, t, r) : mv.event = ow /\ Aligned(b, cc, mv.rest, h, Extra(r))
  BY <1>1 DEF Owes
<1>3. Decided(SourceMoves(b, ss, r))
  BY OneWay
<1>4. CASE ss = t
  <2>1. ASSUME NEW m \in SourceMoves(b, ss, r), m.event = ow
        PROVE  Matched(b, r, m.rest, Silent, cc, h)
    <3>1. m.rest = mv.rest
      BY <1>2, <1>3, <1>4, <2>1 DEF Decided
    <3>2. Owes(b, r, m.rest, Silent, cc, h)
      BY <1>2, <3>1 DEF Owes
    <3>3. Lag(b, r, m.rest, m.rest)
      BY LagNone
    <3>4. QED
      BY <3>2, <3>3 DEF Matched
  <2>2. \A m \in SourceMoves(b, ss, r) : m.event # Silent
    BY <1>2, <1>3, <1>4 DEF Decided
  <2>3. QED
    BY <1>2, <1>4, <2>1, <2>2
<1>5. CASE ss # t
  <2>1. PICK u : Quiet(b, ss, u, r) /\ Lag(b, r, u, t)
    BY <1>1, <1>5, LagLess
  <2>2. PICK m0 \in SourceMoves(b, ss, r) : m0.event = Silent /\ m0.rest = u
    BY <2>1 DEF Quiet
  <2>3. \A m \in SourceMoves(b, ss, r) : m.event = Silent /\ m.rest = u
    BY <1>3, <2>2 DEF Decided
  <2>4. Matched(b, r, u, ow, cc, h)
    BY <1>1, <2>1 DEF Matched
  <2>5. QED
    BY <2>2, <2>3, <2>4
<1>6. QED
  BY <1>4, <1>5

-------------------------------------------------------------------------------
(* What a move of the C machine makes of its stack *)

NotEnd(event) == event = Silent \/ event[1] # "end"

LEMMA NotEndIs ==
  /\ NotEnd(Silent)
  /\ \A a, x : a # "end" => NotEnd(<<a, x>>)
  /\ \A a, x, y : a # "end" => NotEnd(<<a, x, y>>)
  /\ \A a, x, y, w : a # "end" => NotEnd(<<a, x, y, w>>)
BY DEF NotEnd

Straight == {"do", "init", "step", "let_src", "let_idx", "next_idx", "let_element"}

LEMMA PlainRest ==
  ASSUME NEW b, NEW s \in Frames, Kind(b, s) \in Straight, NEW z \in Stack, NEW h, NEW r,
         NEW m \in CMoves(b, <<s>> \o z, h, r)
  PROVE  m.rest = z /\ NotEnd(m.event)
<1>1. m \in HiddenMoves(b, s, z, h, r)
  BY CMovesAre
<1>2. CASE Kind(b, s) \in {"do", "init", "step"}
  <2>1. m = Move(<<Kind(b, s), s.of>>, z, h)
    BY <1>1, <1>2 DEF HiddenMoves, CoreMoves
  <2>2. m.rest = z /\ m.event = <<Kind(b, s), s.of>>
    BY <2>1 DEF Move
  <2>3. QED
    BY <1>2, <2>2, NotEndIs
<1>3. CASE Kind(b, s) = "let_src"
  <2>1. PICK x : m = Move(<<"source", s.of, x>>, z, Set(h, "src", s.of, x))
    BY <1>1, <1>3 DEF HiddenMoves
  <2>2. m.rest = z /\ m.event = <<"source", s.of, x>>
    BY <2>1 DEF Move
  <2>3. QED
    BY <2>2, NotEndIs
<1>4. CASE Kind(b, s) = "let_idx"
  <2>1. m = Move(Silent, z, Set(h, "idx", s.of, 0))
    BY <1>1, <1>4 DEF HiddenMoves
  <2>2. QED
    BY <2>1, NotEndIs DEF Move
<1>5. CASE Kind(b, s) = "next_idx"
  <2>1. m = Move(Silent, z, Set(h, "idx", s.of, h[<<"idx", s.of>>] + 1))
    BY <1>1, <1>5 DEF HiddenMoves
  <2>2. QED
    BY <2>1, NotEndIs DEF Move
<1>6. CASE Kind(b, s) = "let_element"
  <2>1. m = Move(<<"element", s.of, h[<<"idx", s.of>>]>>, z, h)
    BY <1>1, <1>6 DEF HiddenMoves
  <2>2. m.rest = z /\ m.event = <<"element", s.of, h[<<"idx", s.of>>]>>
    BY <2>1 DEF Move
  <2>3. QED
    BY <2>2, NotEndIs
<1>7. QED
  BY <1>2, <1>3, <1>4, <1>5, <1>6 DEF Straight

LEMMA LetValRest ==
  ASSUME NEW b, NEW s \in Frames, Kind(b, s) = "let_val", NEW z \in Stack, NEW h, NEW r,
         NEW m \in CMoves(b, <<s>> \o z, h, r)
  PROVE  m.rest = z /\ NotEnd(m.event)
<1>1. m \in HiddenMoves(b, s, z, h, r)
  BY CMovesAre
<1>2. PICK x : m = Move(<<"subject", s.of, x>>, z, Set(h, "val", s.of, x))
  BY <1>1 DEF HiddenMoves
<1>3. m.rest = z /\ m.event = <<"subject", s.of, x>>
  BY <1>2 DEF Move
<1>4. QED
  BY <1>3, NotEndIs

LEMMA BlockRest ==
  ASSUME NEW b, NEW s \in Frames, Kind(b, s) = "block", NEW z \in Stack, NEW h, NEW r,
         NEW m \in CMoves(b, <<s>> \o z, h, r)
  PROVE  m.rest = Block(b, s.of, 1) \o z /\ NotEnd(m.event)
<1>1. m \in HiddenMoves(b, s, z, h, r)
  BY CMovesAre
<1>2. m = Move(Silent, Block(b, s.of, 1) \o z, h)
  BY <1>1 DEF HiddenMoves, CoreMoves
<1>3. QED
  BY <1>2, NotEndIs DEF Move

(* One of the two blocks of an if *)
Takes(b, n, z, m) == \E w \in {1, 2} : m.rest = Block(b, n, w) \o z

LEMMA IfRest ==
  ASSUME NEW b, NEW s \in Frames, Kind(b, s) = "if", b[s.of].kind = "if", NEW z \in Stack, NEW h, NEW r,
         NEW m \in CMoves(b, <<s>> \o z, h, r)
  PROVE  Takes(b, s.of, z, m) /\ NotEnd(m.event)
<1>1. m \in HiddenMoves(b, s, z, h, r)
  BY CMovesAre
<1>2. PICK t \in Tests(b, s.of, h) : m = Move(t.event, Block(b, s.of, t.way) \o z, h)
  BY <1>1 DEF HiddenMoves, CoreMoves
<1>3. m.rest = Block(b, s.of, t.way) \o z /\ m.event = t.event
  BY <1>2 DEF Move
<1>4. t.way \in {1, 2} /\ t.event = <<"test", s.of, t.way>>
  BY TestsAre
<1>5. NotEnd(m.event)
  BY <1>3, <1>4, NotEndIs
<1>6. QED
  BY <1>3, <1>4, <1>5 DEF Takes

LEMMA HeaderRest ==
  ASSUME NEW b, NEW s \in Frames, Kind(b, s) \in {"while", "for"}, NEW z \in Stack, NEW h, NEW r,
         NEW m \in CMoves(b, <<s>> \o z, h, r)
  PROVE  m.rest = LoopOf(b, s.of).init \o <<Part("test", s.of)>> \o z /\ NotEnd(m.event)
<1>1. m \in HiddenMoves(b, s, z, h, r)
  BY CMovesAre
<1>2. m = Move(Silent, LoopOf(b, s.of).init \o <<Part("test", s.of)>> \o z, h)
  BY <1>1 DEF HiddenMoves, CoreMoves
<1>3. QED
  BY <1>2, NotEndIs DEF Move

LEMMA TestRest ==
  ASSUME NEW b, NEW s \in Frames, Kind(b, s) = "test", NEW z \in Stack, NEW h, NEW r,
         NEW m \in CMoves(b, <<s>> \o z, h, r)
  PROVE  /\ m.rest = z \/ m.rest = (LoopOf(b, s.of).body \o <<Part("turn", s.of)>>) \o z
         /\ NotEnd(m.event)
<1>1. m \in HiddenMoves(b, s, z, h, r)
  BY CMovesAre
<1>2. PICK t \in Tests(b, s.of, h) :
        m = Move(t.event, (IF t.way = 1 THEN LoopOf(b, s.of).body \o <<Part("turn", s.of)>> ELSE <<>>) \o z, h)
  BY <1>1 DEF HiddenMoves, CoreMoves
<1>3. m.rest = (IF t.way = 1 THEN LoopOf(b, s.of).body \o <<Part("turn", s.of)>> ELSE <<>>) \o z /\ m.event = t.event
  BY <1>2 DEF Move
<1>4. t.event = Silent \/ t.event = <<"test", s.of, t.way>>
  BY TestsAre
<1>5. NotEnd(m.event)
  BY <1>3, <1>4, NotEndIs
<1>6. m.rest = z \/ m.rest = (LoopOf(b, s.of).body \o <<Part("turn", s.of)>>) \o z
  BY <1>3, NonePushed
<1>7. QED
  BY <1>5, <1>6

LEMMA TurnRest ==
  ASSUME NEW b, NEW s \in Frames, Kind(b, s) = "turn", NEW z \in Stack, NEW h, NEW r,
         NEW m \in CMoves(b, <<s>> \o z, h, r)
  PROVE  m.rest = LoopOf(b, s.of).step \o <<Part("test", s.of)>> \o z /\ NotEnd(m.event)
<1>1. m \in HiddenMoves(b, s, z, h, r)
  BY CMovesAre
<1>2. m = Move(Silent, LoopOf(b, s.of).step \o <<Part("test", s.of)>> \o z, h)
  BY <1>1 DEF HiddenMoves, CoreMoves
<1>3. QED
  BY <1>2, NotEndIs DEF Move

LEMMA JumpRest ==
  ASSUME NEW b, NEW s \in Frames, Kind(b, s) \in {"break", "continue"}, NEW z \in Stack, NEW h, NEW r,
         NEW m \in CMoves(b, <<s>> \o z, h, r)
  PROVE  /\ \E i \in {Innermost(z), Innermost(z) + 1} : m.rest = SubSeq(z, i, Len(z))
         /\ NotEnd(m.event)
<1>1. m \in HiddenMoves(b, s, z, h, r)
  BY CMovesAre
<1>2. CASE Kind(b, s) = "break"
  <2>1. m = Move(Silent, SubSeq(z, Innermost(z) + 1, Len(z)), h)
    BY <1>1, <1>2 DEF HiddenMoves, CoreMoves
  <2>2. QED
    BY <2>1, NotEndIs DEF Move
<1>3. CASE Kind(b, s) = "continue"
  <2>1. m = Move(Silent, SubSeq(z, Innermost(z), Len(z)), h)
    BY <1>1, <1>3 DEF HiddenMoves, CoreMoves
  <2>2. QED
    BY <2>1, NotEndIs DEF Move
<1>4. QED
  BY <1>2, <1>3

LEMMA ReturnRest ==
  ASSUME NEW b, NEW s \in Frames, Kind(b, s) = "return", NEW z \in Stack, NEW h, NEW r,
         NEW m \in CMoves(b, <<s>> \o z, h, r)
  PROVE  m.rest = Ended /\ m.event = <<"end", Leaves(b[s.of].gives, r)>>
<1>1. m \in HiddenMoves(b, s, z, h, r)
  BY CMovesAre
<1>2. m = Move(<<"end", Leaves(b[s.of].gives, r)>>, Ended, h)
  BY <1>1 DEF HiddenMoves, CoreMoves
<1>3. QED
  BY <1>2 DEF Move

LEMMA ForInRest ==
  ASSUME NEW b, NEW s \in Frames, Kind(b, s) = "for-in", NEW z \in Stack, NEW h, NEW r,
         NEW m \in CMoves(b, <<s>> \o z, h, r)
  PROVE  m.rest = ParseForIn(s.of) \o z /\ NotEnd(m.event)
<1>1. m \in HiddenMoves(b, s, z, h, r)
  BY CMovesAre
<1>2. m = Move(Silent, ParseForIn(s.of) \o z, h)
  BY <1>1 DEF HiddenMoves
<1>3. QED
  BY <1>2, NotEndIs DEF Move

LEMMA BranchRest ==
  ASSUME NEW b, NEW s \in Frames, Kind(b, s) = "branch", NEW z \in Stack, NEW h, NEW r,
         NEW m \in CMoves(b, <<s>> \o z, h, r)
  PROVE  m.rest = ParseBranch(s.of) \o z /\ NotEnd(m.event)
<1>1. m \in HiddenMoves(b, s, z, h, r)
  BY CMovesAre
<1>2. m = Move(Silent, ParseBranch(s.of) \o z, h)
  BY <1>1 DEF HiddenMoves
<1>3. QED
  BY <1>2, NotEndIs DEF Move

LEMMA CaseRest ==
  ASSUME NEW b, NEW n \in Nat, NEW i \in Int, NEW j \in Int, NEW z \in Stack, NEW h, NEW r,
         NEW m \in CMoves(b, <<Case(n, i, j)>> \o z, h, r)
  PROVE  /\ m.rest = Block(b, n, i) \o z \/ m.rest = CaseElse(b, n, i, j) \o z
         /\ NotEnd(m.event)
<1>1. PICK x \in Values : IsCase(m, b, n, i, j, x, z, h)
  BY FromCase
<1>2. m.event = <<"case", n, <<i, j>>, x>>
      /\ m.rest = (IF x = h[<<"val", n>>] THEN Block(b, n, i) ELSE CaseElse(b, n, i, j)) \o z
  BY <1>1 DEF IsCase
<1>3. NotEnd(m.event)
  BY <1>2, NotEndIs
<1>4. QED
  BY <1>2, <1>3

(* The frames of statement n *)
Own(b, n, f) ==
  \/ f = Part("statement", n)
  \/ b[n].kind = "for-in" /\ f \in {Part(p, n) : p \in {"let_src", "for", "let_idx", "next_idx", "let_element"}}
  \/ b[n].kind = "for" /\ f \in {Part("init", n), Part("step", n)}
  \/ b[n].kind \in Loops /\ f \in {Part("test", n), Part("turn", n)}
  \/ b[n].kind = "branch" /\ f = Part("let_val", n)
  \/ b[n].kind = "branch" /\ \E i \in 1 .. Len(b[n].sizes) : \E j \in 1 .. b[n].sizes[i] : f = Case(n, i, j)

LEMMA OwnIs ==
  ASSUME NEW b \in Bodies, NEW n \in 1 .. Len(b), NEW f, Own(b, n, f)
  PROVE  /\ f \in Frames /\ f.of = n
         /\ Kind(b, f) = IF f.part = "statement" THEN b[n].kind ELSE f.part
         /\ f.part \in Parts \ {"return_0", "ended", "compare", "loop_depth--"}
         /\ f.part \in {"let_src", "for", "let_idx", "next_idx", "let_element"} => b[n].kind = "for-in"
         /\ f.part \in {"init", "step"} => b[n].kind = "for"
         /\ f.part \in {"test", "turn"} => b[n].kind \in Loops
         /\ f.part \in {"let_val", "case"} => b[n].kind = "branch"
         /\ f.part = "case" => \E i \in 1 .. Len(b[n].sizes) : \E j \in 1 .. b[n].sizes[i] : f = Case(n, i, j)
<1>1. n \in Nat
  BY BodyIs
<1>2. \A p \in Parts : Part(p, n) \in Frames /\ Part(p, n).part = p /\ Part(p, n).of = n
  BY <1>1, PartFields, PartIsFrame
<1>3. CASE \E p \in Parts \ {"case", "return_0", "ended", "compare", "loop_depth--"} : f = Part(p, n)
  <2>1. PICK p \in Parts \ {"case", "return_0", "ended", "compare", "loop_depth--"} : f = Part(p, n)
    BY <1>3
  <2>2. f \in Frames /\ f.of = n /\ f.part = p
    BY <1>2, <2>1
  <2>3. Kind(b, f) = IF f.part = "statement" THEN b[n].kind ELSE f.part
    BY <2>2 DEF Kind
  <2>4. \A i, j : f # Case(n, i, j)
    BY <2>2, CaseFields
  <2>5. \/ f.part = "statement"
        \/ b[n].kind = "for-in" /\ f.part \in {"let_src", "for", "let_idx", "next_idx", "let_element"}
        \/ b[n].kind = "for" /\ f.part \in {"init", "step"}
        \/ b[n].kind \in Loops /\ f.part \in {"test", "turn"}
        \/ b[n].kind = "branch" /\ f.part = "let_val"
    BY <1>2, <2>4 DEF Own, Parts
  <2>6. QED
    BY <2>2, <2>3, <2>5
<1>4. CASE b[n].kind = "branch" /\ \E i \in 1 .. Len(b[n].sizes) : \E j \in 1 .. b[n].sizes[i] : f = Case(n, i, j)
  <2>1. PICK i \in 1 .. Len(b[n].sizes) : \E j \in 1 .. b[n].sizes[i] : f = Case(n, i, j)
    BY <1>4
  <2>2. PICK j \in 1 .. b[n].sizes[i] : f = Case(n, i, j)
    BY <2>1
  <2>3. i \in Int /\ j \in Int
    OBVIOUS
  <2>4. f \in Frames /\ f.of = n /\ f.part = "case"
    <3>1. Case(n, i, j) \in Frames
      BY <1>1, <2>3, PairIsFrame
    <3>2. Case(n, i, j).of = n /\ Case(n, i, j).part = "case"
      BY CaseFields
    <3>3. QED
      BY <2>2, <3>1, <3>2
  <2>5. Kind(b, f) = "case"
    BY <2>4 DEF Kind
  <2>6. QED
    BY <1>4, <2>4, <2>5 DEF Parts
<1>5. QED
  BY <1>3, <1>4 DEF Own, Parts

(* What a move puts in place of a frame s of statement n: nothing, other    *)
(* frames of n, a block, or the body of a loop and its turn *)
Spawns(b, s, pre) ==
  LET n == s.of IN
  /\ pre \in Stack
  /\ \/ pre = <<>>
     \/ /\ s.part # "let_element"
        /\ \A p \in 1 .. Len(pre) : Own(b, n, pre[p]) /\ pre[p].part \notin {"turn", "let_element"}
     \/ /\ s.part # "let_element" /\ b[n].kind \notin Loops
        /\ \E i \in 1 .. Len(b[n].blocks) : pre = Block(b, n, i)
     \/ /\ s.part = "test" /\ b[n].kind \in Loops
        /\ pre = LoopOf(b, n).body \o <<Part("turn", n)>>

(* A frame after whose statement the function returns *)
LastIn(R, f) == f.of \in R /\ f.part \in {"statement", "case"}

KeepsLast(b, s, pre) ==
  \A R : Returning(b, R) /\ LastIn(R, s) => pre # <<>> /\ LastIn(R, pre[Len(pre)])

LEMMA NotLast ==
  ASSUME NEW b, NEW s, NEW pre, s.part \notin {"statement", "case"} \/ b[s.of].kind \notin {"return", "block", "if", "branch"}
  PROVE  KeepsLast(b, s, pre)
BY DEF KeepsLast, LastIn, Returning

LEMMA BlockLast ==
  ASSUME NEW b \in Bodies, NEW s, NEW n \in 1 .. Len(b), n = s.of, b[n].kind \in {"block", "if", "branch"},
         NEW i \in 1 .. Len(b[n].blocks)
  PROVE  KeepsLast(b, s, Block(b, n, i))
<1> SUFFICES ASSUME NEW R, Returning(b, R), n \in R
             PROVE  LET pre == Block(b, n, i) IN pre # <<>> /\ LastIn(R, pre[Len(pre)])
  BY DEF KeepsLast, LastIn
<1>1. b[n].blocks[i] # <<>> /\ b[n].blocks[i][Len(b[n].blocks[i])] \in R
  BY DEF Returning
<1>2. /\ Block(b, n, i) \in Stack /\ Len(Block(b, n, i)) = Len(b[n].blocks[i])
      /\ Len(b[n].blocks[i]) \in Nat
      /\ \A p \in 1 .. Len(Block(b, n, i)) : Block(b, n, i)[p] = Part("statement", b[n].blocks[i][p])
  BY BlockIs
<1>3. Len(b[n].blocks[i]) # 0
  <2>1. b[n].blocks[i] \in Seq(Nat)
    BY BodyIs, ElementOfSeq
  <2>2. QED
    BY <1>1, <2>1, EmptySeq
<1>4. Block(b, n, i) # <<>>
  BY <1>2, <1>3
<1>5. Block(b, n, i)[Len(Block(b, n, i))] = Part("statement", b[n].blocks[i][Len(b[n].blocks[i])])
  BY <1>2, <1>3
<1>6. LastIn(R, Block(b, n, i)[Len(Block(b, n, i))])
  BY <1>1, <1>5, PartFields DEF LastIn
<1>7. QED
  BY <1>4, <1>6

Shape(b, s, z, r, m) ==
  \/ Kind(b, s) = "return" /\ m.rest = Ended /\ m.event = <<"end", Leaves(b[s.of].gives, r)>>
  \/ /\ Kind(b, s) \in {"break", "continue"} /\ NotEnd(m.event)
     /\ \E i \in {Innermost(z), Innermost(z) + 1} : m.rest = SubSeq(z, i, Len(z))
  \/ /\ NotEnd(m.event)
     /\ \E pre : m.rest = pre \o z /\ Spawns(b, s, pre) /\ KeepsLast(b, s, pre)

Quiets(b, n, f) == Own(b, n, f) /\ f.part \notin {"turn", "let_element"}

LEMMA QuietOne ==
  ASSUME NEW b \in Bodies, NEW n \in 1 .. Len(b), NEW f, Quiets(b, n, f)
  PROVE  /\ <<f>> \in Stack /\ Len(<<f>>) = 1 /\ <<f>>[1] = f
         /\ \A p \in 1 .. Len(<<f>>) : Quiets(b, n, <<f>>[p])
<1>1. f \in Frames
  BY OwnIs DEF Quiets
<1>2. <<f>> \in Stack /\ Len(<<f>>) = 1 /\ <<f>>[1] = f
  BY <1>1, OneIs
<1>3. QED
  BY <1>2

LEMMA QuietTwo ==
  ASSUME NEW b \in Bodies, NEW n \in 1 .. Len(b), NEW f, NEW g, Quiets(b, n, f), Quiets(b, n, g)
  PROVE  /\ <<f>> \o <<g>> = <<f, g>> /\ <<f, g>> \in Stack /\ Len(<<f, g>>) = 2 /\ <<f, g>>[2] = g
         /\ \A p \in 1 .. Len(<<f, g>>) : Quiets(b, n, <<f, g>>[p])
<1>1. f \in Frames /\ g \in Frames
  BY OwnIs DEF Quiets
<1>2. <<f, g>> \in Stack /\ Len(<<f, g>>) = 2 /\ <<f, g>>[1] = f /\ <<f, g>>[2] = g /\ <<f, g>> = <<f>> \o <<g>>
  BY <1>1, TwoIs
<1> DEFINE u == <<f, g>>
<1>3. Len(u) = 2 /\ u[1] = f /\ u[2] = g
  BY <1>2
<1> HIDE DEF u
<1>4. \A p \in 1 .. Len(u) : p = 1 \/ p = 2
  BY <1>3
<1>5. \A p \in 1 .. Len(u) : Quiets(b, n, u[p])
  BY <1>3, <1>4
<1>6. \A p \in 1 .. Len(<<f, g>>) : Quiets(b, n, <<f, g>>[p])
  BY <1>5 DEF u
<1>7. QED
  BY <1>2, <1>6

LEMMA QuietParts ==
  ASSUME NEW b \in Bodies, NEW n \in 1 .. Len(b)
  PROVE  /\ b[n].kind \in Loops => Quiets(b, n, Part("test", n))
         /\ b[n].kind = "for" => Quiets(b, n, Part("init", n)) /\ Quiets(b, n, Part("step", n))
         /\ b[n].kind = "for-in" => \A p \in {"let_src", "for", "let_idx", "next_idx"} : Quiets(b, n, Part(p, n))
         /\ b[n].kind = "branch" => Quiets(b, n, Part("let_val", n))
         /\ b[n].kind = "branch" =>
              \A i \in 1 .. Len(b[n].sizes) : \A j \in 1 .. b[n].sizes[i] : Quiets(b, n, Case(n, i, j))
<1>1. b[n].kind \in Loops => Quiets(b, n, Part("test", n))
  BY PartFields DEF Quiets, Own
<1>2. b[n].kind = "for" => Quiets(b, n, Part("init", n)) /\ Quiets(b, n, Part("step", n))
  BY PartFields DEF Quiets, Own
<1>3. b[n].kind = "for-in" => \A p \in {"let_src", "for", "let_idx", "next_idx"} : Quiets(b, n, Part(p, n))
  BY PartFields DEF Quiets, Own
<1>4. b[n].kind = "branch" => Quiets(b, n, Part("let_val", n))
  BY PartFields DEF Quiets, Own
<1>5. b[n].kind = "branch" =>
        \A i \in 1 .. Len(b[n].sizes) : \A j \in 1 .. b[n].sizes[i] : Quiets(b, n, Case(n, i, j))
  BY CaseFields DEF Quiets, Own
<1>6. QED
  BY <1>1, <1>2, <1>3, <1>4, <1>5

LEMMA OwnShape ==
  ASSUME NEW b, NEW s, NEW z, NEW r, NEW m, NEW pre \in Stack, m.rest = pre \o z, NotEnd(m.event),
         s.part # "let_element", \A p \in 1 .. Len(pre) : Quiets(b, s.of, pre[p]), KeepsLast(b, s, pre)
  PROVE  Shape(b, s, z, r, m)
<1>1. Spawns(b, s, pre)
  BY DEF Spawns, Quiets
<1>2. QED
  BY <1>1 DEF Shape

LEMMA NoneShape ==
  ASSUME NEW b, NEW s, NEW z \in Stack, NEW r, NEW m, m.rest = z, NotEnd(m.event),
         s.part \notin {"statement", "case"} \/ b[s.of].kind \notin {"return", "block", "if", "branch"}
  PROVE  Shape(b, s, z, r, m)
<1>1. Spawns(b, s, <<>>) /\ m.rest = <<>> \o z
  BY NonePushed DEF Spawns
<1>2. KeepsLast(b, s, <<>>)
  BY NotLast
<1>3. QED
  BY <1>1, <1>2 DEF Shape

LEMMA BlockShape ==
  ASSUME NEW b \in Bodies, NEW s, NEW z, NEW r, NEW m, NEW n \in 1 .. Len(b), n = s.of,
         b[n].kind \in {"block", "if", "branch"}, s.part # "let_element",
         NEW i \in 1 .. Len(b[n].blocks), m.rest = Block(b, n, i) \o z, NotEnd(m.event)
  PROVE  Shape(b, s, z, r, m)
<1>1. KeepsLast(b, s, Block(b, n, i))
  BY BlockLast
<1>2. Block(b, n, i) \in Stack
  BY BlockIs
<1>3. Spawns(b, s, Block(b, n, i))
  BY <1>2 DEF Spawns, Loops
<1>4. QED
  BY <1>1, <1>3 DEF Shape

(* The header of a loop: init or step, and the test *)
LEMMA HeaderIs ==
  ASSUME NEW b \in Bodies, NEW n \in 1 .. Len(b), b[n].kind \in Loops
  PROVE  /\ LoopOf(b, n).init \o <<Part("test", n)>> \in Stack
         /\ \A p \in 1 .. Len(LoopOf(b, n).init \o <<Part("test", n)>>) :
              Quiets(b, n, (LoopOf(b, n).init \o <<Part("test", n)>>)[p])
         /\ LoopOf(b, n).step \o <<Part("test", n)>> \in Stack
         /\ \A p \in 1 .. Len(LoopOf(b, n).step \o <<Part("test", n)>>) :
              Quiets(b, n, (LoopOf(b, n).step \o <<Part("test", n)>>)[p])
<1>1. Quiets(b, n, Part("test", n))
  BY QuietParts
<1>2. <<Part("test", n)>> \in Stack /\ \A p \in 1 .. Len(<<Part("test", n)>>) : Quiets(b, n, <<Part("test", n)>>[p])
  BY <1>1, QuietOne
<1>3. ASSUME NEW f, Quiets(b, n, f)
      PROVE  /\ <<f>> \o <<Part("test", n)>> \in Stack
             /\ \A p \in 1 .. Len(<<f>> \o <<Part("test", n)>>) : Quiets(b, n, (<<f>> \o <<Part("test", n)>>)[p])
  <2> DEFINE u == <<f, Part("test", n)>>
  <2>1. <<f>> \o <<Part("test", n)>> = u /\ u \in Stack /\ \A p \in 1 .. Len(u) : Quiets(b, n, u[p])
    BY <1>1, <1>3, QuietTwo
  <2> HIDE DEF u
  <2>2. QED
    BY <2>1
<1>4. CASE b[n].kind = "while"
  <2>1. LoopOf(b, n).init = <<>> /\ LoopOf(b, n).step = <<>>
    BY <1>4, LoopIs
  <2>2. <<>> \o <<Part("test", n)>> = <<Part("test", n)>>
    BY <1>2, NonePushed
  <2>3. QED
    BY <2>1, <2>2, <1>2
<1>5. CASE b[n].kind = "for"
  <2>1. LoopOf(b, n).init = <<Part("init", n)>> /\ LoopOf(b, n).step = <<Part("step", n)>>
    BY <1>5, LoopIs
  <2>2. Quiets(b, n, Part("init", n)) /\ Quiets(b, n, Part("step", n))
    BY <1>5, QuietParts
  <2>3. QED
    BY <2>1, <2>2, <1>3
<1>6. CASE b[n].kind = "for-in"
  <2>1. LoopOf(b, n).init = <<Part("let_idx", n)>> /\ LoopOf(b, n).step = <<Part("next_idx", n)>>
    BY <1>6, LoopIs
  <2>2. Quiets(b, n, Part("let_idx", n)) /\ Quiets(b, n, Part("next_idx", n))
    BY <1>6, QuietParts
  <2>3. QED
    BY <2>1, <2>2, <1>3
<1>7. QED
  BY <1>4, <1>5, <1>6 DEF Loops

LEMMA TurnStack ==
  ASSUME NEW b \in Bodies, NEW n \in 1 .. Len(b), b[n].kind \in Loops
  PROVE  /\ Block(b, n, 1) \in Stack /\ <<Part("turn", n)>> \in Stack /\ LoopOf(b, n).body \in Stack
         /\ LoopOf(b, n).body \o <<Part("turn", n)>> \in Stack
<1>1. n \in Nat /\ 1 \in 1 .. Len(b[n].blocks)
  BY BodyIs, BlockNumbers
<1>2. Block(b, n, 1) \in Stack
  BY <1>1, BlockIs
<1>3. Part("turn", n) \in Frames /\ Part("let_element", n) \in Frames
  BY <1>1, PartIsFrame DEF Parts
<1>4. <<Part("turn", n)>> \in Stack
  BY <1>3, OneIs
<1>5. LoopOf(b, n).body \in Stack
  <2>1. <<Part("let_element", n)>> \o Block(b, n, 1) \in Stack
    BY <1>2, <1>3, FirstIs
  <2>2. LoopOf(b, n).body = Block(b, n, 1) \/ LoopOf(b, n).body = <<Part("let_element", n)>> \o Block(b, n, 1)
    BY LoopIs
  <2>3. QED
    BY <1>2, <2>1, <2>2
<1>6. LoopOf(b, n).body \o <<Part("turn", n)>> \in Stack
  BY <1>4, <1>5, Pushed
<1>7. QED
  BY <1>2, <1>4, <1>5, <1>6

LEMMA StatementShape ==
  ASSUME NEW b \in Bodies, NEW n \in 1 .. Len(b), NEW s, s = Part("statement", n),
         NEW z \in Stack, NEW h, NEW r, NEW m \in CMoves(b, <<s>> \o z, h, r)
  PROVE  Shape(b, s, z, r, m)
<1>1. n \in Nat /\ b[n].kind \in Kinds
  BY BodyIs
<1>2. s \in Frames /\ s.of = n /\ s.part = "statement" /\ Kind(b, s) = b[n].kind
  <2>1. s \in Frames
    BY <1>1, PartIsFrame DEF Parts
  <2>2. s.of = n /\ s.part = "statement"
    BY PartFields
  <2>3. QED
    BY <2>1, <2>2 DEF Kind
<1>3. CASE b[n].kind = "do"
  <2>1. m.rest = z /\ NotEnd(m.event)
    BY <1>2, <1>3, PlainRest DEF Straight
  <2>2. QED
    BY <1>2, <1>3, <2>1, NoneShape
<1>4. CASE b[n].kind \in {"break", "continue"}
  <2>1. (\E i \in {Innermost(z), Innermost(z) + 1} : m.rest = SubSeq(z, i, Len(z))) /\ NotEnd(m.event)
    BY <1>2, <1>4, JumpRest
  <2>2. QED
    BY <1>2, <1>4, <2>1 DEF Shape
<1>5. CASE b[n].kind = "return"
  <2>1. m.rest = Ended /\ m.event = <<"end", Leaves(b[s.of].gives, r)>>
    BY <1>2, <1>5, ReturnRest
  <2>2. QED
    BY <1>2, <1>5, <2>1 DEF Shape
<1>6. CASE b[n].kind = "block"
  <2>0. m.rest = Block(b, s.of, 1) \o z /\ NotEnd(m.event)
    BY <1>2, <1>6, BlockRest
  <2>1. m.rest = Block(b, n, 1) \o z /\ NotEnd(m.event)
    BY <1>2, <2>0
  <2>2. 1 \in 1 .. Len(b[n].blocks)
    BY <1>6, BlockNumbers
  <2>3. QED
    BY <1>2, <1>6, <2>1, <2>2, BlockShape
<1>7. CASE b[n].kind = "if"
  <2>0. b[s.of].kind = "if" /\ Kind(b, s) = "if"
    BY <1>2, <1>7
  <2>9. Takes(b, s.of, z, m) /\ NotEnd(m.event)
    BY <1>2, <2>0, IfRest
  <2>1. (\E w \in {1, 2} : m.rest = Block(b, n, w) \o z) /\ NotEnd(m.event)
    BY <1>2, <2>9 DEF Takes
  <2>2. \A w \in {1, 2} : w \in 1 .. Len(b[n].blocks)
    BY <1>7, BlockNumbers
  <2>3. PICK w \in 1 .. Len(b[n].blocks) : m.rest = Block(b, n, w) \o z
    BY <2>1, <2>2
  <2>4. QED
    BY <1>2, <1>7, <2>1, <2>3, BlockShape
<1>8. CASE b[n].kind \in {"while", "for"}
  <2> DEFINE pre == LoopOf(b, n).init \o <<Part("test", n)>>
  <2>0. m.rest = LoopOf(b, s.of).init \o <<Part("test", s.of)>> \o z /\ NotEnd(m.event)
    BY <1>2, <1>8, HeaderRest
  <2>1. m.rest = pre \o z /\ NotEnd(m.event)
    BY <1>2, <2>0
  <2>2. pre \in Stack /\ \A p \in 1 .. Len(pre) : Quiets(b, n, pre[p])
    BY <1>8, HeaderIs DEF Loops
  <2>3. KeepsLast(b, s, pre)
    BY <1>2, <1>8, NotLast
  <2> HIDE DEF pre
  <2>4. QED
    BY <1>2, <2>1, <2>2, <2>3, OwnShape
<1>9. CASE b[n].kind = "for-in"
  <2> DEFINE pre == <<Part("let_src", n), Part("for", n)>>
  <2>1. m.rest = pre \o z /\ NotEnd(m.event)
    BY <1>2, <1>9, ForInRest DEF ParseForIn
  <2>2. Quiets(b, n, Part("let_src", n)) /\ Quiets(b, n, Part("for", n))
    BY <1>9, QuietParts
  <2>3. pre \in Stack /\ \A p \in 1 .. Len(pre) : Quiets(b, n, pre[p])
    BY <2>2, QuietTwo
  <2>4. KeepsLast(b, s, pre)
    BY <1>2, <1>9, NotLast
  <2> HIDE DEF pre
  <2>5. QED
    BY <1>2, <2>1, <2>3, <2>4, OwnShape
<1>10. CASE b[n].kind = "branch"
  <2> DEFINE pre == <<Part("let_val", n), Case(n, 1, 1)>>
  <2>1. m.rest = pre \o z /\ NotEnd(m.event)
    BY <1>2, <1>10, BranchRest DEF ParseBranch
  <2>2. Quiets(b, n, Part("let_val", n)) /\ Quiets(b, n, Case(n, 1, 1))
    <3>1. 1 \in 1 .. Len(b[n].sizes) /\ 1 \in 1 .. b[n].sizes[1]
      BY <1>10, BranchIs
    <3>2. QED
      BY <1>10, <3>1, QuietParts
  <2>3. pre \in Stack /\ Len(pre) = 2 /\ pre[2] = Case(n, 1, 1) /\ \A p \in 1 .. Len(pre) : Quiets(b, n, pre[p])
    BY <2>2, QuietTwo
  <2> HIDE DEF pre
  <2>4. pre # <<>> /\ pre[Len(pre)] = Case(n, 1, 1)
    BY <2>3
  <2>5. KeepsLast(b, s, pre)
    BY <1>2, <2>4, CaseFields DEF KeepsLast, LastIn
  <2>6. QED
    BY <1>2, <2>1, <2>3, <2>5, OwnShape
<1>11. QED
  BY <1>1, <1>3, <1>4, <1>5, <1>6, <1>7, <1>8, <1>9, <1>10 DEF Kinds

LEMMA CaseShape ==
  ASSUME NEW b \in Bodies, NEW n \in 1 .. Len(b), b[n].kind = "branch",
         NEW i \in 1 .. Len(b[n].sizes), NEW j \in 1 .. b[n].sizes[i], NEW s, s = Case(n, i, j),
         NEW z \in Stack, NEW h, NEW r, NEW m \in CMoves(b, <<s>> \o z, h, r)
  PROVE  Shape(b, s, z, r, m)
<1>1. n \in Nat /\ i \in Int /\ j \in Int
  BY BodyIs
<1>2. s.of = n /\ s.part = "case"
  BY CaseFields
<1>3. /\ m.rest = Block(b, n, i) \o z \/ m.rest = CaseElse(b, n, i, j) \o z
      /\ NotEnd(m.event)
  BY <1>1, CaseRest
<1>4. /\ Len(b[n].blocks) = Len(b[n].sizes) + 1 /\ Len(b[n].sizes) \in Nat
      /\ \A q \in 1 .. Len(b[n].sizes) : b[n].sizes[q] \in Nat /\ b[n].sizes[q] >= 1
  BY BranchIs
<1>5. ASSUME NEW q \in 1 .. Len(b[n].blocks), m.rest = Block(b, n, q) \o z
      PROVE  Shape(b, s, z, r, m)
  BY <1>2, <1>3, <1>5, BlockShape
<1>6. ASSUME NEW u \in 1 .. Len(b[n].sizes), NEW v \in 1 .. b[n].sizes[u], m.rest = <<Case(n, u, v)>> \o z
      PROVE  Shape(b, s, z, r, m)
  <2>1. Quiets(b, n, Case(n, u, v))
    BY QuietParts
  <2> DEFINE pre == <<Case(n, u, v)>>
  <2>2. /\ pre \in Stack /\ Len(pre) = 1 /\ pre[1] = Case(n, u, v)
        /\ \A p \in 1 .. Len(pre) : Quiets(b, n, pre[p])
    BY <2>1, QuietOne
  <2>3. m.rest = pre \o z
    BY <1>6
  <2> HIDE DEF pre
  <2>7. pre # <<>>
    <3>1. Len(pre) # Len(<<>>)
      <4>1. Len(pre) = 1 /\ Len(<<>>) = 0
        BY <2>2
      <4>2. QED
        BY <4>1
    <3>2. QED
      BY <3>1
  <2>4. pre # <<>> /\ pre[Len(pre)] = Case(n, u, v)
    BY <2>2, <2>7
  <2>5. KeepsLast(b, s, pre)
    BY <1>2, <2>4, CaseFields DEF KeepsLast, LastIn
  <2>6. QED
    BY <1>2, <1>3, <2>2, <2>3, <2>5, OwnShape
<1>7. CASE m.rest = Block(b, n, i) \o z
  <2>1. i \in 1 .. Len(b[n].blocks)
    BY <1>4
  <2>2. QED
    BY <1>5, <1>7, <2>1
<1>8. CASE m.rest = CaseElse(b, n, i, j) \o z
  <2>1. CASE j < b[n].sizes[i]
    <3>1. m.rest = <<Case(n, i, j + 1)>> \o z /\ j + 1 \in 1 .. b[n].sizes[i]
      BY <1>4, <1>8, <2>1 DEF CaseElse
    <3>2. QED
      BY <3>1, <1>6
  <2>2. CASE ~(j < b[n].sizes[i]) /\ i < Len(b[n].sizes)
    <3>1. m.rest = <<Case(n, i + 1, 1)>> \o z /\ i + 1 \in 1 .. Len(b[n].sizes)
      BY <1>4, <1>8, <2>2 DEF CaseElse
    <3>2. 1 \in 1 .. b[n].sizes[i + 1]
      BY <1>4, <3>1
    <3>3. QED
      BY <3>1, <3>2, <1>6
  <2>3. CASE ~(j < b[n].sizes[i]) /\ ~(i < Len(b[n].sizes))
    <3>1. m.rest = Block(b, n, i + 1) \o z /\ i + 1 \in 1 .. Len(b[n].blocks)
      BY <1>4, <1>8, <2>3 DEF CaseElse
    <3>2. QED
      BY <3>1, <1>5
  <2>4. QED
    BY <2>1, <2>2, <2>3
<1>9. QED
  BY <1>3, <1>7, <1>8

LEMMA MoveShape ==
  ASSUME NEW b \in Bodies, NEW n \in 1 .. Len(b), NEW s, Own(b, n, s),
         NEW z \in Stack, NEW h, NEW r, NEW m \in CMoves(b, <<s>> \o z, h, r)
  PROVE  Shape(b, s, z, r, m)
<1>1. /\ s \in Frames /\ s.of = n
      /\ Kind(b, s) = IF s.part = "statement" THEN b[n].kind ELSE s.part
      /\ s.part \in Parts \ {"return_0", "ended", "compare", "loop_depth--"}
      /\ s.part \in {"let_src", "for", "let_idx", "next_idx", "let_element"} => b[n].kind = "for-in"
      /\ s.part \in {"init", "step"} => b[n].kind = "for"
      /\ s.part \in {"test", "turn"} => b[n].kind \in Loops
      /\ s.part \in {"let_val", "case"} => b[n].kind = "branch"
      /\ s.part = "case" => \E i \in 1 .. Len(b[n].sizes) : \E j \in 1 .. b[n].sizes[i] : s = Case(n, i, j)
  BY OwnIs
<1>2. CASE s.part = "statement"
  <2>1. s = Part("statement", n)
    BY <1>1, <1>2, PartFields, CaseFields DEF Own
  <2>2. QED
    BY <2>1, StatementShape
<1>3. CASE s.part \in {"init", "step", "let_src", "let_idx", "next_idx", "let_element", "let_val"}
  <2>1. Kind(b, s) \in Straight \/ Kind(b, s) = "let_val"
    BY <1>1, <1>3 DEF Straight
  <2>2. m.rest = z /\ NotEnd(m.event)
    BY <1>1, <2>1, PlainRest, LetValRest
  <2>3. s.part \notin {"statement", "case"}
    BY <1>3
  <2>4. QED
    BY <2>2, <2>3, NoneShape
<1>4. ASSUME NEW pre, s.part \in {"for", "turn"},
             \/ s.part = "for" /\ pre = LoopOf(b, s.of).init \o <<Part("test", s.of)>>
             \/ s.part = "turn" /\ pre = LoopOf(b, s.of).step \o <<Part("test", s.of)>>
      PROVE  Shape(b, s, z, r, m)
  <2>1. b[n].kind \in Loops
    BY <1>1, <1>4 DEF Loops
  <2>2. m.rest = pre \o z /\ NotEnd(m.event)
    <3>1. CASE s.part = "for"
      <4>1. Kind(b, s) \in {"while", "for"}
        BY <1>1, <3>1
      <4>2. m.rest = LoopOf(b, s.of).init \o <<Part("test", s.of)>> \o z /\ NotEnd(m.event)
        BY <1>1, <4>1, HeaderRest
      <4>3. pre = LoopOf(b, s.of).init \o <<Part("test", s.of)>>
        BY <1>4, <3>1
      <4>4. QED
        BY <4>2, <4>3
    <3>2. CASE s.part = "turn"
      <4>1. Kind(b, s) = "turn"
        BY <1>1, <3>2
      <4>2. m.rest = LoopOf(b, s.of).step \o <<Part("test", s.of)>> \o z /\ NotEnd(m.event)
        BY <1>1, <4>1, TurnRest
      <4>3. pre = LoopOf(b, s.of).step \o <<Part("test", s.of)>>
        BY <1>4, <3>2
      <4>4. QED
        BY <4>2, <4>3
    <3>3. QED
      BY <1>4, <3>1, <3>2
  <2>3. pre \in Stack /\ \A p \in 1 .. Len(pre) : Quiets(b, s.of, pre[p])
    <3>1. \/ pre = LoopOf(b, n).init \o <<Part("test", n)>>
          \/ pre = LoopOf(b, n).step \o <<Part("test", n)>>
      BY <1>1, <1>4
    <3>2. pre \in Stack /\ \A p \in 1 .. Len(pre) : Quiets(b, n, pre[p])
      BY <2>1, <3>1, HeaderIs
    <3>3. QED
      BY <1>1, <3>2
  <2>4. KeepsLast(b, s, pre)
    BY <1>4, NotLast
  <2>5. QED
    BY <1>1, <1>4, <2>2, <2>3, <2>4, OwnShape
<1>5. CASE s.part = "test"
  <2>1. b[n].kind \in Loops
    BY <1>1, <1>5
  <2>0. /\ m.rest = z \/ m.rest = (LoopOf(b, s.of).body \o <<Part("turn", s.of)>>) \o z
        /\ NotEnd(m.event)
    BY <1>1, <1>5, TestRest
  <2>2. /\ m.rest = z \/ m.rest = (LoopOf(b, n).body \o <<Part("turn", n)>>) \o z
        /\ NotEnd(m.event)
    BY <1>1, <2>0
  <2>3. CASE m.rest = z
    BY <1>5, <2>2, <2>3, NoneShape
  <2>4. CASE m.rest = (LoopOf(b, n).body \o <<Part("turn", n)>>) \o z
    <3> DEFINE pre == LoopOf(b, n).body \o <<Part("turn", n)>>
    <3>1. pre \in Stack
      BY <2>1, TurnStack
    <3>2. Spawns(b, s, pre)
      BY <1>1, <1>5, <2>1, <3>1 DEF Spawns
    <3>3. KeepsLast(b, s, pre)
      BY <1>5, NotLast
    <3>4. QED
      BY <2>2, <2>4, <3>2, <3>3 DEF Shape
  <2>5. QED
    BY <2>2, <2>3, <2>4
<1>6. CASE s.part = "case"
  <2>1. PICK i \in 1 .. Len(b[n].sizes) : \E j \in 1 .. b[n].sizes[i] : s = Case(n, i, j)
    BY <1>1, <1>6
  <2>2. PICK j \in 1 .. b[n].sizes[i] : s = Case(n, i, j)
    BY <2>1
  <2>3. QED
    BY <1>1, <1>6, <2>2, CaseShape
<1>7. CASE s.part \in {"for", "turn"}
  <2>1. CASE s.part = "for"
    <3> DEFINE pre == LoopOf(b, s.of).init \o <<Part("test", s.of)>>
    <3>1. pre = LoopOf(b, s.of).init \o <<Part("test", s.of)>>
      OBVIOUS
    <3> HIDE DEF pre
    <3>2. QED
      BY <1>4, <2>1, <3>1
  <2>2. CASE s.part = "turn"
    <3> DEFINE pre == LoopOf(b, s.of).step \o <<Part("test", s.of)>>
    <3>1. pre = LoopOf(b, s.of).step \o <<Part("test", s.of)>>
      OBVIOUS
    <3> HIDE DEF pre
    <3>2. QED
      BY <1>4, <2>2, <3>1
  <2>3. QED
    BY <1>7, <2>1, <2>2
<1>8. QED
  BY <1>1, <1>2, <1>3, <1>7, <1>5, <1>6 DEF Parts

-------------------------------------------------------------------------------
(* The stack of the C machine.  S gives for each statement the numbers of   *)
(* loops around it with which sema has checked it.                          *)

Below(b, n, d) == IF b[n].kind \in Loops THEN d + 1 ELSE d

Allowed(b, r, n, d) ==
  /\ b[n].kind \in {"break", "continue"} => d > 0
  /\ b[n].kind = "return" => (b[n].gives <=> r = "value")

SemaOK(b, r, S) ==
  /\ S \in [1 .. Len(b) -> SUBSET Nat] /\ 0 \in S[Len(b)]
  /\ \A n \in 1 .. Len(b) : \A d \in S[n] :
       Allowed(b, r, n, d) /\ \A m : Child(b, n, m) => Below(b, n, d) \in S[m]

Mine(b, r, f) ==
  \/ f = Return0 /\ r = "status"
  \/ f.of \in 1 .. Len(b) /\ Own(b, f.of, f)

TurnAfter(cc, p) == \E q \in 1 .. Len(cc) : p < q /\ cc[q].part = "turn"

Inner(f, g) ==
  \/ f.of < g.of
  \/ f.part = "let_element" /\ f.of = g.of

Layered(cc) == \A p, q \in 1 .. Len(cc) : p < q /\ cc[q].part = "turn" => Inner(cc[p], cc[q])

Covers(S, f, inLoop) == \E d \in S[f.of] : d = 0 \/ inLoop

Covered(S, cc) == \A p \in 1 .. Len(cc) : cc[p] # Return0 => Covers(S, cc[p], TurnAfter(cc, p))

Orderly(b, r, S, cc) ==
  /\ cc \in Stack /\ \A p \in 1 .. Len(cc) : Mine(b, r, cc[p])
  /\ Layered(cc) /\ Covered(S, cc)

LEMMA OrderlyPart ==
  ASSUME NEW b, NEW r, NEW S, NEW cc, Orderly(b, r, S, cc), NEW u \in Stack, NEW j \in Nat, Len(u) + j = Len(cc),
         \A p \in 1 .. Len(u) : u[p] = cc[p + j]
  PROVE  Orderly(b, r, S, u)
<1>1. Len(u) \in Nat /\ Len(cc) \in Nat /\ cc \in Stack
  BY LenProperties DEF Orderly, Stack
<1>2. \A p \in 1 .. Len(u) : p + j \in 1 .. Len(cc) /\ u[p] = cc[p + j]
  BY <1>1
<1>3. \A p \in 1 .. Len(u) : Mine(b, r, u[p])
  BY <1>2 DEF Orderly
<1>4. ASSUME NEW p \in 1 .. Len(u), NEW q \in 1 .. Len(u), p < q, u[q].part = "turn"
      PROVE  Inner(u[p], u[q])
  <2>1. p + j \in 1 .. Len(cc) /\ q + j \in 1 .. Len(cc) /\ p + j < q + j /\ cc[q + j].part = "turn"
    BY <1>1, <1>2, <1>4
  <2>2. Inner(cc[p + j], cc[q + j])
    BY <2>1 DEF Orderly, Layered
  <2>3. QED
    BY <1>2, <2>2
<1>5. ASSUME NEW p \in 1 .. Len(u), u[p] # Return0
      PROVE  Covers(S, u[p], TurnAfter(u, p))
  <2>1. p + j \in 1 .. Len(cc) /\ u[p] = cc[p + j]
    BY <1>2
  <2>2. Covers(S, cc[p + j], TurnAfter(cc, p + j))
    BY <1>5, <2>1 DEF Orderly, Covered
  <2>3. TurnAfter(cc, p + j) => TurnAfter(u, p)
    <3>1. SUFFICES ASSUME NEW q \in 1 .. Len(cc), p + j < q, cc[q].part = "turn"
                   PROVE  TurnAfter(u, p)
      BY DEF TurnAfter
    <3>2. q - j \in 1 .. Len(u) /\ p < q - j /\ (q - j) + j = q
      BY <1>1, <3>1
    <3>3. u[q - j] = cc[q]
      BY <1>2, <3>2
    <3>4. QED
      BY <3>1, <3>2, <3>3 DEF TurnAfter
  <2>4. QED
    BY <2>1, <2>2, <2>3 DEF Covers
<1>6. QED
  BY <1>3, <1>4, <1>5 DEF Orderly, Layered, Covered

LEMMA OrderlyTail ==
  ASSUME NEW b, NEW r, NEW S, NEW cc, Orderly(b, r, S, cc), cc # <<>>
  PROVE  /\ cc \in Stack /\ Head(cc) = cc[1] /\ Head(cc) \in Frames /\ Tail(cc) \in Stack /\ cc = <<Head(cc)>> \o Tail(cc)
         /\ Orderly(b, r, S, Tail(cc)) /\ Mine(b, r, Head(cc))
         /\ \A q \in 1 .. Len(Tail(cc)) : Tail(cc)[q].part = "turn" => Inner(Head(cc), Tail(cc)[q])
         /\ Head(cc) # Return0 => Covers(S, Head(cc), TurnsIn(Tail(cc)) # {})
<1>1. cc \in Stack
  BY DEF Orderly
<1>2. /\ Head(cc) \in Frames /\ Tail(cc) \in Stack /\ Len(cc) \in Nat /\ Len(cc) >= 1 /\ Head(cc) = cc[1]
      /\ Len(Tail(cc)) = Len(cc) - 1 /\ \A p \in 1 .. Len(cc) - 1 : Tail(cc)[p] = cc[p + 1]
  BY <1>1, StackIs
<1>3. cc = <<Head(cc)>> \o Tail(cc)
  BY <1>1, SplitIs
<1> DEFINE z == Tail(cc)
           s == Head(cc)
<1>4. /\ z \in Stack /\ Len(z) + 1 = Len(cc) /\ 1 \in Nat /\ Len(z) \in Nat /\ s = cc[1]
      /\ \A p \in 1 .. Len(z) : z[p] = cc[p + 1]
  BY <1>2
<1> HIDE DEF z, s
<1>5. Orderly(b, r, S, z)
  BY <1>4, OrderlyPart
<1>6. 1 \in 1 .. Len(cc)
  BY <1>4
<1>7. Mine(b, r, s)
  BY <1>4, <1>6 DEF Orderly
<1>8. ASSUME NEW q \in 1 .. Len(z), z[q].part = "turn"
      PROVE  Inner(s, z[q])
  <2>1. q + 1 \in 1 .. Len(cc) /\ 1 < q + 1 /\ z[q] = cc[q + 1]
    BY <1>4
  <2>2. QED
    BY <1>4, <1>6, <1>8, <2>1 DEF Orderly, Layered
<1>9. ASSUME s # Return0
      PROVE  Covers(S, s, TurnsIn(z) # {})
  <2>1. Covers(S, cc[1], TurnAfter(cc, 1))
    BY <1>4, <1>6, <1>9 DEF Orderly, Covered
  <2>2. TurnAfter(cc, 1) => TurnsIn(z) # {}
    <3>1. SUFFICES ASSUME NEW q \in 1 .. Len(cc), 1 < q, cc[q].part = "turn"
                   PROVE  TurnsIn(z) # {}
      BY DEF TurnAfter
    <3>2. q - 1 \in 1 .. Len(z) /\ (q - 1) + 1 = q
      BY <1>4, <3>1
    <3>3. z[q - 1] = cc[q]
      BY <1>4, <3>2
    <3>4. QED
      BY <3>1, <3>2, <3>3 DEF TurnsIn
  <2>3. QED
    BY <1>4, <2>1, <2>2 DEF Covers
<1>10. QED
  BY <1>1, <1>2, <1>3, <1>5, <1>7, <1>8, <1>9 DEF z, s

LEMMA OrderlyPush ==
  ASSUME NEW b, NEW r, NEW S, NEW z, Orderly(b, r, S, z), NEW pre \in Stack,
         \A p \in 1 .. Len(pre) : Mine(b, r, pre[p]),
         Layered(pre),
         \A p \in 1 .. Len(pre) : \A q \in 1 .. Len(z) : z[q].part = "turn" => Inner(pre[p], z[q]),
         \A p \in 1 .. Len(pre) : Covers(S, pre[p], TurnsIn(z) # {} \/ TurnAfter(pre, p))
  PROVE  Orderly(b, r, S, pre \o z)
<1> DEFINE u == pre \o z
<1>1. z \in Stack
  BY DEF Orderly
<1>2. /\ u \in Stack /\ Len(pre) \in Nat /\ Len(z) \in Nat /\ Len(u) = Len(pre) + Len(z)
      /\ \A p \in 1 .. Len(pre) : u[p] = pre[p]
      /\ \A p \in 1 .. Len(z) : u[Len(pre) + p] = z[p]
      /\ \A p \in 1 .. Len(u) : p \in 1 .. Len(pre) \/ (p - Len(pre) \in 1 .. Len(z) /\ u[p] = z[p - Len(pre)])
  BY <1>1, Pushed
<1> HIDE DEF u
<1>3. ASSUME NEW p \in 1 .. Len(u)
      PROVE  Mine(b, r, u[p])
  <2>1. CASE p \in 1 .. Len(pre)
    BY <1>2, <2>1
  <2>2. CASE p - Len(pre) \in 1 .. Len(z) /\ u[p] = z[p - Len(pre)]
    BY <2>2 DEF Orderly
  <2>3. QED
    BY <1>2, <2>1, <2>2
<1>4. ASSUME NEW p \in 1 .. Len(u), NEW q \in 1 .. Len(u), p < q, u[q].part = "turn"
      PROVE  Inner(u[p], u[q])
  <2>1. CASE q \in 1 .. Len(pre)
    <3>1. p \in 1 .. Len(pre) /\ u[p] = pre[p] /\ u[q] = pre[q]
      BY <1>2, <1>4, <2>1
    <3>2. QED
      BY <1>4, <2>1, <3>1 DEF Layered
  <2>2. CASE p \in 1 .. Len(pre) /\ q - Len(pre) \in 1 .. Len(z) /\ u[q] = z[q - Len(pre)]
    BY <1>2, <1>4, <2>2
  <2>3. CASE /\ p - Len(pre) \in 1 .. Len(z) /\ u[p] = z[p - Len(pre)]
             /\ q - Len(pre) \in 1 .. Len(z) /\ u[q] = z[q - Len(pre)]
    <3>1. p - Len(pre) < q - Len(pre)
      BY <1>2, <1>4
    <3>2. QED
      BY <1>4, <2>3, <3>1 DEF Orderly, Layered
  <2>4. QED
    BY <1>2, <2>1, <2>2, <2>3
<1>5. ASSUME NEW p \in 1 .. Len(u), u[p] # Return0
      PROVE  Covers(S, u[p], TurnAfter(u, p))
  <2>1. CASE p \in 1 .. Len(pre)
    <3>1. Covers(S, u[p], TurnsIn(z) # {} \/ TurnAfter(pre, p))
      BY <1>2, <2>1
    <3>2. ASSUME NEW q \in 1 .. Len(z), z[q].part = "turn"
          PROVE  TurnAfter(u, p)
      <4>1. Len(pre) + q \in 1 .. Len(u) /\ p < Len(pre) + q /\ u[Len(pre) + q] = z[q]
        BY <1>2, <2>1
      <4>2. QED
        BY <3>2, <4>1 DEF TurnAfter
    <3>3. TurnAfter(pre, p) => TurnAfter(u, p)
      <4>1. \A q \in 1 .. Len(pre) : q \in 1 .. Len(u) /\ u[q] = pre[q]
        BY <1>2
      <4>2. QED
        BY <4>1 DEF TurnAfter
    <3>4. TurnsIn(z) # {} => TurnAfter(u, p)
      BY <3>2 DEF TurnsIn
    <3>5. QED
      BY <3>1, <3>3, <3>4 DEF Covers
  <2>2. CASE p - Len(pre) \in 1 .. Len(z) /\ u[p] = z[p - Len(pre)]
    <3>1. Covers(S, u[p], TurnAfter(z, p - Len(pre)))
      BY <1>5, <2>2 DEF Orderly, Covered
    <3>2. TurnAfter(z, p - Len(pre)) => TurnAfter(u, p)
      <4>1. SUFFICES ASSUME NEW q \in 1 .. Len(z), p - Len(pre) < q, z[q].part = "turn"
                     PROVE  TurnAfter(u, p)
        BY DEF TurnAfter
      <4>2. Len(pre) + q \in 1 .. Len(u) /\ p < Len(pre) + q /\ u[Len(pre) + q] = z[q]
        BY <1>2, <4>1
      <4>3. QED
        BY <4>1, <4>2 DEF TurnAfter
    <3>3. QED
      BY <3>1, <3>2 DEF Covers
  <2>3. QED
    BY <1>2, <2>1, <2>2
<1>6. QED
  BY <1>2, <1>3, <1>4, <1>5 DEF Orderly, Layered, Covered, u

(* What a move puts on the stack keeps it so. *)
LEMMA QuietOrderly ==
  ASSUME NEW b \in Bodies, NEW r, NEW S, NEW n \in 1 .. Len(b), NEW s, s.of = n, s.part # "let_element",
         NEW z, Orderly(b, r, S, z), NEW pre \in Stack, \A p \in 1 .. Len(pre) : Quiets(b, n, pre[p]),
         \A q \in 1 .. Len(z) : z[q].part = "turn" => Inner(s, z[q]),
         Covers(S, s, TurnsIn(z) # {})
  PROVE  Orderly(b, r, S, pre \o z)
<1>1. ASSUME NEW p \in 1 .. Len(pre)
      PROVE  pre[p].of = n /\ Mine(b, r, pre[p]) /\ pre[p].part # "turn"
  <2>1. Own(b, n, pre[p]) /\ pre[p].part # "turn"
    BY DEF Quiets
  <2>2. pre[p].of = n
    <3> DEFINE f == pre[p]
    <3>1. Own(b, n, f)
      BY <2>1
    <3> HIDE DEF f
    <3>2. f.of = n
      BY <3>1, OwnIs
    <3>3. QED
      BY <3>2 DEF f
  <2>3. QED
    BY <2>1, <2>2 DEF Mine
<1>2. Layered(pre)
  BY <1>1 DEF Layered
<1>3. ASSUME NEW p \in 1 .. Len(pre), NEW q \in 1 .. Len(z), z[q].part = "turn"
      PROVE  Inner(pre[p], z[q])
  <2>1. s.of < z[q].of
    BY <1>3 DEF Inner
  <2>2. QED
    BY <1>1, <2>1 DEF Inner
<1>4. ASSUME NEW p \in 1 .. Len(pre)
      PROVE  Covers(S, pre[p], TurnsIn(z) # {} \/ TurnAfter(pre, p))
  <2>1. pre[p].of = s.of
    BY <1>1
  <2>2. QED
    BY <2>1 DEF Covers
<1>5. QED
  BY <1>1, <1>2, <1>3, <1>4, OrderlyPush

LEMMA BlockOrderly ==
  ASSUME NEW b \in Bodies, NEW r, NEW S, SemaOK(b, r, S), NEW n \in 1 .. Len(b), NEW s, s.of = n, s.part # "let_element",
         b[n].kind \notin Loops,
         NEW z, Orderly(b, r, S, z), NEW i \in 1 .. Len(b[n].blocks),
         \A q \in 1 .. Len(z) : z[q].part = "turn" => Inner(s, z[q]),
         Covers(S, s, TurnsIn(z) # {})
  PROVE  Orderly(b, r, S, Block(b, n, i) \o z)
<1> DEFINE pre == Block(b, n, i)
<1>1. /\ pre \in Stack
      /\ \A p \in 1 .. Len(pre) : \E m \in 1 .. Len(b) : m < n /\ Child(b, n, m) /\ pre[p] = Part("statement", m)
  BY BlockIs
<1> HIDE DEF pre
<1>2. n \in Nat
  BY BodyIs
<1>3. PICK d \in S[n] : d = 0 \/ TurnsIn(z) # {}
  BY DEF Covers
<1>4. ASSUME NEW p \in 1 .. Len(pre)
      PROVE  /\ Mine(b, r, pre[p]) /\ pre[p].part # "turn" /\ pre[p].of < n
             /\ Covers(S, pre[p], TurnsIn(z) # {} \/ TurnAfter(pre, p))
  <2>1. PICK m \in 1 .. Len(b) : m < n /\ Child(b, n, m) /\ pre[p] = Part("statement", m)
    BY <1>1
  <2>2. pre[p].of = m /\ pre[p].part = "statement"
    BY <2>1, PartFields
  <2>3. Mine(b, r, pre[p])
    BY <2>1, <2>2 DEF Mine, Own
  <2>4. d \in S[m]
    BY <2>1 DEF SemaOK, Below
  <2>5. QED
    BY <1>3, <2>1, <2>2, <2>3, <2>4 DEF Covers
<1>5. Layered(pre)
  BY <1>4 DEF Layered
<1>6. ASSUME NEW p \in 1 .. Len(pre), NEW q \in 1 .. Len(z), z[q].part = "turn"
      PROVE  Inner(pre[p], z[q])
  <2>1. n < z[q].of
    BY <1>6 DEF Inner
  <2>2. z[q].of \in Nat
    <3>1. z \in Stack
      BY DEF Orderly
    <3>2. z[q] \in Frames
      BY <3>1, ElementOfSeq DEF Stack
    <3>3. QED
      BY <3>2 DEF Frames
  <2>3. pre[p].of < n /\ pre[p].of \in Nat
    <3>1. pre[p] \in Frames
      BY <1>1, ElementOfSeq DEF Stack
    <3>2. QED
      BY <1>4, <3>1 DEF Frames
  <2>4. QED
    BY <1>2, <2>1, <2>2, <2>3 DEF Inner
<1>7. Orderly(b, r, S, pre \o z)
  BY <1>1, <1>4, <1>5, <1>6, OrderlyPush
<1>8. QED
  BY <1>7 DEF pre

(* The body of a loop, with its turn *)
LEMMA BodyFrames ==
  ASSUME NEW b \in Bodies, NEW n \in 1 .. Len(b), b[n].kind \in Loops
  PROVE  LET u == LoopOf(b, n).body IN
         /\ u \in Stack
         /\ \A p \in 1 .. Len(u) :
              \/ b[n].kind = "for-in" /\ u[p] = Part("let_element", n)
              \/ \E m \in 1 .. Len(b) : m < n /\ Child(b, n, m) /\ u[p] = Part("statement", m)
<1> DEFINE k == Block(b, n, 1)
<1>1. 1 \in 1 .. Len(b[n].blocks) /\ n \in Nat
  BY BodyIs, BlockNumbers
<1>2. /\ k \in Stack
      /\ \A p \in 1 .. Len(k) : \E m \in 1 .. Len(b) : m < n /\ Child(b, n, m) /\ k[p] = Part("statement", m)
  BY <1>1, BlockIs
<1>3. b[n].kind = "for-in" => LoopOf(b, n).body = <<Part("let_element", n)>> \o k
  BY LoopIs
<1>4. b[n].kind # "for-in" => LoopOf(b, n).body = k
  BY LoopIs DEF Loops
<1> HIDE DEF k
<1>5. CASE b[n].kind = "for-in"
  <2>1. Part("let_element", n) \in Frames
    BY <1>1, PartIsFrame DEF Parts
  <2> DEFINE u == <<Part("let_element", n)>> \o k
  <2>2. /\ u \in Stack /\ Len(u) = Len(k) + 1 /\ u[1] = Part("let_element", n)
        /\ \A p \in 1 .. Len(k) : u[p + 1] = k[p]
    BY <1>2, <2>1, FirstIs, OnIs
  <2>3. Len(k) \in Nat
    BY <1>2, LenProperties DEF Stack
  <2>4. LoopOf(b, n).body = u
    BY <1>3, <1>5
  <2> HIDE DEF u
  <2>5. ASSUME NEW p \in 1 .. Len(u)
        PROVE  \/ b[n].kind = "for-in" /\ u[p] = Part("let_element", n)
               \/ \E m \in 1 .. Len(b) : m < n /\ Child(b, n, m) /\ u[p] = Part("statement", m)
    <3>1. CASE p = 1
      BY <1>5, <2>2, <3>1
    <3>2. CASE p # 1
      <4>1. p - 1 \in 1 .. Len(k) /\ (p - 1) + 1 = p
        BY <2>2, <2>3, <3>2
      <4>2. u[p] = k[p - 1]
        BY <2>2, <4>1
      <4>3. QED
        BY <1>2, <4>1, <4>2
    <3>3. QED
      BY <3>1, <3>2
  <2>6. QED
    BY <2>2, <2>4, <2>5
<1>6. CASE b[n].kind # "for-in"
  BY <1>2, <1>4, <1>6
<1>7. QED
  BY <1>5, <1>6

LEMMA BodyOrderly ==
  ASSUME NEW b \in Bodies, NEW r, NEW S, SemaOK(b, r, S), NEW n \in 1 .. Len(b), NEW s, s.of = n, s.part = "test",
         b[n].kind \in Loops, NEW z, Orderly(b, r, S, z),
         \A q \in 1 .. Len(z) : z[q].part = "turn" => Inner(s, z[q]),
         Covers(S, s, TurnsIn(z) # {})
  PROVE  Orderly(b, r, S, (LoopOf(b, n).body \o <<Part("turn", n)>>) \o z)
<1> DEFINE u == LoopOf(b, n).body
           t == <<Part("turn", n)>>
           pre == u \o t
<1>1. /\ u \in Stack
      /\ \A p \in 1 .. Len(u) :
           \/ b[n].kind = "for-in" /\ u[p] = Part("let_element", n)
           \/ \E m \in 1 .. Len(b) : m < n /\ Child(b, n, m) /\ u[p] = Part("statement", m)
  BY BodyFrames
<1>2. n \in Nat /\ t \in Stack /\ Len(t) = 1 /\ t[1] = Part("turn", n)
  <2>1. n \in Nat
    BY BodyIs
  <2>2. Part("turn", n) \in Frames
    BY <2>1, PartIsFrame DEF Parts
  <2>3. QED
    BY <2>1, <2>2, OneIs
<1> HIDE DEF u, t
<1>3. /\ pre \in Stack /\ Len(u) \in Nat /\ Len(pre) = Len(u) + 1
      /\ \A p \in 1 .. Len(u) : pre[p] = u[p]
      /\ pre[Len(u) + 1] = Part("turn", n)
  <2>1. /\ u \o t \in Stack /\ Len(u) \in Nat /\ Len(u \o t) = Len(u) + Len(t)
        /\ \A p \in 1 .. Len(u) : (u \o t)[p] = u[p]
        /\ \A p \in 1 .. Len(t) : (u \o t)[Len(u) + p] = t[p]
    BY <1>1, <1>2, Pushed
  <2>2. 1 \in 1 .. Len(t)
    BY <1>2
  <2>3. QED
    BY <1>2, <2>1, <2>2
<1> HIDE DEF pre
<1>4. PICK d \in S[n] : d = 0 \/ TurnsIn(z) # {}
  BY DEF Covers
<1>5. ASSUME NEW p \in 1 .. Len(u)
      PROVE  /\ Mine(b, r, pre[p]) /\ pre[p].part # "turn"
             /\ Inner(pre[p], Part("turn", n)) /\ pre[p].of <= n
             /\ Covers(S, pre[p], TurnsIn(z) # {} \/ TurnAfter(pre, p))
  <2>1. Part("turn", n).of = n /\ Part("turn", n).part = "turn"
    BY PartFields
  <2>2. TurnAfter(pre, p)
    <3>1. Len(u) + 1 \in 1 .. Len(pre) /\ p < Len(u) + 1
      BY <1>3
    <3>2. QED
      BY <1>3, <2>1, <3>1 DEF TurnAfter
  <2>3. CASE b[n].kind = "for-in" /\ u[p] = Part("let_element", n)
    <3>1. pre[p].of = n /\ pre[p].part = "let_element" /\ pre[p] = Part("let_element", n)
      BY <1>3, <2>3, PartFields
    <3>2. Own(b, n, pre[p])
      BY <2>3, <3>1 DEF Own
    <3>3. QED
      BY <1>2, <1>4, <2>1, <2>2, <3>1, <3>2 DEF Mine, Inner, Covers
  <2>4. CASE \E m \in 1 .. Len(b) : m < n /\ Child(b, n, m) /\ u[p] = Part("statement", m)
    <3>1. PICK m \in 1 .. Len(b) : m < n /\ Child(b, n, m) /\ u[p] = Part("statement", m)
      BY <2>4
    <3>2. pre[p] = Part("statement", m) /\ pre[p].of = m /\ pre[p].part = "statement"
      BY <1>3, <3>1, PartFields
    <3>3. Mine(b, r, pre[p])
      BY <3>2 DEF Mine, Own
    <3>4. d + 1 \in S[m]
      BY <3>1 DEF SemaOK, Below
    <3>5. Covers(S, pre[p], TurnsIn(z) # {} \/ TurnAfter(pre, p))
      BY <2>2, <3>2, <3>4 DEF Covers
    <3>6. m \in Nat
      BY BodyIs
    <3>7. QED
      BY <1>2, <2>1, <3>1, <3>2, <3>3, <3>5, <3>6 DEF Inner
  <2>5. QED
    BY <1>1, <2>3, <2>4
<1>6. /\ Mine(b, r, pre[Len(u) + 1]) /\ pre[Len(u) + 1].of = n
      /\ Covers(S, pre[Len(u) + 1], TurnsIn(z) # {} \/ TurnAfter(pre, Len(u) + 1))
  <2>1. pre[Len(u) + 1] = Part("turn", n) /\ pre[Len(u) + 1].of = n
    BY <1>3, PartFields
  <2>2. Own(b, n, pre[Len(u) + 1])
    BY <2>1 DEF Own
  <2>3. QED
    BY <1>4, <2>1, <2>2 DEF Mine, Covers
<1>7. \A p \in 1 .. Len(pre) : p \in 1 .. Len(u) \/ p = Len(u) + 1
  BY <1>3
<1>8. Layered(pre)
  <2>1. SUFFICES ASSUME NEW p \in 1 .. Len(pre), NEW q \in 1 .. Len(pre), p < q, pre[q].part = "turn"
                 PROVE  Inner(pre[p], pre[q])
    BY DEF Layered
  <2>2. q = Len(u) + 1
    BY <1>5, <1>7, <2>1
  <2>3. p \in 1 .. Len(u)
    BY <1>3, <2>1, <2>2
  <2>4. QED
    BY <1>3, <1>5, <2>2, <2>3
<1>9. ASSUME NEW p \in 1 .. Len(pre), NEW q \in 1 .. Len(z), z[q].part = "turn"
      PROVE  Inner(pre[p], z[q])
  <2>1. n < z[q].of
    BY <1>9 DEF Inner
  <2>2. z[q].of \in Nat
    <3>1. z \in Stack
      BY DEF Orderly
    <3>2. z[q] \in Frames
      BY <3>1, ElementOfSeq DEF Stack
    <3>3. QED
      BY <3>2 DEF Frames
  <2>3. pre[p].of <= n /\ pre[p].of \in Nat
    <3>1. pre[p] \in Frames
      BY <1>3, ElementOfSeq DEF Stack
    <3>2. pre[p].of <= n
      BY <1>2, <1>5, <1>6, <1>7
    <3>3. QED
      BY <3>1, <3>2 DEF Frames
  <2>4. QED
    BY <1>2, <2>1, <2>2, <2>3 DEF Inner
<1>10. \A p \in 1 .. Len(pre) : Mine(b, r, pre[p]) /\ Covers(S, pre[p], TurnsIn(z) # {} \/ TurnAfter(pre, p))
  BY <1>5, <1>6, <1>7
<1>11. Orderly(b, r, S, pre \o z)
  BY <1>3, <1>8, <1>9, <1>10, OrderlyPush
<1>12. QED
  BY <1>11 DEF pre, u, t

LEMMA SpawnsOrderly ==
  ASSUME NEW b \in Bodies, NEW r, NEW S, SemaOK(b, r, S), NEW n \in 1 .. Len(b), NEW s, s.of = n,
         NEW z, Orderly(b, r, S, z), NEW pre, Spawns(b, s, pre),
         \A q \in 1 .. Len(z) : z[q].part = "turn" => Inner(s, z[q]),
         Covers(S, s, TurnsIn(z) # {})
  PROVE  Orderly(b, r, S, pre \o z)
<1>1. pre \in Stack /\ z \in Stack
  BY DEF Spawns, Orderly
<1>2. CASE pre = <<>>
  <2>1. pre \o z = z
    BY <1>1, <1>2, NonePushed
  <2>2. QED
    BY <2>1
<1>3. CASE s.part # "let_element" /\ \A p \in 1 .. Len(pre) : Own(b, n, pre[p]) /\ pre[p].part \notin {"turn", "let_element"}
  <2>1. \A p \in 1 .. Len(pre) : Quiets(b, n, pre[p])
    BY <1>3 DEF Quiets
  <2>2. QED
    BY <1>1, <1>3, <2>1, QuietOrderly
<1>4. CASE s.part # "let_element" /\ b[n].kind \notin Loops /\ \E i \in 1 .. Len(b[n].blocks) : pre = Block(b, n, i)
  <2>1. PICK i \in 1 .. Len(b[n].blocks) : pre = Block(b, n, i)
    BY <1>4
  <2>2. Orderly(b, r, S, Block(b, n, i) \o z)
    BY <1>4, BlockOrderly
  <2>3. QED
    BY <2>1, <2>2
<1>5. CASE s.part = "test" /\ b[n].kind \in Loops /\ pre = LoopOf(b, n).body \o <<Part("turn", n)>>
  <2>1. Orderly(b, r, S, (LoopOf(b, n).body \o <<Part("turn", n)>>) \o z)
    BY <1>5, BodyOrderly
  <2>2. QED
    BY <1>5, <2>1
<1>6. QED
  BY <1>2, <1>3, <1>4, <1>5 DEF Spawns

LEMMA OrderlyDrop ==
  ASSUME NEW b, NEW r, NEW S, NEW z, Orderly(b, r, S, z), NEW i \in 1 .. Len(z) + 1
  PROVE  /\ Orderly(b, r, S, SubSeq(z, i, Len(z))) /\ Len(SubSeq(z, i, Len(z))) = Len(z) - i + 1
         /\ \A p \in 1 .. Len(z) - i + 1 : SubSeq(z, i, Len(z))[p] = z[i + p - 1]
<1> DEFINE u == SubSeq(z, i, Len(z))
<1>1. z \in Stack /\ Len(z) \in Nat
  BY LenProperties DEF Orderly, Stack
<1>2. i \in Int /\ i >= 1 /\ i <= Len(z) + 1 /\ \A p \in i .. Len(z) : p \in 1 .. Len(z)
  BY <1>1
<1>3. \A p \in i .. Len(z) : z[p] \in Frames
  BY <1>1, <1>2, ElementOfSeq DEF Stack
<1>4. /\ u \in Stack /\ Len(u) = IF i <= Len(z) THEN Len(z) - i + 1 ELSE 0
      /\ \A p \in 1 .. Len(z) - i + 1 : u[p] = z[i + p - 1]
  BY <1>1, <1>2, <1>3, SubSeqProperties DEF Stack
<1> HIDE DEF u
<1>5. Len(u) = Len(z) - i + 1
  BY <1>1, <1>2, <1>4
<1>6. i - 1 \in Nat /\ Len(u) + (i - 1) = Len(z)
  BY <1>1, <1>2, <1>5
<1>7. \A p \in 1 .. Len(u) : u[p] = z[p + (i - 1)]
  <2>1. ASSUME NEW p \in 1 .. Len(u)
        PROVE  u[p] = z[p + (i - 1)]
    <3>1. u[p] = z[i + p - 1] /\ i + p - 1 = p + (i - 1)
      BY <1>2, <1>4, <1>5
    <3>2. QED
      BY <3>1
  <2>2. QED
    BY <2>1
<1> DEFINE j == i - 1
<1>8. j \in Nat /\ Len(u) + j = Len(z) /\ \A p \in 1 .. Len(u) : u[p] = z[p + j]
  BY <1>6, <1>7
<1> HIDE DEF j
<1>9. Orderly(b, r, S, u)
  BY <1>4, <1>8, OrderlyPart
<1>10. QED
  BY <1>4, <1>5, <1>9 DEF u

(* A break or continue has its loop, and a statement is not within itself. *)
LEMMA HeadInLoop ==
  ASSUME NEW b \in Bodies, NEW r, NEW S, SemaOK(b, r, S), NEW cc, Orderly(b, r, S, cc), cc # <<>>
  PROVE  /\ Kind(b, Head(cc)) \in {"break", "continue"} => Innermost(Tail(cc)) > 0
         /\ Head(cc).part \in {"statement", "turn"} => Outside(Head(cc).of, Tail(cc))
<1> DEFINE s == Head(cc)
           z == Tail(cc)
<1>1. /\ s \in Frames /\ z \in Stack /\ Mine(b, r, s)
      /\ \A q \in 1 .. Len(z) : z[q].part = "turn" => Inner(s, z[q])
      /\ s # Return0 => Covers(S, s, TurnsIn(z) # {})
  BY OrderlyTail
<1> HIDE DEF s, z
<1>2. ASSUME Kind(b, s) \in {"break", "continue"}
      PROVE  Innermost(z) > 0
  <2>1. s # Return0
    BY <1>2, Return0Is DEF Kind
  <2>2. s.of \in 1 .. Len(b) /\ Own(b, s.of, s)
    BY <1>1, <2>1 DEF Mine
  <2>3. s.part = "statement" /\ b[s.of].kind \in {"break", "continue"}
    <3>1. s.part \in Parts
      BY <1>1 DEF Frames
    <3>2. QED
      BY <1>2, <3>1 DEF Kind, Parts
  <2>4. PICK d \in S[s.of] : d = 0 \/ TurnsIn(z) # {}
    BY <1>1, <2>1 DEF Covers
  <2>5. d > 0
    BY <2>2, <2>3, <2>4 DEF SemaOK, Allowed
  <2>6. TurnsIn(z) # {}
    BY <2>4, <2>5
  <2>7. QED
    BY <1>1, <2>6, InnermostIs
<1>3. ASSUME s.part \in {"statement", "turn"}
      PROVE  Outside(s.of, z)
  <2>1. SUFFICES ASSUME NEW q \in 1 .. Len(z), z[q].part = "turn"
                 PROVE  z[q].of # s.of
    BY DEF Outside
  <2>2. s.of < z[q].of
    BY <1>1, <1>3, <2>1 DEF Inner
  <2>3. s.of \in Nat /\ z[q].of \in Nat
    <3>1. z[q] \in Frames
      BY <1>1, ElementOfSeq DEF Stack
    <3>2. QED
      BY <1>1, <3>1 DEF Frames
  <2>4. QED
    BY <2>2, <2>3
<1>4. QED
  BY <1>2, <1>3 DEF s, z

LEMMA Return0Move ==
  ASSUME NEW b, NEW z \in Stack, NEW h, NEW r, NEW m \in CMoves(b, <<Return0>> \o z, h, r)
  PROVE  m.rest = Ended /\ m.event = <<"end", "status">>
<1>1. Return0 \in Frames /\ Return0.part = "return_0"
  BY Return0Is
<1>2. m \in HiddenMoves(b, Return0, z, h, r)
  BY <1>1, CMovesAre
<1>3. Kind(b, Return0) = "return_0"
  BY <1>1 DEF Kind
<1>4. m = Move(<<"end", "status">>, Ended, h)
  BY <1>2, <1>3 DEF HiddenMoves
<1>5. QED
  BY <1>4 DEF Move

LEMMA OrderlyMove ==
  ASSUME NEW b \in Bodies, NEW r, NEW S, SemaOK(b, r, S), NEW cc, Orderly(b, r, S, cc), NEW h, NEW m \in CMoves(b, cc, h, r)
  PROVE  m.rest = Ended \/ Orderly(b, r, S, m.rest)
<1>1. CASE cc = <<>>
  BY <1>1 DEF CMoves, Move
<1>2. CASE cc # <<>>
  <2> DEFINE s == Head(cc)
             z == Tail(cc)
  <2>1. /\ s \in Frames /\ z \in Stack /\ cc = <<s>> \o z
        /\ Orderly(b, r, S, z) /\ Mine(b, r, s)
        /\ \A q \in 1 .. Len(z) : z[q].part = "turn" => Inner(s, z[q])
        /\ s # Return0 => Covers(S, s, TurnsIn(z) # {})
    BY <1>2, OrderlyTail
  <2>2. Kind(b, s) \in {"break", "continue"} => Innermost(z) > 0
    BY <1>2, HeadInLoop
  <2> HIDE DEF s, z
  <2>3. m \in CMoves(b, <<s>> \o z, h, r)
    BY <2>1
  <2>4. CASE s = Return0
    <3>1. m \in CMoves(b, <<Return0>> \o z, h, r)
      BY <2>3, <2>4
    <3>2. QED
      BY <2>1, <3>1, Return0Move
  <2>5. CASE s # Return0
    <3>1. s.of \in 1 .. Len(b) /\ Own(b, s.of, s)
      BY <2>1, <2>5 DEF Mine
    <3>2. PICK n \in 1 .. Len(b) : s.of = n /\ Own(b, n, s)
      BY <3>1
    <3>3. Shape(b, s, z, r, m)
      BY <2>1, <2>3, <3>2, MoveShape
    <3>4. CASE m.rest = Ended
      BY <3>4
    <3>5. CASE Kind(b, s) \in {"break", "continue"} /\ \E i \in {Innermost(z), Innermost(z) + 1} : m.rest = SubSeq(z, i, Len(z))
      <4>1. PICK i \in {Innermost(z), Innermost(z) + 1} : m.rest = SubSeq(z, i, Len(z))
        BY <3>5
      <4>2. Innermost(z) \in 1 .. Len(z) /\ Len(z) \in Nat
        BY <2>1, <2>2, <3>5, InnermostIs, LenProperties DEF Stack
      <4>3. i \in 1 .. Len(z) + 1
        BY <4>1, <4>2
      <4>4. QED
        BY <2>1, <4>1, <4>3, OrderlyDrop
    <3>6. CASE \E pre : m.rest = pre \o z /\ Spawns(b, s, pre) /\ KeepsLast(b, s, pre)
      <4>1. PICK pre : m.rest = pre \o z /\ Spawns(b, s, pre)
        BY <3>6
      <4>2. Orderly(b, r, S, pre \o z)
        BY <2>1, <2>5, <3>2, <4>1, SpawnsOrderly
      <4>3. QED
        BY <4>1, <4>2
    <3>7. QED
      BY <3>3, <3>4, <3>5, <3>6 DEF Shape
  <2>6. QED
    BY <2>4, <2>5
<1>3. QED
  BY <1>1, <1>2

-------------------------------------------------------------------------------
(* The last frame: main's return 0;, or one after which the function        *)
(* returns; so that the C does not come to the end of a function with a     *)
(* value.  R are the statements that end in a return.                       *)

Floor(r, R, f) ==
  /\ r = "status" => f = Return0
  /\ r = "value" => LastIn(R, f)

Floored(r, R, cc) == r # "nothing" => cc # <<>> /\ Floor(r, R, cc[Len(cc)])

LEMMA FloorPush ==
  ASSUME NEW r, NEW R, NEW z \in Stack, NEW pre \in Stack,
         r # "nothing" => \/ z # <<>> /\ Floor(r, R, z[Len(z)])
                          \/ z = <<>> /\ pre # <<>> /\ Floor(r, R, pre[Len(pre)])
  PROVE  Floored(r, R, pre \o z)
<1> DEFINE u == pre \o z
<1>1. /\ u \in Stack /\ Len(pre) \in Nat /\ Len(z) \in Nat /\ Len(u) = Len(pre) + Len(z)
      /\ \A p \in 1 .. Len(pre) : u[p] = pre[p]
      /\ \A p \in 1 .. Len(z) : u[Len(pre) + p] = z[p]
  BY Pushed
<1> HIDE DEF u
<1>2. SUFFICES ASSUME r # "nothing"
               PROVE  u # <<>> /\ Floor(r, R, u[Len(u)])
  BY DEF Floored, u
<1>3. ASSUME NEW k \in Stack, k # <<>>
      PROVE  Len(k) \in Nat /\ Len(k) >= 1
  BY <1>3, StackIs
<1>4. CASE z # <<>> /\ Floor(r, R, z[Len(z)])
  <2>1. Len(z) \in 1 .. Len(z) /\ Len(u) # 0
    BY <1>1, <1>3, <1>4
  <2>2. u[Len(u)] = z[Len(z)]
    BY <1>1, <2>1
  <2>3. u # <<>>
    <3>1. Len(<<>>) = 0
      OBVIOUS
    <3>2. QED
      BY <2>1, <3>1
  <2>4. QED
    BY <1>4, <2>2, <2>3
<1>5. CASE z = <<>> /\ pre # <<>> /\ Floor(r, R, pre[Len(pre)])
  <2>1. Len(z) = 0
    BY <1>5
  <2>2. Len(pre) \in 1 .. Len(pre) /\ Len(u) = Len(pre) /\ Len(u) # 0
    BY <1>1, <1>3, <1>5, <2>1
  <2>3. u[Len(u)] = pre[Len(pre)]
    BY <1>1, <2>2
  <2>4. u # <<>>
    <3>1. Len(<<>>) = 0
      OBVIOUS
    <3>2. QED
      BY <2>2, <3>1
  <2>5. QED
    BY <1>5, <2>3, <2>4
<1>6. QED
  BY <1>2, <1>4, <1>5

(* The last frame of what is under the first, or the first *)
LEMMA FloorUnder ==
  ASSUME NEW r, NEW R, NEW cc \in Stack, cc # <<>>, Floored(r, R, cc), r # "nothing"
  PROVE  \/ Tail(cc) # <<>> /\ Floor(r, R, Tail(cc)[Len(Tail(cc))])
         \/ Tail(cc) = <<>> /\ Floor(r, R, Head(cc))
<1> DEFINE z == Tail(cc)
<1>1. /\ z \in Stack /\ Len(cc) \in Nat /\ Len(cc) >= 1 /\ Head(cc) = cc[1]
      /\ Len(z) = Len(cc) - 1 /\ \A p \in 1 .. Len(cc) - 1 : z[p] = cc[p + 1]
  BY StackIs
<1>2. Floor(r, R, cc[Len(cc)])
  BY DEF Floored
<1> HIDE DEF z
<1>3. CASE z = <<>>
  <2>1. Len(z) = 0
    BY <1>3
  <2>2. Len(cc) = 1
    BY <1>1, <2>1
  <2>3. QED
    BY <1>1, <1>2, <1>3, <2>2 DEF z
<1>4. CASE z # <<>>
  <2>1. Len(z) \in Nat /\ Len(z) >= 1
    BY <1>1, <1>4, StackIs
  <2>2. Len(z) \in 1 .. Len(cc) - 1 /\ Len(z) + 1 = Len(cc)
    BY <1>1, <2>1
  <2>3. z[Len(z)] = cc[Len(cc)]
    BY <1>1, <2>2
  <2>4. QED
    BY <1>2, <1>4, <2>3 DEF z
<1>5. QED
  BY <1>3, <1>4

LEMMA FlooredMove ==
  ASSUME NEW b \in Bodies, NEW r \in {"status", "nothing", "value"}, NEW S, SemaOK(b, r, S),
         NEW cc, Orderly(b, r, S, cc), NEW R, Returning(b, R), Floored(r, R, cc), NEW h, NEW m \in CMoves(b, cc, h, r)
  PROVE  /\ m.rest = Ended \/ Floored(r, R, m.rest)
         /\ NotEnd(m.event) \/ m.event = <<"end", r>>
<1>1. CASE cc = <<>>
  <2>1. r = "nothing"
    BY <1>1 DEF Floored
  <2>2. m = Move(<<"end", "nothing">>, Ended, h)
    BY <1>1 DEF CMoves
  <2>3. QED
    BY <2>1, <2>2 DEF Move
<1>2. CASE cc # <<>>
  <2> DEFINE s == Head(cc)
             z == Tail(cc)
  <2>1. /\ cc \in Stack /\ s \in Frames /\ z \in Stack /\ cc = <<s>> \o z /\ Mine(b, r, s)
        /\ s # Return0 => Covers(S, s, TurnsIn(z) # {})
    BY <1>2, OrderlyTail
  <2>2. Kind(b, s) \in {"break", "continue"} => Innermost(z) > 0
    BY <1>2, HeadInLoop
  <2>3. r # "nothing" => \/ z # <<>> /\ Floor(r, R, z[Len(z)])
                         \/ z = <<>> /\ Floor(r, R, s)
    BY <1>2, <2>1, FloorUnder
  <2> HIDE DEF s, z
  <2>4. m \in CMoves(b, <<s>> \o z, h, r)
    BY <2>1
  <2>5. CASE s = Return0
    <3>1. m \in CMoves(b, <<Return0>> \o z, h, r)
      BY <2>4, <2>5
    <3>2. m.rest = Ended /\ m.event = <<"end", "status">>
      <4>1. z \in Stack
        BY <2>1
      <4>2. QED
        BY <3>1, <4>1, Return0Move
    <3>3. r = "status"
      BY <2>1, <2>5, Return0Is DEF Mine, Own
    <3>4. QED
      BY <3>2, <3>3
  <2>6. CASE s # Return0
    <3>1. s.of \in 1 .. Len(b) /\ Own(b, s.of, s)
      BY <2>1, <2>6 DEF Mine
    <3>2. PICK n \in 1 .. Len(b) : s.of = n /\ Own(b, n, s)
      BY <3>1
    <3>3. Shape(b, s, z, r, m)
      BY <2>1, <2>4, <3>2, MoveShape
    <3>4. CASE Kind(b, s) = "return" /\ m.rest = Ended /\ m.event = <<"end", Leaves(b[s.of].gives, r)>>
      <4>1. b[n].kind = "return"
        <5>1. s.part \in Parts
          BY <2>1 DEF Frames
        <5>2. QED
          BY <3>2, <3>4, <5>1 DEF Kind, Parts
      <4>2. b[n].gives <=> r = "value"
        <5>1. PICK d \in S[n] : d = 0 \/ TurnsIn(z) # {}
          BY <2>1, <2>6, <3>2 DEF Covers
        <5>2. QED
          BY <4>1, <5>1 DEF SemaOK, Allowed
      <4>3. Leaves(b[s.of].gives, r) = r
        BY <3>2, <4>2 DEF Leaves
      <4>4. QED
        BY <3>4, <4>3
    <3>5. CASE /\ Kind(b, s) \in {"break", "continue"} /\ NotEnd(m.event)
               /\ \E i \in {Innermost(z), Innermost(z) + 1} : m.rest = SubSeq(z, i, Len(z))
      <4>1. PICK i \in {Innermost(z), Innermost(z) + 1} : m.rest = SubSeq(z, i, Len(z))
        BY <3>5
      <4>2. /\ Innermost(z) \in 1 .. Len(z) /\ Len(z) \in Nat /\ z[Innermost(z)].part = "turn"
        BY <2>1, <2>2, <3>5, InnermostIs, LenProperties DEF Stack
      <4>3. i \in 1 .. Len(z) + 1
        BY <4>1, <4>2
      <4>4. /\ Len(m.rest) = Len(z) - i + 1 /\ \A p \in 1 .. Len(z) - i + 1 : m.rest[p] = z[i + p - 1]
        <5>1. Orderly(b, r, S, z)
          BY <1>2, OrderlyTail DEF z
        <5>2. QED
          BY <4>1, <4>3, <5>1, OrderlyDrop
      <4>5. ASSUME r # "nothing"
            PROVE  m.rest # <<>> /\ Floor(r, R, m.rest[Len(m.rest)])
        <5>1. z # <<>>
          <6>1. Len(<<>>) = 0
            OBVIOUS
          <6>2. QED
            BY <4>2, <6>1
        <5>2. Floor(r, R, z[Len(z)])
          BY <2>3, <4>5, <5>1
        <5>3. z[Len(z)].part # "turn"
          BY <4>5, <5>2, Return0Is DEF Floor, LastIn
        <5>4. Innermost(z) # Len(z)
          BY <4>2, <5>3
        <5>5. Len(m.rest) \in 1 .. Len(z) - i + 1 /\ i + Len(m.rest) - 1 = Len(z)
          <6>1. i \in Int /\ i <= Len(z) /\ i >= 1 /\ Len(z) \in Nat
            BY <4>1, <4>2, <5>4
          <6>2. Len(m.rest) = Len(z) - i + 1
            BY <4>4
          <6>3. QED
            BY <6>1, <6>2
        <5>6. m.rest[Len(m.rest)] = z[Len(z)]
          BY <4>4, <5>5
        <5>7. m.rest # <<>>
          <6>1. Len(<<>>) = 0
            OBVIOUS
          <6>2. QED
            BY <5>5, <6>1
        <5>8. QED
          BY <5>2, <5>6, <5>7
      <4>6. QED
        BY <3>5, <4>5 DEF Floored
    <3>6. CASE NotEnd(m.event) /\ \E pre : m.rest = pre \o z /\ Spawns(b, s, pre) /\ KeepsLast(b, s, pre)
      <4>1. PICK pre : m.rest = pre \o z /\ Spawns(b, s, pre) /\ KeepsLast(b, s, pre)
        BY <3>6
      <4>2. pre \in Stack
        BY <4>1 DEF Spawns
      <4>3. ASSUME r # "nothing", z = <<>>, Floor(r, R, s)
            PROVE  pre # <<>> /\ Floor(r, R, pre[Len(pre)])
        <5>1. r = "value" /\ LastIn(R, s)
          BY <2>6, <4>3 DEF Floor
        <5>2. pre # <<>> /\ LastIn(R, pre[Len(pre)])
          BY <4>1, <5>1 DEF KeepsLast
        <5>3. QED
          BY <5>1, <5>2 DEF Floor
      <4>4. Floored(r, R, pre \o z)
        BY <2>1, <2>3, <4>2, <4>3, FloorPush
      <4>5. QED
        BY <3>6, <4>1, <4>4
    <3>7. QED
      BY <3>3, <3>4, <3>5, <3>6 DEF Shape
  <2>7. QED
    BY <2>5, <2>6
<1>3. QED
  BY <1>1, <1>2

-------------------------------------------------------------------------------
(* sema's walk.  w is what it has still to check and D the number of loops  *)
(* around each of it; S are the statements that are checked.                *)

ChildIn(b, n, i, m) == \E p \in 1 .. Len(b[n].blocks[i]) : m = b[n].blocks[i][p]

(* A frame f of the walk at depth d has statement m checked at depth x. *)
Will(b, f, d, m, x) ==
  \/ f = Part("statement", m) /\ x = d
  \/ f.part = "for" /\ x = d + 1 /\ Child(b, f.of, m)
  \/ f.part = "case" /\ x = d /\ \E i \in 1 .. Len(b[f.of].blocks) : f.at[1] <= i /\ ChildIn(b, f.of, i, m)

Soon(b, w, D, m, x) == \E p \in 1 .. Len(w) : Will(b, w[p], D[p], m, x)

Walked(b, f) ==
  /\ f.of \in 1 .. Len(b)
  /\ Own(b, f.of, f) \/ f = Part("loop_depth--", f.of)

Down(f) == IF f.part = "loop_depth--" THEN 1 ELSE 0

Walking(b, r, S, D, w, d) ==
  /\ w \in Stack /\ D \in [1 .. Len(w) + 1 -> Nat] /\ D[1] = d
  /\ \A p \in 1 .. Len(w) : Walked(b, w[p]) /\ D[p + 1] = D[p] - Down(w[p])
  /\ S \in [1 .. Len(b) -> SUBSET Nat]
  /\ 0 \in S[Len(b)] \/ Soon(b, w, D, Len(b), 0)
  /\ \A n \in 1 .. Len(b) : \A x \in S[n] :
       /\ Allowed(b, r, n, x)
       /\ \A m : Child(b, n, m) => Below(b, n, x) \in S[m] \/ Soon(b, w, D, m, Below(b, n, x))

(* What check_stmt goes into, pre, takes over what its frame s was to check *)
(* at depth d.                                                              *)
Checks(b, pre, d, m, x) == \E p \in 1 .. Len(pre) : Will(b, pre[p], d, m, x)

TakesOver(b, s, d, d1, pre) ==
  /\ s.part = "statement" => \A m : Child(b, s.of, m) => Checks(b, pre, d1, m, Below(b, s.of, d))
  /\ s.part # "statement" => \A m, x : Will(b, s, d, m, x) => Checks(b, pre, d1, m, x)

Continues(b, s, d, d1, pre) ==
  /\ pre \in Stack /\ \A p \in 1 .. Len(pre) : Walked(b, pre[p])
  /\ \/ /\ s.part # "loop_depth--" /\ d1 = d + 1 /\ Len(pre) >= 1
        /\ \A p \in 1 .. Len(pre) : pre[p].part = "loop_depth--" <=> p = Len(pre)
     \/ d1 = d - Down(s) /\ \A p \in 1 .. Len(pre) : pre[p].part # "loop_depth--"
  /\ TakesOver(b, s, d, d1, pre)

LEMMA ChildIs ==
  ASSUME NEW b, NEW n, NEW m
  PROVE  Child(b, n, m) <=> \E i \in 1 .. Len(b[n].blocks) : ChildIn(b, n, i, m)
BY DEF Child, ChildIn

LEMMA QuietWalked ==
  ASSUME NEW b \in Bodies, NEW n \in 1 .. Len(b), NEW f, Quiets(b, n, f)
  PROVE  Walked(b, f) /\ f.part # "loop_depth--"
<1>1. Own(b, n, f)
  BY DEF Quiets
<1>2. f.of = n /\ f.part # "loop_depth--"
  BY <1>1, OwnIs
<1>3. QED
  BY <1>1, <1>2 DEF Walked

LEMMA BlockChecks ==
  ASSUME NEW b \in Bodies, NEW n \in 1 .. Len(b), NEW i \in 1 .. Len(b[n].blocks)
  PROVE  LET u == Block(b, n, i) IN
         /\ u \in Stack
         /\ \A p \in 1 .. Len(u) : Walked(b, u[p]) /\ u[p].part # "loop_depth--"
         /\ \A m, d : ChildIn(b, n, i, m) => Checks(b, u, d, m, d)
<1> DEFINE u == Block(b, n, i)
<1>1. /\ u \in Stack /\ Len(u) = Len(b[n].blocks[i])
      /\ \A p \in 1 .. Len(u) :
           \E m \in 1 .. Len(b) : m = b[n].blocks[i][p] /\ m < n /\ Child(b, n, m) /\ u[p] = Part("statement", m)
  BY BlockIs
<1> HIDE DEF u
<1>2. ASSUME NEW p \in 1 .. Len(u)
      PROVE  Walked(b, u[p]) /\ u[p].part # "loop_depth--"
  <2>1. PICK m \in 1 .. Len(b) : u[p] = Part("statement", m)
    BY <1>1
  <2>2. u[p].of = m /\ u[p].part = "statement"
    BY <2>1, PartFields
  <2>3. QED
    BY <2>1, <2>2 DEF Walked, Own
<1>3. ASSUME NEW m, NEW d, ChildIn(b, n, i, m)
      PROVE  Checks(b, u, d, m, d)
  <2>1. PICK p \in 1 .. Len(b[n].blocks[i]) : m = b[n].blocks[i][p]
    BY <1>3 DEF ChildIn
  <2>2. p \in 1 .. Len(u) /\ u[p] = Part("statement", m)
    BY <1>1, <2>1
  <2>3. QED
    BY <2>2 DEF Checks, Will
<1>4. QED
  BY <1>1, <1>2, <1>3 DEF u

(* Two sequences of frames that sema goes into check what either does. *)
LEMMA ChecksBoth ==
  ASSUME NEW b, NEW u \in Stack, NEW v \in Stack,
         \A p \in 1 .. Len(u) : Walked(b, u[p]) /\ u[p].part # "loop_depth--",
         \A p \in 1 .. Len(v) : Walked(b, v[p]) /\ v[p].part # "loop_depth--"
  PROVE  /\ u \o v \in Stack
         /\ \A p \in 1 .. Len(u \o v) : Walked(b, (u \o v)[p]) /\ (u \o v)[p].part # "loop_depth--"
         /\ \A m, d, x : Checks(b, u, d, m, x) \/ Checks(b, v, d, m, x) => Checks(b, u \o v, d, m, x)
<1> DEFINE w == u \o v
<1>1. /\ w \in Stack /\ Len(u) \in Nat /\ Len(v) \in Nat /\ Len(w) = Len(u) + Len(v)
      /\ \A p \in 1 .. Len(u) : w[p] = u[p]
      /\ \A p \in 1 .. Len(v) : w[Len(u) + p] = v[p]
      /\ \A p \in 1 .. Len(w) : p \in 1 .. Len(u) \/ (p - Len(u) \in 1 .. Len(v) /\ w[p] = v[p - Len(u)])
  BY Pushed
<1> HIDE DEF w
<1>2. \A p \in 1 .. Len(w) : Walked(b, w[p]) /\ w[p].part # "loop_depth--"
  BY <1>1
<1>3. ASSUME NEW m, NEW d, NEW x, Checks(b, u, d, m, x)
      PROVE  Checks(b, w, d, m, x)
  <2>1. PICK p \in 1 .. Len(u) : Will(b, u[p], d, m, x)
    BY <1>3 DEF Checks
  <2>2. p \in 1 .. Len(w) /\ w[p] = u[p]
    BY <1>1
  <2>3. QED
    BY <2>1, <2>2 DEF Checks
<1>4. ASSUME NEW m, NEW d, NEW x, Checks(b, v, d, m, x)
      PROVE  Checks(b, w, d, m, x)
  <2>1. PICK p \in 1 .. Len(v) : Will(b, v[p], d, m, x)
    BY <1>4 DEF Checks
  <2>2. Len(u) + p \in 1 .. Len(w) /\ w[Len(u) + p] = v[p]
    BY <1>1
  <2>3. QED
    BY <2>1, <2>2 DEF Checks
<1>5. QED
  BY <1>1, <1>2, <1>3, <1>4 DEF w

LEMMA ContinuesSame ==
  ASSUME NEW b, NEW s, s.part # "loop_depth--", NEW d \in Nat, NEW pre \in Stack,
         \A p \in 1 .. Len(pre) : Walked(b, pre[p]) /\ pre[p].part # "loop_depth--",
         TakesOver(b, s, d, d, pre)
  PROVE  Continues(b, s, d, d, pre)
BY DEF Continues, Down

(* Where check_stmt goes into nothing, there was nothing more to check. *)
LEMMA NoneContinues ==
  ASSUME NEW b \in Bodies, NEW s \in Frames, Walked(b, s), NEW d \in Nat,
         Kind(b, s) \notin {"block", "if", "for-in", "branch", "case", "while", "for"}
  PROVE  Continues(b, s, d, d - Down(s), <<>>)
<1>1. <<>> \in Stack /\ Len(<<>>) = 0
  BY DEF Stack
<1>2. s.of \in 1 .. Len(b) /\ s.part \in Parts
  BY DEF Walked, Frames
<1>3. ASSUME s.part = "statement", NEW m, Child(b, s.of, m)
      PROVE  FALSE
  <2>1. b[s.of].kind \in Kinds \ {"block", "if", "for-in", "branch", "while", "for"}
    <3>1. b[s.of].kind \in Kinds
      BY <1>2, BodyIs
    <3>2. b[s.of].kind = Kind(b, s)
      BY <1>3 DEF Kind
    <3>3. QED
      BY <3>1, <3>2
  <2>2. Len(b[s.of].blocks) = 0
    <3>1. Len(b[s.of].blocks) = BlocksOf(b[s.of])
      BY <1>2, BodyIs
    <3>2. QED
      BY <2>1, <3>1 DEF BlocksOf, Loops
  <2>3. QED
    BY <1>3, <2>2 DEF Child
<1>4. ASSUME s.part # "statement", NEW m, NEW x, Will(b, s, d, m, x)
      PROVE  FALSE
  <2>1. s.part \notin {"for", "case"}
    BY <1>4 DEF Kind
  <2>2. QED
    BY <1>4, <2>1, PartFields DEF Will
<1>5. TakesOver(b, s, d, d - Down(s), <<>>)
  BY <1>3, <1>4 DEF TakesOver
<1>6. QED
  BY <1>1, <1>5 DEF Continues

LEMMA BlockContinues ==
  ASSUME NEW b \in Bodies, NEW n \in 1 .. Len(b), b[n].kind = "block", NEW s, s = Part("statement", n), NEW d \in Nat
  PROVE  Continues(b, s, d, d, Block(b, n, 1))
<1> DEFINE u == Block(b, n, 1)
<1>1. s.part = "statement" /\ s.of = n
  BY PartFields
<1>2. 1 \in 1 .. Len(b[n].blocks) /\ Len(b[n].blocks) = 1
  BY BlockNumbers, BodyIs DEF BlocksOf, Loops
<1>3. /\ u \in Stack
      /\ \A p \in 1 .. Len(u) : Walked(b, u[p]) /\ u[p].part # "loop_depth--"
      /\ \A m, x : ChildIn(b, n, 1, m) => Checks(b, u, x, m, x)
  BY <1>2, BlockChecks
<1> HIDE DEF u
<1>4. ASSUME NEW m, Child(b, n, m)
      PROVE  Checks(b, u, d, m, d)
  <2>1. ChildIn(b, n, 1, m)
    <3>1. \A i \in 1 .. Len(b[n].blocks) : i = 1
      BY <1>2
    <3>2. PICK i \in 1 .. Len(b[n].blocks) : ChildIn(b, n, i, m)
      BY <1>4, ChildIs
    <3>3. QED
      BY <3>1, <3>2
  <2>2. QED
    BY <1>3, <2>1
<1>5. Below(b, n, d) = d
  BY DEF Below, Loops
<1>6. TakesOver(b, s, d, d, u)
  BY <1>1, <1>4, <1>5 DEF TakesOver
<1>7. Continues(b, s, d, d, u)
  BY <1>1, <1>3, <1>6, ContinuesSame
<1>8. QED
  BY <1>7 DEF u

LEMMA IfContinues ==
  ASSUME NEW b \in Bodies, NEW n \in 1 .. Len(b), b[n].kind = "if", NEW s, s = Part("statement", n), NEW d \in Nat
  PROVE  Continues(b, s, d, d, Block(b, n, 1) \o Block(b, n, 2))
<1> DEFINE u == Block(b, n, 1)
           v == Block(b, n, 2)
<1>1. s.part = "statement" /\ s.of = n
  BY PartFields
<1>2. 1 \in 1 .. Len(b[n].blocks) /\ 2 \in 1 .. Len(b[n].blocks) /\ Len(b[n].blocks) = 2
  BY BlockNumbers, BodyIs DEF BlocksOf, Loops
<1>3. /\ u \in Stack
      /\ \A p \in 1 .. Len(u) : Walked(b, u[p]) /\ u[p].part # "loop_depth--"
      /\ \A m, x : ChildIn(b, n, 1, m) => Checks(b, u, x, m, x)
  BY <1>2, BlockChecks
<1>4. /\ v \in Stack
      /\ \A p \in 1 .. Len(v) : Walked(b, v[p]) /\ v[p].part # "loop_depth--"
      /\ \A m, x : ChildIn(b, n, 2, m) => Checks(b, v, x, m, x)
  BY <1>2, BlockChecks
<1> HIDE DEF u, v
<1> DEFINE w == u \o v
<1>5. /\ w \in Stack
      /\ \A p \in 1 .. Len(w) : Walked(b, w[p]) /\ w[p].part # "loop_depth--"
      /\ \A m, y, x : Checks(b, u, y, m, x) \/ Checks(b, v, y, m, x) => Checks(b, w, y, m, x)
  BY <1>3, <1>4, ChecksBoth
<1> HIDE DEF w
<1>6. ASSUME NEW m, Child(b, n, m)
      PROVE  Checks(b, w, d, m, d)
  <2>1. ChildIn(b, n, 1, m) \/ ChildIn(b, n, 2, m)
    <3>1. \A i \in 1 .. Len(b[n].blocks) : i = 1 \/ i = 2
      BY <1>2
    <3>2. QED
      BY <1>6, <3>1, ChildIs
  <2>2. QED
    BY <1>3, <1>4, <1>5, <2>1
<1>7. Below(b, n, d) = d
  BY DEF Below, Loops
<1>8. TakesOver(b, s, d, d, w)
  BY <1>1, <1>6, <1>7 DEF TakesOver
<1>9. Continues(b, s, d, d, w)
  BY <1>1, <1>5, <1>8, ContinuesSame
<1>10. QED
  BY <1>9 DEF w, u, v

LEMMA ForInContinues ==
  ASSUME NEW b \in Bodies, NEW n \in 1 .. Len(b), b[n].kind = "for-in", NEW s, s = Part("statement", n), NEW d \in Nat
  PROVE  Continues(b, s, d, d, ParseForIn(n))
<1> DEFINE w == <<Part("let_src", n), Part("for", n)>>
<1>1. s.part = "statement" /\ s.of = n
  BY PartFields
<1>2. Quiets(b, n, Part("let_src", n)) /\ Quiets(b, n, Part("for", n))
  BY QuietParts
<1>3. w \in Stack /\ Len(w) = 2 /\ w[2] = Part("for", n) /\ \A p \in 1 .. Len(w) : Quiets(b, n, w[p])
  BY <1>2, QuietTwo
<1> HIDE DEF w
<1>4. ASSUME NEW p \in 1 .. Len(w)
      PROVE  Walked(b, w[p]) /\ w[p].part # "loop_depth--"
  <2> DEFINE f == w[p]
  <2>1. Quiets(b, n, f)
    BY <1>3
  <2> HIDE DEF f
  <2>2. Walked(b, f) /\ f.part # "loop_depth--"
    BY <2>1, QuietWalked
  <2>3. QED
    BY <2>2 DEF f
<1>5. ASSUME NEW m, Child(b, n, m)
      PROVE  Checks(b, w, d, m, d + 1)
  <2>1. 2 \in 1 .. Len(w)
    BY <1>3
  <2>2. w[2].part = "for" /\ w[2].of = n
    BY <1>3, PartFields
  <2>3. Will(b, w[2], d, m, d + 1)
    BY <1>5, <2>2 DEF Will
  <2>4. QED
    BY <2>1, <2>3 DEF Checks
<1>6. Below(b, n, d) = d + 1
  BY DEF Below, Loops
<1>7. TakesOver(b, s, d, d, w)
  BY <1>1, <1>5, <1>6 DEF TakesOver
<1>8. Continues(b, s, d, d, w)
  BY <1>1, <1>3, <1>4, <1>7, ContinuesSame
<1>9. QED
  BY <1>8 DEF w, ParseForIn

LEMMA BranchContinues ==
  ASSUME NEW b \in Bodies, NEW n \in 1 .. Len(b), b[n].kind = "branch", NEW s, s = Part("statement", n), NEW d \in Nat
  PROVE  Continues(b, s, d, d, ParseBranch(n))
<1> DEFINE w == <<Part("let_val", n), Case(n, 1, 1)>>
<1>1. s.part = "statement" /\ s.of = n
  BY PartFields
<1>2. Quiets(b, n, Part("let_val", n)) /\ Quiets(b, n, Case(n, 1, 1))
  <2>1. 1 \in 1 .. Len(b[n].sizes) /\ 1 \in 1 .. b[n].sizes[1]
    BY BranchIs
  <2>2. QED
    BY <2>1, QuietParts
<1>3. w \in Stack /\ Len(w) = 2 /\ w[2] = Case(n, 1, 1) /\ \A p \in 1 .. Len(w) : Quiets(b, n, w[p])
  BY <1>2, QuietTwo
<1> HIDE DEF w
<1>4. ASSUME NEW p \in 1 .. Len(w)
      PROVE  Walked(b, w[p]) /\ w[p].part # "loop_depth--"
  <2> DEFINE f == w[p]
  <2>1. Quiets(b, n, f)
    BY <1>3
  <2> HIDE DEF f
  <2>2. Walked(b, f) /\ f.part # "loop_depth--"
    BY <2>1, QuietWalked
  <2>3. QED
    BY <2>2 DEF f
<1>5. ASSUME NEW m, Child(b, n, m)
      PROVE  Checks(b, w, d, m, d)
  <2>1. 2 \in 1 .. Len(w)
    BY <1>3
  <2>2. w[2].part = "case" /\ w[2].of = n /\ w[2].at[1] = 1
    BY <1>3, CaseFields
  <2>3. PICK i \in 1 .. Len(b[n].blocks) : ChildIn(b, n, i, m)
    BY <1>5, ChildIs
  <2>4. 1 <= i
    OBVIOUS
  <2>5. Will(b, w[2], d, m, d)
    BY <2>2, <2>3, <2>4 DEF Will
  <2>6. QED
    BY <2>1, <2>5 DEF Checks
<1>6. Below(b, n, d) = d
  BY DEF Below, Loops
<1>7. TakesOver(b, s, d, d, w)
  BY <1>1, <1>5, <1>6 DEF TakesOver
<1>8. Continues(b, s, d, d, w)
  BY <1>1, <1>3, <1>4, <1>7, ContinuesSame
<1>9. QED
  BY <1>8 DEF w, ParseBranch
(* The arm of a case, and the next case or else *)
LEMMA CaseContinues ==
  ASSUME NEW b \in Bodies, NEW n \in 1 .. Len(b), b[n].kind = "branch",
         NEW i \in 1 .. Len(b[n].sizes), NEW j, NEW s, s = Case(n, i, j), NEW d \in Nat
  PROVE  Continues(b, s, d, d, Block(b, n, i) \o CaseElse(b, n, i, b[n].sizes[i]))
<1> DEFINE u == Block(b, n, i)
           v == CaseElse(b, n, i, b[n].sizes[i])
<1>1. s.part = "case" /\ s.of = n /\ s.at[1] = i
  BY CaseFields
<1>2. /\ Len(b[n].blocks) = Len(b[n].sizes) + 1 /\ Len(b[n].sizes) \in Nat
      /\ \A q \in 1 .. Len(b[n].sizes) : b[n].sizes[q] \in Nat /\ b[n].sizes[q] >= 1
  BY BranchIs
<1>3. i \in 1 .. Len(b[n].blocks) /\ i + 1 \in 1 .. Len(b[n].blocks)
  BY <1>2
<1>4. /\ u \in Stack
      /\ \A p \in 1 .. Len(u) : Walked(b, u[p]) /\ u[p].part # "loop_depth--"
      /\ \A m, x : ChildIn(b, n, i, m) => Checks(b, u, x, m, x)
  BY <1>3, BlockChecks
<1>5. /\ v \in Stack
      /\ \A p \in 1 .. Len(v) : Walked(b, v[p]) /\ v[p].part # "loop_depth--"
      /\ \A m, x : \A q \in 1 .. Len(b[n].blocks) : q > i /\ ChildIn(b, n, q, m) => Checks(b, v, x, m, x)
  <2>1. CASE i < Len(b[n].sizes)
    <3> DEFINE f == Case(n, i + 1, 1)
               k == <<f>>
    <3>1. v = k
      BY <1>2, <2>1 DEF CaseElse
    <3>2. Quiets(b, n, f)
      <4>1. i + 1 \in 1 .. Len(b[n].sizes)
        BY <1>2, <2>1
      <4>2. 1 \in 1 .. b[n].sizes[i + 1]
        BY <1>2, <4>1
      <4>3. QED
        BY <4>1, <4>2, QuietParts
    <3>3. f.part = "case" /\ f.of = n /\ f.at[1] = i + 1
      BY CaseFields
    <3> HIDE DEF f
    <3>4. k \in Stack /\ Len(k) = 1 /\ k[1] = f
      BY <3>2, QuietOne
    <3>5. Walked(b, f) /\ f.part # "loop_depth--"
      BY <3>2, QuietWalked
    <3> HIDE DEF k, v
    <3>6. \A p \in 1 .. Len(k) : k[p] = f
      BY <3>4
    <3>7. ASSUME NEW m, NEW x, NEW q \in 1 .. Len(b[n].blocks), q > i, ChildIn(b, n, q, m)
          PROVE  Checks(b, k, x, m, x)
      <4>1. f.at[1] <= q
        BY <3>3, <3>7
      <4>2. Will(b, f, x, m, x)
        BY <3>3, <3>7, <4>1 DEF Will
      <4>3. 1 \in 1 .. Len(k)
        BY <3>4
      <4>4. QED
        BY <3>4, <4>2, <4>3 DEF Checks
    <3>8. QED
      BY <3>1, <3>4, <3>5, <3>6, <3>7
  <2>2. CASE ~(i < Len(b[n].sizes))
    <3> DEFINE k == Block(b, n, i + 1)
    <3>1. v = k
      BY <1>2, <2>2 DEF CaseElse
    <3>2. /\ k \in Stack
          /\ \A p \in 1 .. Len(k) : Walked(b, k[p]) /\ k[p].part # "loop_depth--"
          /\ \A m, x : ChildIn(b, n, i + 1, m) => Checks(b, k, x, m, x)
      BY <1>3, BlockChecks
    <3> HIDE DEF k, v
    <3>3. \A q \in 1 .. Len(b[n].blocks) : q > i => q = i + 1
      BY <1>2, <2>2
    <3>4. QED
      BY <3>1, <3>2, <3>3
  <2>3. QED
    BY <2>1, <2>2
<1> HIDE DEF u, v
<1> DEFINE w == u \o v
<1>6. /\ w \in Stack
      /\ \A p \in 1 .. Len(w) : Walked(b, w[p]) /\ w[p].part # "loop_depth--"
      /\ \A m, y, x : Checks(b, u, y, m, x) \/ Checks(b, v, y, m, x) => Checks(b, w, y, m, x)
  BY <1>4, <1>5, ChecksBoth
<1> HIDE DEF w
<1>7. ASSUME NEW m, NEW x, Will(b, s, d, m, x)
      PROVE  Checks(b, w, d, m, x)
  <2>1. x = d /\ \E q \in 1 .. Len(b[n].blocks) : i <= q /\ ChildIn(b, n, q, m)
    BY <1>1, <1>7, PartFields DEF Will
  <2>2. PICK q \in 1 .. Len(b[n].blocks) : i <= q /\ ChildIn(b, n, q, m)
    BY <2>1
  <2>3. q = i \/ q > i
    BY <2>2
  <2>4. QED
    BY <1>4, <1>5, <1>6, <2>1, <2>2, <2>3
<1>8. TakesOver(b, s, d, d, w)
  BY <1>1, <1>7 DEF TakesOver
<1>9. Continues(b, s, d, d, w)
  BY <1>1, <1>6, <1>8, ContinuesSame
<1>10. QED
  BY <1>9 DEF w, u, v

(* The body of a loop, one loop deeper *)
LEMMA BodyChecks ==
  ASSUME NEW b \in Bodies, NEW n \in 1 .. Len(b), b[n].kind \in Loops
  PROVE  LET u == LoopOf(b, n).body IN
         /\ u \in Stack
         /\ \A p \in 1 .. Len(u) : Walked(b, u[p]) /\ u[p].part # "loop_depth--"
         /\ \A m, d : Child(b, n, m) => Checks(b, u, d, m, d)
<1> DEFINE u == Block(b, n, 1)
           v == <<Part("let_element", n)>>
<1>1. n \in Nat /\ 1 \in 1 .. Len(b[n].blocks) /\ Len(b[n].blocks) = 1
  BY BlockNumbers, BodyIs DEF BlocksOf, Loops
<1>2. /\ u \in Stack
      /\ \A p \in 1 .. Len(u) : Walked(b, u[p]) /\ u[p].part # "loop_depth--"
      /\ \A m, x : ChildIn(b, n, 1, m) => Checks(b, u, x, m, x)
  BY <1>1, BlockChecks
<1>3. b[n].kind = "for-in" => LoopOf(b, n).body = v \o u
  BY LoopIs
<1>4. b[n].kind # "for-in" => LoopOf(b, n).body = u
  BY LoopIs DEF Loops
<1>5. \A m : Child(b, n, m) => ChildIn(b, n, 1, m)
  <2>1. \A i \in 1 .. Len(b[n].blocks) : i = 1
    BY <1>1
  <2>2. ASSUME NEW m, Child(b, n, m)
        PROVE  ChildIn(b, n, 1, m)
    <3>1. PICK i \in 1 .. Len(b[n].blocks) : ChildIn(b, n, i, m)
      BY <2>2, ChildIs
    <3>2. QED
      BY <2>1, <3>1
  <2>3. QED
    BY <2>2
<1>6. b[n].kind = "for-in" => /\ v \in Stack
                              /\ \A p \in 1 .. Len(v) : Walked(b, v[p]) /\ v[p].part # "loop_depth--"
  <2> SUFFICES ASSUME b[n].kind = "for-in"
               PROVE  /\ v \in Stack
                      /\ \A p \in 1 .. Len(v) : Walked(b, v[p]) /\ v[p].part # "loop_depth--"
    OBVIOUS
  <2> DEFINE f == Part("let_element", n)
  <2>1. f \in Frames /\ f.of = n /\ f.part = "let_element" /\ Own(b, n, f)
    BY <1>1, PartFields, PartIsFrame DEF Own, Parts
  <2> HIDE DEF f
  <2>2. <<f>> \in Stack /\ Len(<<f>>) = 1 /\ <<f>>[1] = f
    BY <2>1, OneIs
  <2>3. Walked(b, f)
    BY <2>1 DEF Walked
  <2>4. \A p \in 1 .. Len(<<f>>) : Walked(b, <<f>>[p]) /\ <<f>>[p].part # "loop_depth--"
    BY <2>1, <2>2, <2>3
  <2>5. QED
    BY <2>2, <2>4 DEF f
<1> HIDE DEF u, v
<1>7. CASE b[n].kind = "for-in"
  <2> DEFINE w == v \o u
  <2>1. /\ w \in Stack
        /\ \A p \in 1 .. Len(w) : Walked(b, w[p]) /\ w[p].part # "loop_depth--"
        /\ \A m, y, x : Checks(b, v, y, m, x) \/ Checks(b, u, y, m, x) => Checks(b, w, y, m, x)
    BY <1>2, <1>6, <1>7, ChecksBoth
  <2>2. LoopOf(b, n).body = w
    BY <1>3, <1>7
  <2> HIDE DEF w
  <2>3. QED
    BY <1>2, <1>5, <2>1, <2>2
<1>8. CASE b[n].kind # "for-in"
  BY <1>2, <1>4, <1>5, <1>8
<1>9. QED
  BY <1>7, <1>8

LEMMA LoopContinues ==
  ASSUME NEW b \in Bodies, NEW n \in 1 .. Len(b), b[n].kind \in Loops, NEW s, NEW d \in Nat,
         \/ s = Part("statement", n)
         \/ s = Part("for", n)
  PROVE  Continues(b, s, d, d + 1, LoopOf(b, n).body \o <<Part("loop_depth--", n)>>)
<1> DEFINE u == LoopOf(b, n).body
           v == <<Part("loop_depth--", n)>>
<1>1. /\ u \in Stack
      /\ \A p \in 1 .. Len(u) : Walked(b, u[p]) /\ u[p].part # "loop_depth--"
      /\ \A m, x : Child(b, n, m) => Checks(b, u, x, m, x)
  BY BodyChecks
<1>2. v \in Stack /\ Len(v) = 1 /\ v[1] = Part("loop_depth--", n)
  <2>1. n \in Nat
    BY BodyIs
  <2>2. Part("loop_depth--", n) \in Frames
    BY <2>1, PartIsFrame DEF Parts
  <2>3. QED
    BY <2>2, OneIs
<1>3. Walked(b, v[1]) /\ v[1].part = "loop_depth--"
  BY <1>2, PartFields DEF Walked
<1> HIDE DEF u, v
<1> DEFINE w == u \o v
<1>4. /\ w \in Stack /\ Len(u) \in Nat /\ Len(w) = Len(u) + 1
      /\ \A p \in 1 .. Len(u) : w[p] = u[p]
      /\ w[Len(u) + 1] = v[1]
  <2>1. /\ w \in Stack /\ Len(u) \in Nat /\ Len(w) = Len(u) + Len(v)
        /\ \A p \in 1 .. Len(u) : w[p] = u[p]
        /\ \A p \in 1 .. Len(v) : w[Len(u) + p] = v[p]
    BY <1>1, <1>2, Pushed
  <2>2. 1 \in 1 .. Len(v)
    BY <1>2
  <2>3. QED
    BY <1>2, <2>1, <2>2
<1> HIDE DEF w
<1>5. \A p \in 1 .. Len(w) : p \in 1 .. Len(u) \/ p = Len(w)
  BY <1>4
<1>6. \A p \in 1 .. Len(w) : Walked(b, w[p]) /\ (w[p].part = "loop_depth--" <=> p = Len(w))
  <2>1. ASSUME NEW p \in 1 .. Len(u)
        PROVE  Walked(b, w[p]) /\ w[p].part # "loop_depth--" /\ p # Len(w)
    BY <1>1, <1>4
  <2>2. QED
    BY <1>3, <1>4, <1>5, <2>1
<1>7. ASSUME NEW m, NEW x, Child(b, n, m)
      PROVE  Checks(b, w, x, m, x)
  <2>1. PICK p \in 1 .. Len(u) : Will(b, u[p], x, m, x)
    BY <1>1, <1>7 DEF Checks
  <2>2. p \in 1 .. Len(w) /\ w[p] = u[p]
    BY <1>4
  <2>3. QED
    BY <2>1, <2>2 DEF Checks
<1>8. s.of = n /\ s.part \in {"statement", "for"}
  BY PartFields
<1>9. TakesOver(b, s, d, d + 1, w)
  <2>1. CASE s.part = "statement"
    BY <1>7, <1>8, <2>1 DEF TakesOver, Below
  <2>2. CASE s.part = "for"
    <3>1. ASSUME NEW m, NEW x, Will(b, s, d, m, x)
          PROVE  Child(b, n, m) /\ x = d + 1
      BY <1>8, <2>2, <3>1, PartFields DEF Will
    <3>2. QED
      BY <1>7, <2>2, <3>1 DEF TakesOver
  <2>3. QED
    BY <1>8, <2>1, <2>2
<1>10. Continues(b, s, d, d + 1, w)
  BY <1>4, <1>6, <1>8, <1>9 DEF Continues
<1>11. QED
  BY <1>10 DEF w, u, v

DepthAfter(b, s, d) ==
  IF Kind(b, s) \in {"while", "for"} THEN d + 1 ELSE IF Kind(b, s) = "loop_depth--" THEN LeaveLoop(d) ELSE d

LEMMA InsideContinues ==
  ASSUME NEW b \in Bodies, NEW s \in Frames, Walked(b, s), NEW d \in Nat
  PROVE  Continues(b, s, d, DepthAfter(b, s, d), Inside(b, s))
<1>1. s.of \in 1 .. Len(b) /\ (Own(b, s.of, s) \/ s = Part("loop_depth--", s.of))
  BY DEF Walked
<1>2. PICK n \in 1 .. Len(b) : n = s.of
  BY <1>1
<1>3. s.part = "loop_depth--" \/ Own(b, n, s)
  BY <1>1, <1>2, PartFields
<1>4. Own(b, n, s) => s.part # "loop_depth--" /\ Kind(b, s) = IF s.part = "statement" THEN b[n].kind ELSE s.part
  BY OwnIs
<1>5. b[n].kind \in Kinds
  BY BodyIs
<1>6. Kind(b, s) = "loop_depth--" <=> s.part = "loop_depth--"
  BY <1>2, <1>5 DEF Kind, Kinds
<1>7. CASE Kind(b, s) \notin {"block", "if", "for-in", "branch", "case", "while", "for"}
  <2>1. Inside(b, s) = <<>>
    BY <1>7 DEF Inside
  <2>2. DepthAfter(b, s, d) = d - Down(s)
    BY <1>6, <1>7 DEF DepthAfter, LeaveLoop, Down
  <2>3. Continues(b, s, d, d - Down(s), <<>>)
    BY <1>7, NoneContinues
  <2>4. QED
    BY <2>1, <2>2, <2>3
<1>8. ASSUME Kind(b, s) \in {"block", "if", "for-in", "branch", "case", "while", "for"}
      PROVE  Own(b, n, s) /\ s.part # "loop_depth--"
  BY <1>3, <1>4, <1>6, <1>8
<1>9. ASSUME s.part = "statement", Own(b, n, s)
      PROVE  s = Part("statement", n) /\ Kind(b, s) = b[n].kind
  BY <1>4, <1>9, PartFields, CaseFields DEF Own
<1>10. CASE Kind(b, s) \in {"block", "if", "for-in", "branch"}
  <2>1. s.part = "statement"
    <3>1. s.part \notin {"block", "if", "for-in", "branch"}
      BY DEF Frames, Parts
    <3>2. QED
      BY <1>4, <1>8, <1>10, <3>1
  <2>2. s = Part("statement", n) /\ Kind(b, s) = b[n].kind
    BY <1>8, <1>9, <1>10, <2>1
  <2>3. DepthAfter(b, s, d) = d
    BY <1>10 DEF DepthAfter
  <2>4. CASE b[n].kind = "block"
    <3>1. Inside(b, s) = Block(b, n, 1)
      BY <1>2, <2>2, <2>4 DEF Inside
    <3>2. QED
      BY <2>2, <2>3, <2>4, <3>1, BlockContinues
  <2>5. CASE b[n].kind = "if"
    <3>1. Inside(b, s) = Block(b, n, 1) \o Block(b, n, 2)
      BY <1>2, <2>2, <2>5 DEF Inside
    <3>2. Continues(b, s, d, d, Block(b, n, 1) \o Block(b, n, 2))
      BY <2>2, <2>5, IfContinues
    <3>3. QED
      BY <2>3, <3>1, <3>2
  <2>6. CASE b[n].kind = "for-in"
    <3>1. Inside(b, s) = ParseForIn(n)
      BY <1>2, <2>2, <2>6 DEF Inside
    <3>2. QED
      BY <2>2, <2>3, <2>6, <3>1, ForInContinues
  <2>7. CASE b[n].kind = "branch"
    <3>1. Inside(b, s) = ParseBranch(n)
      BY <1>2, <2>2, <2>7 DEF Inside
    <3>2. QED
      BY <2>2, <2>3, <2>7, <3>1, BranchContinues
  <2>8. QED
    BY <1>10, <2>2, <2>4, <2>5, <2>6, <2>7
<1>11. CASE Kind(b, s) = "case"
  <2>1. s.part = "case" /\ Own(b, n, s)
    BY <1>4, <1>5, <1>8, <1>11 DEF Kinds
  <2>2. b[n].kind = "branch" /\ \E i \in 1 .. Len(b[n].sizes) : \E j \in 1 .. b[n].sizes[i] : s = Case(n, i, j)
    BY <2>1, OwnIs
  <2>3. PICK i \in 1 .. Len(b[n].sizes) : \E j \in 1 .. b[n].sizes[i] : s = Case(n, i, j)
    BY <2>2
  <2>4. PICK j : s = Case(n, i, j)
    BY <2>3
  <2>5. s.at[1] = i
    BY <2>4, CaseFields
  <2>6. Inside(b, s) = Block(b, n, i) \o CaseElse(b, n, i, b[n].sizes[i])
    BY <1>2, <1>11, <2>5 DEF Inside
  <2>7. DepthAfter(b, s, d) = d
    BY <1>11 DEF DepthAfter
  <2>8. Continues(b, s, d, d, Block(b, n, i) \o CaseElse(b, n, i, b[n].sizes[i]))
    BY <2>2, <2>4, CaseContinues
  <2>9. QED
    BY <2>6, <2>7, <2>8
<1>12. CASE Kind(b, s) \in {"while", "for"}
  <2>1. b[n].kind \in Loops /\ (s = Part("statement", n) \/ s = Part("for", n))
    <3>1. CASE s.part = "statement"
      BY <1>8, <1>9, <1>12, <3>1 DEF Loops
    <3>2. CASE s.part # "statement"
      <4>1. s.part = "for" /\ Own(b, n, s)
        <5>1. s.part # "while"
          BY DEF Frames, Parts
        <5>2. QED
          BY <1>4, <1>8, <1>12, <3>2, <5>1
      <4>2. b[n].kind = "for-in"
        BY <4>1, OwnIs
      <4>3. s = Part("for", n)
        BY <4>1, <4>2, PartFields, CaseFields DEF Own
      <4>4. QED
        BY <4>2, <4>3 DEF Loops
    <3>3. QED
      BY <3>1, <3>2
  <2>2. Inside(b, s) = LoopOf(b, n).body \o <<Part("loop_depth--", n)>>
    BY <1>2, <1>12 DEF Inside
  <2>3. DepthAfter(b, s, d) = d + 1
    BY <1>12 DEF DepthAfter
  <2>4. Continues(b, s, d, d + 1, LoopOf(b, n).body \o <<Part("loop_depth--", n)>>)
    BY <2>1, LoopContinues
  <2>5. QED
    BY <2>2, <2>3, <2>4
<1>13. QED
  BY <1>7, <1>10, <1>11, <1>12

LEMMA WalkStep ==
  ASSUME NEW b \in Bodies, NEW r, NEW S, NEW D, NEW w, NEW d, Walking(b, r, S, D, w, d), w # <<>>,
         Kind(b, Head(w)) \in {"break", "continue"} => d # 0,
         Kind(b, Head(w)) = "return" => (b[Head(w).of].gives <=> r = "value")
  PROVE  \E S1, D1 : Walking(b, r, S1, D1, Inside(b, Head(w)) \o Tail(w), DepthAfter(b, Head(w), d))
<1> DEFINE s == Head(w)
           z == Tail(w)
           n == s.of
           pre == Inside(b, s)
           d1 == DepthAfter(b, s, d)
           u == pre \o z
<1>1. w \in Stack /\ D \in [1 .. Len(w) + 1 -> Nat] /\ D[1] = d
  BY DEF Walking
<1>2. /\ s \in Frames /\ z \in Stack /\ Len(w) \in Nat /\ Len(w) >= 1 /\ s = w[1]
      /\ Len(z) = Len(w) - 1 /\ \A p \in 1 .. Len(w) - 1 : z[p] = w[p + 1]
  BY <1>1, StackIs
<1>3. d \in Nat /\ Walked(b, s) /\ n \in 1 .. Len(b) /\ D[2] = d - Down(s) /\ D[2] \in Nat
  <2>1. 1 \in 1 .. Len(w) /\ 1 \in 1 .. Len(w) + 1 /\ 2 \in 1 .. Len(w) + 1 /\ 1 + 1 = 2
    BY <1>2
  <2>2. Walked(b, w[1]) /\ D[1 + 1] = D[1] - Down(w[1])
    BY <2>1 DEF Walking
  <2>3. QED
    BY <1>1, <1>2, <2>1, <2>2 DEF Walked
<1>4. Continues(b, s, d, d1, pre)
  BY <1>2, <1>3, InsideContinues
<1>5. s.part = "statement" => Allowed(b, r, n, d)
  BY <1>3 DEF Allowed, Kind
<1> HIDE DEF s, z, pre, d1
<1>6. /\ pre \in Stack /\ \A p \in 1 .. Len(pre) : Walked(b, pre[p])
      /\ TakesOver(b, s, d, d1, pre)
  BY <1>4 DEF Continues
<1>7. \/ /\ Down(s) = 0 /\ d1 = d + 1 /\ Len(pre) >= 1
         /\ \A p \in 1 .. Len(pre) : Down(pre[p]) = IF p = Len(pre) THEN 1 ELSE 0
      \/ d1 = d - Down(s) /\ \A p \in 1 .. Len(pre) : Down(pre[p]) = 0
  BY <1>4 DEF Continues, Down
<1>8. d1 \in Nat
  BY <1>3, <1>7
<1>9. /\ u \in Stack /\ Len(pre) \in Nat /\ Len(z) \in Nat /\ Len(u) = Len(pre) + Len(z)
      /\ \A p \in 1 .. Len(pre) : u[p] = pre[p]
      /\ \A p \in 1 .. Len(z) : u[Len(pre) + p] = z[p]
      /\ \A p \in 1 .. Len(u) : p \in 1 .. Len(pre) \/ (p - Len(pre) \in 1 .. Len(z) /\ u[p] = z[p - Len(pre)])
  BY <1>2, <1>6, Pushed
<1> HIDE DEF u
<1> DEFINE D1 == [p \in 1 .. Len(u) + 1 |-> IF p <= Len(pre) THEN d1 ELSE D[p - Len(pre) + 1]]
           S1 == IF s.part = "statement" THEN [S EXCEPT ![n] = @ \cup {d}] ELSE S
<1>10. /\ \A p \in 1 .. Len(pre) : D1[p] = d1
       /\ \A p \in 1 .. Len(z) + 1 : D1[Len(pre) + p] = D[p + 1]
  <2>1. ASSUME NEW p \in 1 .. Len(pre)
        PROVE  D1[p] = d1
    <3>1. p \in 1 .. Len(u) + 1 /\ p <= Len(pre)
      BY <1>9
    <3>2. QED
      BY <3>1
  <2>2. ASSUME NEW p \in 1 .. Len(z) + 1
        PROVE  D1[Len(pre) + p] = D[p + 1]
    <3>1. Len(pre) + p \in 1 .. Len(u) + 1 /\ ~(Len(pre) + p <= Len(pre)) /\ (Len(pre) + p) - Len(pre) + 1 = p + 1
      BY <1>9
    <3>2. QED
      BY <3>1
  <2>3. QED
    BY <2>1, <2>2
<1>11. D1 \in [1 .. Len(u) + 1 -> Nat]
  <2>1. ASSUME NEW p \in 1 .. Len(u) + 1, ~(p <= Len(pre))
        PROVE  D[p - Len(pre) + 1] \in Nat
    <3>1. p - Len(pre) + 1 \in 1 .. Len(w) + 1
      BY <1>2, <1>9, <2>1
    <3>2. QED
      BY <1>1, <3>1
  <2>2. QED
    BY <1>8, <2>1
<1>12. S \in [1 .. Len(b) -> SUBSET Nat]
  BY DEF Walking
<1>13. /\ S1 \in [1 .. Len(b) -> SUBSET Nat]
       /\ \A m \in 1 .. Len(b) : \A x : x \in S1[m] <=> x \in S[m] \/ (s.part = "statement" /\ m = n /\ x = d)
  BY <1>3, <1>12
<1> HIDE DEF D1, S1
<1>14. D1[1] = d1
  <2>1. CASE Len(pre) >= 1
    <3>1. 1 \in 1 .. Len(pre)
      BY <1>9, <2>1
    <3>2. QED
      BY <1>10, <3>1
  <2>2. CASE ~(Len(pre) >= 1)
    <3>1. Len(pre) = 0 /\ 1 \in 1 .. Len(z) + 1
      BY <1>9, <2>2
    <3>2. D1[Len(pre) + 1] = D[1 + 1]
      BY <1>10, <3>1
    <3>3. d1 = d - Down(s)
      BY <1>7, <2>2
    <3>4. QED
      BY <1>3, <3>1, <3>2, <3>3
  <2>3. QED
    BY <2>1, <2>2
<1>15. ASSUME NEW p \in 1 .. Len(u)
       PROVE  Walked(b, u[p]) /\ D1[p + 1] = D1[p] - Down(u[p])
  <2>1. CASE p \in 1 .. Len(pre) /\ p # Len(pre)
    <3>1. p + 1 \in 1 .. Len(pre)
      BY <1>9, <2>1
    <3>2. D1[p] = d1 /\ D1[p + 1] = d1
      BY <1>10, <2>1, <3>1
    <3>3. Down(pre[p]) = 0
      BY <1>7, <2>1
    <3>4. QED
      BY <1>6, <1>8, <1>9, <2>1, <3>2, <3>3
  <2>2. CASE p \in 1 .. Len(pre) /\ p = Len(pre)
    <3>1. 1 \in 1 .. Len(z) + 1
      BY <1>9
    <3>2. D1[p] = d1 /\ D1[p + 1] = D[2]
      BY <1>10, <2>2, <3>1
    <3>3. D[2] = d1 - Down(pre[p])
      BY <1>3, <1>7, <2>2
    <3>4. QED
      BY <1>6, <1>9, <2>2, <3>2, <3>3
  <2>3. CASE p - Len(pre) \in 1 .. Len(z) /\ u[p] = z[p - Len(pre)]
    <3> DEFINE q == p - Len(pre)
    <3>1. q \in 1 .. Len(z) /\ u[p] = z[q] /\ p = Len(pre) + q /\ p + 1 = Len(pre) + (q + 1)
      BY <1>9, <2>3
    <3> HIDE DEF q
    <3>2. q \in 1 .. Len(z) + 1 /\ q + 1 \in 1 .. Len(z) + 1 /\ q + 1 \in 1 .. Len(w) /\ q \in 1 .. Len(w) - 1
      BY <1>2, <1>9, <3>1
    <3>3. D1[p] = D[q + 1] /\ D1[p + 1] = D[(q + 1) + 1]
      BY <1>10, <3>1, <3>2
    <3>4. Walked(b, w[q + 1]) /\ D[(q + 1) + 1] = D[q + 1] - Down(w[q + 1])
      BY <3>2 DEF Walking
    <3>5. u[p] = w[q + 1]
      BY <1>2, <3>1, <3>2
    <3>6. QED
      BY <3>3, <3>4, <3>5
  <2>4. QED
    BY <1>9, <2>1, <2>2, <2>3
<1>16. ASSUME NEW m, NEW x, Checks(b, pre, d1, m, x)
       PROVE  Soon(b, u, D1, m, x)
  <2>1. PICK p \in 1 .. Len(pre) : Will(b, pre[p], d1, m, x)
    BY <1>16 DEF Checks
  <2>2. p \in 1 .. Len(u) /\ u[p] = pre[p] /\ D1[p] = d1
    BY <1>9, <1>10
  <2>3. QED
    BY <2>1, <2>2 DEF Soon
<1>17. ASSUME NEW m \in 1 .. Len(b), NEW x, Soon(b, w, D, m, x)
       PROVE  x \in S1[m] \/ Soon(b, u, D1, m, x)
  <2>1. PICK p \in 1 .. Len(w) : Will(b, w[p], D[p], m, x)
    BY <1>17 DEF Soon
  <2>2. CASE p = 1
    <3>1. Will(b, s, d, m, x)
      BY <1>1, <1>2, <2>1, <2>2
    <3>2. CASE s.part = "statement"
      <4>1. s = Part("statement", m) /\ x = d
        BY <3>1, <3>2 DEF Will
      <4>2. m = n
        BY <4>1, PartFields
      <4>3. QED
        BY <1>13, <3>2, <4>1, <4>2
    <3>3. CASE s.part # "statement"
      <4>1. Checks(b, pre, d1, m, x)
        BY <1>6, <3>1, <3>3 DEF TakesOver
      <4>2. QED
        BY <1>16, <4>1
    <3>4. QED
      BY <3>2, <3>3
  <2>3. CASE p # 1
    <3> DEFINE q == p - 1
    <3>1. q \in 1 .. Len(z) /\ p = q + 1 /\ q \in 1 .. Len(z) + 1 /\ q \in 1 .. Len(w) - 1 /\ Len(pre) + q \in 1 .. Len(u)
      BY <1>2, <1>9, <2>3
    <3> HIDE DEF q
    <3>2. D1[Len(pre) + q] = D[p] /\ u[Len(pre) + q] = w[p]
      BY <1>2, <1>9, <1>10, <3>1
    <3>3. QED
      BY <2>1, <3>1, <3>2 DEF Soon
  <2>4. QED
    BY <2>2, <2>3
<1>18. 0 \in S1[Len(b)] \/ Soon(b, u, D1, Len(b), 0)
  <2>1. 0 \in S[Len(b)] \/ Soon(b, w, D, Len(b), 0)
    BY DEF Walking
  <2>2. Len(b) \in 1 .. Len(b)
    BY RootIs
  <2>3. QED
    BY <1>13, <1>17, <2>1, <2>2
<1>19. ASSUME NEW k \in 1 .. Len(b), NEW x \in S1[k]
       PROVE  /\ Allowed(b, r, k, x)
              /\ \A m : Child(b, k, m) => Below(b, k, x) \in S1[m] \/ Soon(b, u, D1, m, Below(b, k, x))
  <2>1. CASE x \in S[k]
    <3>1. /\ Allowed(b, r, k, x)
          /\ \A m : Child(b, k, m) => Below(b, k, x) \in S[m] \/ Soon(b, w, D, m, Below(b, k, x))
      BY <2>1 DEF Walking
    <3>2. ASSUME NEW m, Child(b, k, m)
          PROVE  Below(b, k, x) \in S1[m] \/ Soon(b, u, D1, m, Below(b, k, x))
      <4>1. m \in 1 .. Len(b)
        BY <3>2, ChildIsBefore
      <4>2. QED
        BY <1>13, <1>17, <3>1, <3>2, <4>1
    <3>3. QED
      BY <3>1, <3>2
  <2>2. CASE s.part = "statement" /\ k = n /\ x = d
    <3>1. \A m : Child(b, n, m) => Checks(b, pre, d1, m, Below(b, n, d))
      BY <1>6, <2>2 DEF TakesOver
    <3>2. QED
      BY <1>5, <1>16, <2>2, <3>1
  <2>3. QED
    BY <1>13, <2>1, <2>2
<1>20. Walking(b, r, S1, D1, u, d1)
  BY <1>9, <1>11, <1>13, <1>14, <1>15, <1>18, <1>19 DEF Walking
<1>21. QED
  BY <1>20 DEF u, pre, z, s, d1

LEMMA WalkBegins ==
  ASSUME NEW b \in Bodies, NEW r
  PROVE  \E S, D : Walking(b, r, S, D, <<Part("statement", Len(b))>>, 0)
<1> DEFINE f == Part("statement", Len(b))
           w == <<f>>
           S == [n \in 1 .. Len(b) |-> {}]
           D == [p \in 1 .. 2 |-> 0]
<1>1. Len(b) \in 1 .. Len(b) /\ Len(b) \in Nat
  BY RootIs
<1>2. f \in Frames /\ f.of = Len(b) /\ f.part = "statement"
  BY <1>1, PartIsFrame, PartFields DEF Parts
<1>3. Walked(b, f) /\ Down(f) = 0
  BY <1>1, <1>2 DEF Walked, Own, Down
<1>4. Will(b, f, 0, Len(b), 0)
  BY DEF Will
<1> HIDE DEF f
<1>5. w \in Stack /\ Len(w) = 1 /\ w[1] = f
  BY <1>2, OneIs
<1> HIDE DEF w
<1>6. /\ D \in [1 .. Len(w) + 1 -> Nat] /\ \A p \in 1 .. 2 : D[p] = 0
      /\ S \in [1 .. Len(b) -> SUBSET Nat] /\ \A n \in 1 .. Len(b) : S[n] = {}
  BY <1>5
<1> HIDE DEF D, S
<1>7. Soon(b, w, D, Len(b), 0)
  <2>1. 1 \in 1 .. Len(w) /\ D[1] = 0
    BY <1>5, <1>6
  <2>2. QED
    BY <1>4, <1>5, <2>1 DEF Soon
<1>8. ASSUME NEW p \in 1 .. Len(w)
      PROVE  Walked(b, w[p]) /\ D[p + 1] = D[p] - Down(w[p])
  <2>1. p = 1 /\ D[1] = 0 /\ D[1 + 1] = 0
    BY <1>5, <1>6
  <2>2. QED
    BY <1>3, <1>5, <2>1
<1>9. D[1] = 0
  BY <1>6
<1>10. Walking(b, r, S, D, w, 0)
  BY <1>5, <1>6, <1>7, <1>8, <1>9 DEF Walking
<1>11. QED
  BY <1>10 DEF w, f

LEMMA WalkEnds ==
  ASSUME NEW b, NEW r, NEW S, NEW D, NEW d, Walking(b, r, S, D, <<>>, d)
  PROVE  SemaOK(b, r, S)
<1>1. \A m, x : ~Soon(b, <<>>, D, m, x)
  BY DEF Soon
<1>2. QED
  BY <1>1 DEF Walking, SemaOK

-------------------------------------------------------------------------------
(* The invariant of the specification *)

(* The function begins as sema's walk and the two machines do. *)
LEMMA TextDeep ==
  ASSUME NEW b \in Bodies, NEW r, NEW h
  PROVE  Deep(b, Text(b, r), <<Part("statement", Len(b))>>, h, Extra(r))
<1> DEFINE f == Part("statement", Len(b))
           z == IF r = "status" THEN <<Return0>> ELSE <<>>
<1>1. Text(b, r) = <<f>> \o z
  BY DEF Text, Return0
<1>2. SameFrame(b, f)
  BY RootIs DEF SameFrame
<1>3. Return0 \in Frames
  BY Return0Is
<1>4. <<Return0>> \in Stack /\ Len(<<Return0>>) = 1 /\ <<Return0>>[1] = Return0
  BY <1>3, OneIs
<1>5. <<>> \in Stack /\ Len(<<>>) = 0
  BY DEF Stack
<1> HIDE DEF f
<1>6. z \in Stack /\ Len(z) = Extra(r) /\ Extra(r) \in {0, 1} /\ (Extra(r) = 1 => z[Len(z)] = Return0)
  BY <1>4, <1>5 DEF Extra
<1> HIDE DEF z
<1>7. Deep(b, z, <<>>, h, Extra(r))
  BY <1>5, <1>6 DEF Deep
<1>8. Deep(b, <<f>> \o z, <<f>> \o <<>>, h, Extra(r))
  BY <1>2, <1>7, DeepPushOne
<1>9. <<f>> \o <<>> = <<f>>
  <2>1. f \in Frames
    BY <1>2, SameFrameIs
  <2>2. <<f>> \in Stack
    BY <2>1, OneIs
  <2>3. QED
    BY <2>2, ConcatEmptySeq DEF Stack
<1>10. QED
  BY <1>1, <1>8, <1>9 DEF f

LEMMA TextOrderly ==
  ASSUME NEW b \in Bodies, NEW r, NEW S, SemaOK(b, r, S)
  PROVE  Orderly(b, r, S, Text(b, r))
<1> DEFINE f == Part("statement", Len(b))
           z == IF r = "status" THEN <<Return0>> ELSE <<>>
           pre == <<f>>
<1>1. Text(b, r) = pre \o z
  BY DEF Text, Return0
<1>2. Len(b) \in Nat /\ Len(b) \in 1 .. Len(b)
  BY RootIs
<1>3. f \in Frames /\ f.of = Len(b) /\ f.part = "statement"
  BY <1>2, PartIsFrame, PartFields DEF Parts
<1>4. Mine(b, r, f)
  BY <1>2, <1>3 DEF Mine, Own
<1>5. Return0 \in Frames /\ Return0.part = "return_0"
  BY Return0Is
<1>6. <<Return0>> \in Stack /\ Len(<<Return0>>) = 1 /\ <<Return0>>[1] = Return0
  BY <1>5, OneIs
<1>7. <<>> \in Stack /\ Len(<<>>) = 0
  BY DEF Stack
<1> HIDE DEF f
<1>8. z \in Stack /\ \A p \in 1 .. Len(z) : z[p] = Return0 /\ r = "status"
  BY <1>6, <1>7
<1> HIDE DEF z
<1>9. Orderly(b, r, S, z)
  BY <1>5, <1>8 DEF Orderly, Mine, Layered, Covered
<1>10. pre \in Stack /\ Len(pre) = 1 /\ pre[1] = f
  BY <1>3, OneIs
<1> HIDE DEF pre
<1>11. \A p \in 1 .. Len(pre) : pre[p] = f
  BY <1>10
<1>12. \A x : Covers(S, f, x)
  BY <1>3 DEF SemaOK, Covers
<1>13. Layered(pre)
  BY <1>3, <1>11 DEF Layered
<1>14. \A q \in 1 .. Len(z) : z[q].part # "turn"
  BY <1>5, <1>8
<1>15. Orderly(b, r, S, pre \o z)
  BY <1>4, <1>9, <1>10, <1>11, <1>12, <1>13, <1>14, OrderlyPush
<1>16. QED
  BY <1>1, <1>15

LEMMA TextFloored ==
  ASSUME NEW b \in Bodies, NEW r, NEW R, r = "value" => Len(b) \in R
  PROVE  Floored(r, R, Text(b, r))
<1> DEFINE f == Part("statement", Len(b))
           z == IF r = "status" THEN <<Return0>> ELSE <<>>
           pre == <<f>>
<1>1. Text(b, r) = pre \o z
  BY DEF Text, Return0
<1>2. f \in Frames /\ f.of = Len(b) /\ f.part = "statement"
  BY RootIs, PartIsFrame, PartFields DEF Parts
<1> HIDE DEF f
<1>3. pre \in Stack /\ Len(pre) = 1 /\ pre[1] = f
  BY <1>2, OneIs
<1>4. Return0 \in Frames
  BY Return0Is
<1>5. <<Return0>> \in Stack /\ Len(<<Return0>>) = 1 /\ <<Return0>>[1] = Return0
  BY <1>4, OneIs
<1>6. <<>> \in Stack
  BY DEF Stack
<1>7. CASE r = "status"
  <2>1. <<Return0>> # <<>> /\ Floor(r, R, <<Return0>>[Len(<<Return0>>)])
    BY <1>5, <1>7 DEF Floor
  <2>2. Floored(r, R, pre \o <<Return0>>)
    BY <1>3, <1>5, <2>1, FloorPush
  <2>3. QED
    BY <1>1, <1>7, <2>2
<1>8. CASE r # "status"
  <2>1. pre # <<>>
    OBVIOUS
  <2>2. r # "nothing" => pre[Len(pre)] = f
    BY <1>3
  <2> HIDE DEF pre
  <2>3. r = "value" => LastIn(R, f)
    BY <1>2 DEF LastIn
  <2>4. Floor(r, R, pre[Len(pre)])
    BY <1>3, <1>8, <2>3 DEF Floor
  <2>5. Floored(r, R, pre \o <<>>)
    BY <1>3, <1>6, <2>1, <2>4, FloorPush
  <2>6. QED
    BY <1>1, <1>8, <2>5
<1>9. QED
  BY <1>7, <1>8

(* What sema has found, for the statements and for what is on the stack *)
Sound(b, r, cc) == \E S : SemaOK(b, r, S) /\ (cc = Ended \/ Orderly(b, r, S, cc))

Inv ==
  /\ body \in Bodies /\ returns \in {"status", "nothing", "value"}
  /\ phase \in {"check", "rejected", "run"} /\ loopDepth \in Nat /\ HiddenOK(hidden)
  /\ Matched(body, returns, source, owed, c, hidden)
  /\ phase # "run" => c = Text(body, returns) /\ owed = Silent
  /\ phase = "check" => \E S, D : Walking(body, returns, S, D, walk, loopDepth)
  /\ phase = "run" => Sound(body, returns, c)

LEMMA InitInv == Init => Inv
<1> SUFFICES ASSUME Init
             PROVE  Inv
  OBVIOUS
<1>1. body \in Bodies /\ returns \in {"status", "nothing", "value"}
  BY DEF Init
<1>2. phase = "check" /\ loopDepth = 0 /\ hidden = <<>> /\ owed = Silent /\ c = Text(body, returns)
      /\ walk = <<Part("statement", Len(body))>> /\ source = <<Part("statement", Len(body))>>
  BY DEF Init
<1>3. HiddenOK(hidden)
  BY <1>2 DEF HiddenOK
<1>4. Matched(body, returns, source, owed, c, hidden)
  <2>1. Deep(body, c, source, hidden, Extra(returns))
    BY <1>1, <1>2, TextDeep
  <2>2. Owes(body, returns, source, owed, c, hidden)
    BY <1>2, <2>1, DeepIsAligned DEF Owes
  <2>3. Lag(body, returns, source, source)
    BY LagNone
  <2>4. QED
    BY <2>2, <2>3 DEF Matched
<1>5. \E S, D : Walking(body, returns, S, D, walk, loopDepth)
  BY <1>1, <1>2, WalkBegins
<1>6. QED
  BY <1>1, <1>2, <1>3, <1>4, <1>5 DEF Inv

LEMMA CheckStmtInv == Inv /\ CheckStmt => Inv'
<1> SUFFICES ASSUME Inv, CheckStmt
             PROVE  Inv'
  OBVIOUS
<1>1. phase = "check" /\ walk # <<>> /\ UNCHANGED <<body, returns, c, hidden, source, owed>>
  BY DEF CheckStmt
<1>2. PICK S, D : Walking(body, returns, S, D, walk, loopDepth)
  BY <1>1 DEF Inv
<1>3. Matched(body, returns, source, owed, c, hidden)' /\ HiddenOK(hidden)'
  BY <1>1 DEF Inv
<1>4. CASE phase' = "rejected" /\ UNCHANGED <<walk, loopDepth>>
  BY <1>1, <1>3, <1>4 DEF Inv
<1>5. CASE phase' = phase /\ walk' = Inside(body, Head(walk)) \o Tail(walk)
           /\ loopDepth' = DepthAfter(body, Head(walk), loopDepth)
           /\ (Kind(body, Head(walk)) \in {"break", "continue"} => loopDepth # 0)
           /\ (Kind(body, Head(walk)) = "return" => (body[Head(walk).of].gives <=> returns = "value"))
  <2>1. \E S1, D1 : Walking(body, returns, S1, D1, walk', loopDepth')
    BY <1>1, <1>2, <1>5, WalkStep DEF Inv
  <2>2. loopDepth' \in Nat
    <3>1. PICK S1, D1 : Walking(body, returns, S1, D1, walk', loopDepth')
      BY <2>1
    <3>2. walk' \in Stack /\ D1 \in [1 .. Len(walk') + 1 -> Nat] /\ D1[1] = loopDepth'
      BY <3>1 DEF Walking
    <3>3. 1 \in 1 .. Len(walk') + 1
      BY <3>2, LenProperties DEF Stack
    <3>4. QED
      BY <3>2, <3>3
  <2>3. QED
    BY <1>1, <1>3, <1>5, <2>1, <2>2 DEF Inv
<1>6. QED
  BY <1>4, <1>5 DEF CheckStmt, CheckReturn, DepthAfter

LEMMA AcceptInv == Inv /\ Accept => Inv'
<1> SUFFICES ASSUME Inv, Accept
             PROVE  Inv'
  OBVIOUS
<1>1. /\ phase = "check" /\ walk = <<>> /\ phase' = "run"
      /\ UNCHANGED <<body, returns, walk, loopDepth, c, hidden, source, owed>>
  BY DEF Accept
<1>2. PICK S, D : Walking(body, returns, S, D, walk, loopDepth)
  BY <1>1 DEF Inv
<1>3. SemaOK(body, returns, S)
  BY <1>1, <1>2, WalkEnds
<1>4. Orderly(body, returns, S, c)
  BY <1>1, <1>3, TextOrderly DEF Inv
<1>5. Sound(body, returns, c)
  BY <1>3, <1>4 DEF Sound
<1>6. Matched(body, returns, source, owed, c, hidden)' /\ HiddenOK(hidden)' /\ Sound(body, returns, c)'
  BY <1>1, <1>5 DEF Inv
<1>7. QED
  BY <1>1, <1>6 DEF Inv

(* The jumps of C have their loops, and no statement is within itself. *)
LEMMA SoundHead ==
  ASSUME NEW b \in Bodies, NEW r, NEW cc, Sound(b, r, cc), cc # <<>>
  PROVE  /\ Kind(b, Head(cc)) \in {"break", "continue"} => Innermost(Tail(cc)) > 0
         /\ Head(cc).part \in {"statement", "turn"} => Outside(Head(cc).of, Tail(cc))
<1>1. PICK S : SemaOK(b, r, S) /\ (cc = Ended \/ Orderly(b, r, S, cc))
  BY DEF Sound
<1>2. CASE cc = Ended
  <2>1. Head(cc) = Part("ended", 0)
    BY <1>2 DEF Ended
  <2>2. Head(cc).part = "ended"
    BY <2>1, PartFields
  <2>3. QED
    BY <2>2 DEF Kind
<1>3. CASE Orderly(b, r, S, cc)
  BY <1>1, <1>3, HeadInLoop
<1>4. QED
  BY <1>1, <1>2, <1>3

LEMMA CStepInv == Inv /\ CStep => Inv'
<1> SUFFICES ASSUME Inv, CStep
             PROVE  Inv'
  OBVIOUS
<1>1. PICK m \in CMoves(body, c, hidden, returns) : c' = m.rest /\ hidden' = m.store /\ owed' = m.event
  BY DEF CStep
<1>2. phase = "run" /\ owed = Silent /\ UNCHANGED <<body, returns, phase, walk, loopDepth, source>>
  BY DEF CStep
<1>3. /\ body \in Bodies /\ Matched(body, returns, source, Silent, c, hidden) /\ HiddenOK(hidden) /\ Sound(body, returns, c)
  BY <1>2 DEF Inv
<1>4. /\ c # <<>> /\ Kind(body, Head(c)) \in {"break", "continue"} => Innermost(Tail(c)) > 0
      /\ c # <<>> /\ Head(c).part \in {"statement", "turn"} => Outside(Head(c).of, Tail(c))
  BY <1>3, SoundHead
<1>5. Matched(body, returns, source, m.event, m.rest, m.store) /\ HiddenOK(m.store)
  BY <1>3, <1>4, MatchedC
<1>6. Sound(body, returns, m.rest)
  <2>1. PICK S : SemaOK(body, returns, S) /\ (c = Ended \/ Orderly(body, returns, S, c))
    BY <1>3 DEF Sound
  <2>2. c # Ended
    BY EndedHasNoMove
  <2>3. m.rest = Ended \/ Orderly(body, returns, S, m.rest)
    BY <1>3, <2>1, <2>2, OrderlyMove
  <2>4. QED
    BY <2>1, <2>3 DEF Sound
<1>7. Matched(body, returns, source, owed, c, hidden)' /\ HiddenOK(hidden)' /\ Sound(body, returns, c)'
  BY <1>1, <1>2, <1>5, <1>6
<1>8. QED
  BY <1>2, <1>7 DEF Inv

LEMMA FollowInv == Inv /\ Follow => Inv'
<1> SUFFICES ASSUME Inv, Follow
             PROVE  Inv'
  OBVIOUS
<1>1. PICK m \in SourceMoves(body, source, returns) :
        m.event \in {Silent, owed} /\ source' = m.rest /\ owed' = IF m.event = owed THEN Silent ELSE owed
  BY DEF Follow
<1>2. owed # Silent /\ UNCHANGED <<body, returns, phase, walk, loopDepth, c, hidden>>
  BY DEF Follow
<1>3. /\ m.event = owed => Matched(body, returns, m.rest, Silent, c, hidden)
      /\ m.event = Silent => Matched(body, returns, m.rest, owed, c, hidden)
  BY <1>2, MatchedMoves DEF Inv
<1>4. Matched(body, returns, source', owed', c, hidden)
  BY <1>1, <1>2, <1>3
<1>5. phase = "run"
  BY <1>2 DEF Inv
<1>6. Matched(body, returns, source, owed, c, hidden)' /\ HiddenOK(hidden)' /\ Sound(body, returns, c)'
  BY <1>2, <1>4, <1>5 DEF Inv
<1>7. QED
  BY <1>2, <1>5, <1>6 DEF Inv

(* Under the rule sema has not: what the function returns at the end of its *)
(* last block.                                                              *)
Declared ==
  /\ \E R : Returning(body, R) /\ (c = Ended \/ Floored(returns, R, c))
  /\ EndsAsDeclared

LEMMA InitDeclared ==
  ASSUME Rule = "returns", Init
  PROVE  Declared
<1>1. body \in Bodies /\ c = Text(body, returns) /\ owed = Silent
  BY DEF Init
<1>2. \E R : Returning(body, R) /\ (returns = "value" => Len(body) \in R)
  <2>1. CASE returns = "value"
    BY <2>1 DEF Init, EndsInReturn
  <2>2. CASE returns # "value"
    <3>1. Returning(body, {})
      BY DEF Returning
    <3>2. QED
      BY <2>2, <3>1
  <2>3. QED
    BY <2>1, <2>2
<1>3. PICK R : Returning(body, R) /\ (returns = "value" => Len(body) \in R)
  BY <1>2
<1>4. Floored(returns, R, c)
  BY <1>1, <1>3, TextFloored
<1>5. QED
  BY <1>1, <1>3, <1>4 DEF Declared, EndsAsDeclared

LEMMA NextDeclared ==
  ASSUME Inv, Declared, [Next]_vars
  PROVE  Declared'
<1>1. CASE CStep
  <2>1. PICK m \in CMoves(body, c, hidden, returns) : c' = m.rest /\ owed' = m.event
    BY <1>1 DEF CStep
  <2>2. phase = "run" /\ UNCHANGED <<body, returns>>
    BY <1>1 DEF CStep
  <2>3. c # Ended
    BY EndedHasNoMove
  <2>4. PICK S : SemaOK(body, returns, S) /\ (c = Ended \/ Orderly(body, returns, S, c))
    BY <2>2 DEF Inv, Sound
  <2>5. PICK R : Returning(body, R) /\ (c = Ended \/ Floored(returns, R, c))
    BY DEF Declared
  <2>6. /\ m.rest = Ended \/ Floored(returns, R, m.rest)
        /\ NotEnd(m.event) \/ m.event = <<"end", returns>>
    BY <2>3, <2>4, <2>5, FlooredMove DEF Inv
  <2>7. EndsAsDeclared'
    BY <2>1, <2>2, <2>6 DEF EndsAsDeclared, NotEnd
  <2>8. Returning(body, R)' /\ (c = Ended \/ Floored(returns, R, c))'
    BY <2>1, <2>2, <2>5, <2>6
  <2>9. QED
    BY <2>7, <2>8 DEF Declared
<1>2. CASE UNCHANGED <<body, returns, c>> /\ (owed' = owed \/ owed' = Silent)
  <2>1. EndsAsDeclared'
    BY <1>2 DEF Declared, EndsAsDeclared
  <2>2. (\E R : Returning(body, R) /\ (c = Ended \/ Floored(returns, R, c)))'
    BY <1>2 DEF Declared
  <2>3. QED
    BY <2>1, <2>2 DEF Declared
<1>3. QED
  BY <1>1, <1>2 DEF Next, CheckStmt, Accept, Follow, vars

LEMMA NextInv == Inv /\ [Next]_vars => Inv'
<1>1. Inv /\ UNCHANGED vars => Inv'
  <2> SUFFICES ASSUME Inv, UNCHANGED vars
               PROVE  Inv'
    OBVIOUS
  <2>1. /\ Matched(body, returns, source, owed, c, hidden)' /\ HiddenOK(hidden)'
        /\ (phase = "run" => Sound(body, returns, c))'
        /\ (phase = "check" => \E S, D : Walking(body, returns, S, D, walk, loopDepth))'
    BY DEF Inv, vars
  <2>2. QED
    BY <2>1 DEF Inv, vars
<1>2. QED
  BY <1>1, CheckStmtInv, AcceptInv, CStepInv, FollowInv DEF Next

LEMMA SpecInv == Spec => []Inv
BY InitInv, NextInv, PTL DEF Spec

-------------------------------------------------------------------------------
(* The theorems *)

(* The C machine's variables keep their types and ranges, and the text that *)
(* parse_foreach makes takes an element only at an index of the list.       *)
THEOREM ElementsInBounds == Spec => []TypeOK
<1>1. Inv => TypeOK
  <2> SUFFICES ASSUME Inv
               PROVE  TypeOK
    OBVIOUS
  <2>1. \E t : Aligned(body, c, t, hidden, Extra(returns))
    <3>1. PICK t : Owes(body, returns, t, owed, c, hidden)
      BY DEF Inv, Matched
    <3>2. QED
      BY <3>1 DEF Owes
  <2>2. PICK t : Aligned(body, c, t, hidden, Extra(returns))
    BY <2>1
  <2>3. c # <<>> /\ Head(c).part = "let_element" => hidden[<<"idx", Head(c).of>>] < hidden[<<"src", Head(c).of>>]
    BY <2>2, ElementInList DEF Inv
  <2>4. QED
    BY <2>3 DEF Inv, TypeOK, HiddenOK
<1>2. QED
  BY <1>1, SpecInv, PTL

(* Whatever the generated C does, the program as it is written can do:      *)
(* parse_foreach and parse_branch keep the meaning of for-in and branch.    *)
THEOREM CDoesWhatIsWritten == Spec => []SameEvents
<1>1. Inv => SameEvents
  BY MatchedMoves DEF Inv, SameEvents
<1>2. QED
  BY <1>1, SpecInv, PTL

(* When sema's count of loops accepts the function, every break and         *)
(* continue that the C comes to has its loop.                               *)
THEOREM JumpsAccepted == Spec => []JumpsHaveLoops
<1>1. Inv => JumpsHaveLoops
  BY SoundHead DEF Inv, JumpsHaveLoops
<1>2. QED
  BY <1>1, SpecInv, PTL

(* Under the rule that a function with a value ends in a return, the        *)
(* function also ends as it is declared: sema's checks suffice for the C.   *)
THEOREM SemaIsEnough ==
  ASSUME Rule = "returns"
  PROVE  Spec => []SemaSuffices
<1>1. Inv => JumpsHaveLoops
  BY SoundHead DEF Inv, JumpsHaveLoops
<1>2. Init => Declared
  BY InitDeclared
<1>3. Inv /\ Declared /\ [Next]_vars => Declared'
  BY NextDeclared
<1>4. Declared => EndsAsDeclared
  BY DEF Declared
<1>5. Inv /\ Declared => SemaSuffices
  BY <1>1, <1>4 DEF SemaSuffices
<1>6. Spec => []Declared
  BY <1>2, <1>3, SpecInv, PTL DEF Spec
<1>7. QED
  BY <1>5, <1>6, SpecInv, PTL
================================================================================
