----------------------------- MODULE TypingProofs -----------------------------
(***************************************************************************)
(* Proofs about Typing, for any structs, enums and functions and operands  *)
(* of any depth: in programs that keep to the three rules gcc accepts what *)
(* sema accepts, every value has in C the type that stands for its own,    *)
(* and nothing is converted on the way.                                    *)
(***************************************************************************)
EXTENDS Typing, SequenceTheorems, TLAPS

-------------------------------------------------------------------------------
(* Types *)

Words == {"int", "float", "bool", "string", "void", "unknown", "list", "map",
          "long", "double", "char*", "refused"}

LEMMA NamesAreNew ==
  /\ \A s \in DOMAIN Structs : s \notin Words /\ s \notin Enums
  /\ \A e \in Enums : e \notin Words /\ e \notin DOMAIN Structs
BY TypingAssumption DEF Words

(* The kinds of types, and the C type of each                              *)
Scalar(t) == t \in Primitives
Named1(t) == \E n \in DOMAIN Structs \cup Enums : t = <<n>>
Element(e) == e \in {"int", "float", "bool", "string"} \cup DOMAIN Structs
ListType(t) == \E e : Element(e) /\ t = <<"list", e>>
MapType(t) == \E e \in {"int", "float", "bool", "string"} : t = <<"map", e>>

LEMMA ListOfIs ==
  ASSUME NEW t \in Values, t \notin {<<e>> : e \in Enums}
  PROVE  ListType(ListOf(t))
<1>1. t \in Primitives \/ \E s \in DOMAIN Structs : t = <<s>>
  BY DEF Values
<1>2. CASE t \in Primitives
  BY <1>2 DEF ListOf, ListType, Element, Primitives, TYPE_INT, TYPE_FLOAT, TYPE_BOOL, TYPE_STRING
<1>3. ASSUME NEW s \in DOMAIN Structs, t = <<s>> PROVE ListType(ListOf(t))
  BY <1>3 DEF ListOf, ListType, Element, IsStruct
<1>4. QED
  BY <1>1, <1>2, <1>3

LEMMA MapOfIs ==
  ASSUME NEW t \in Primitives
  PROVE  MapType(MapOf(t))
BY DEF MapOf, MapType, Primitives, TYPE_INT, TYPE_FLOAT, TYPE_BOOL, TYPE_STRING

LEMMA TypeKinds ==
  ASSUME NEW t \in Types
  PROVE  Scalar(t) \/ Named1(t) \/ ListType(t) \/ MapType(t) \/ t = TYPE_VOID
<1>1. CASE t \in Values
  BY <1>1 DEF Values, Scalar, Named1
<1>2. ASSUME NEW v \in Values \ {<<e>> : e \in Enums}, t = ListOf(v) PROVE ListType(t)
  BY <1>2, ListOfIs
<1>3. ASSUME NEW v \in Primitives, t = MapOf(v) PROVE MapType(t)
  BY <1>3, MapOfIs
<1>4. QED
  BY <1>1, <1>2, <1>3 DEF Types, Storable

LEMMA ListTypesAre ==
  ASSUME NEW e, Element(e)
  PROVE  <<"list", e>> \in Storable
<1>1. CASE e \in {"int", "float", "bool", "string"}
  <2>1. <<e>> \in Primitives
    BY <1>1 DEF Primitives, TYPE_INT, TYPE_FLOAT, TYPE_BOOL, TYPE_STRING
  <2>2. <<e>> \in Values /\ <<e>> \notin {<<x>> : x \in Enums}
    BY <1>1, <2>1, NamesAreNew DEF Values, Words
  <2>3. ListOf(<<e>>) = <<"list", e>>
    BY <2>1 DEF ListOf
  <2>4. QED
    BY <2>2, <2>3 DEF Storable
<1>2. CASE e \in DOMAIN Structs
  <2>1. <<e>> \in Values /\ <<e>> \notin {<<x>> : x \in Enums}
    BY <1>2, NamesAreNew DEF Values
  <2>2. ListOf(<<e>>) = <<"list", e>>
    BY <1>2 DEF ListOf, IsStruct
  <2>3. QED
    BY <2>1, <2>2 DEF Storable
<1>3. QED
  BY <1>1, <1>2 DEF Element

LEMMA MapTypesAre ==
  ASSUME NEW e \in {"int", "float", "bool", "string"}
  PROVE  <<"map", e>> \in Storable
<1>1. <<e>> \in Primitives
  BY DEF Primitives, TYPE_INT, TYPE_FLOAT, TYPE_BOOL, TYPE_STRING
<1>2. MapOf(<<e>>) = <<"map", e>>
  BY <1>1 DEF MapOf
<1>3. QED
  BY <1>1, <1>2 DEF Storable

LEMMA ScalarsInC ==
  /\ CType(TYPE_INT) = <<"long">> /\ CType(TYPE_FLOAT) = <<"double">>
  /\ CType(TYPE_BOOL) = <<"int">> /\ CType(TYPE_STRING) = <<"char*">>
BY DEF CType, CScalar, Primitives, TYPE_INT, TYPE_FLOAT, TYPE_BOOL, TYPE_STRING


(* A type's first word tells its kind, and all but the scalars are their    *)
(* own type in C.                                                           *)
LEMMA KindsAre ==
  ASSUME NEW t \in Types
  PROVE  /\ IsList(t) => ListType(t) /\ CType(t) = t
         /\ IsMap(t) => MapType(t) /\ CType(t) = t
         /\ IsStruct(t) => t = <<t[1]>> /\ CType(t) = t
         /\ IsEnum(t) => t = <<t[1]>> /\ CType(t) = t
         /\ t = TYPE_VOID => CType(t) = t
<1>1. CASE Scalar(t)
  BY <1>1, NamesAreNew
  DEF Scalar, Primitives, IsList, IsMap, IsStruct, IsEnum, Words, TYPE_INT, TYPE_FLOAT, TYPE_BOOL, TYPE_STRING, TYPE_VOID
<1>2. CASE Named1(t)
  <2>1. PICK n \in DOMAIN Structs \cup Enums : t = <<n>>
    BY <1>2 DEF Named1
  <2>2. t[1] = n /\ n \notin Words
    BY <2>1, NamesAreNew
  <2>3. t \notin Primitives
    BY <2>1, <2>2 DEF Primitives, Words, TYPE_INT, TYPE_FLOAT, TYPE_BOOL, TYPE_STRING
  <2>4. CType(t) = t /\ ~IsList(t) /\ ~IsMap(t)
    BY <2>2, <2>3 DEF CType, IsList, IsMap, Words
  <2>5. QED
    BY <2>1, <2>2, <2>4
<1>3. CASE ListType(t)
  <2>1. t[1] = "list" /\ t \notin Primitives
    BY <1>3 DEF ListType, Primitives, TYPE_INT, TYPE_FLOAT, TYPE_BOOL, TYPE_STRING
  <2>2. CType(t) = t /\ ~IsMap(t) /\ ~IsStruct(t) /\ ~IsEnum(t)
    BY <2>1, NamesAreNew DEF CType, IsMap, IsStruct, IsEnum, Words
  <2>3. QED
    BY <1>3, <2>1, <2>2 DEF TYPE_VOID
<1>4. CASE MapType(t)
  <2>1. t[1] = "map" /\ t \notin Primitives
    BY <1>4 DEF MapType, Primitives, TYPE_INT, TYPE_FLOAT, TYPE_BOOL, TYPE_STRING
  <2>2. CType(t) = t /\ ~IsList(t) /\ ~IsStruct(t) /\ ~IsEnum(t)
    BY <2>1, NamesAreNew DEF CType, IsList, IsStruct, IsEnum, Words
  <2>3. QED
    BY <1>4, <2>1, <2>2 DEF TYPE_VOID
<1>5. CASE t = TYPE_VOID
  <2>1. t[1] = "void" /\ t \notin Primitives
    BY <1>5 DEF Primitives, TYPE_INT, TYPE_FLOAT, TYPE_BOOL, TYPE_STRING, TYPE_VOID
  <2>2. CType(t) = t /\ ~IsList(t) /\ ~IsMap(t) /\ ~IsStruct(t) /\ ~IsEnum(t)
    BY <2>1, NamesAreNew DEF CType, IsList, IsMap, IsStruct, IsEnum, Words
  <2>3. QED
    BY <2>2
<1>6. QED
  BY <1>1, <1>2, <1>3, <1>4, <1>5, TypeKinds

(* What is in a list or a map                                               *)
LEMMA OfIs ==
  ASSUME NEW t \in Types, IsList(t) \/ IsMap(t)
  PROVE  /\ Of(t) \in Values
         /\ IsList(t) => ListOf(Of(t)) = t
         /\ IsMap(t) => Of(t) \in Primitives /\ MapOf(Of(t)) = t
<1>1. CASE IsList(t)
  <2>1. PICK e : Element(e) /\ t = <<"list", e>>
    BY <1>1, KindsAre DEF ListType
  <2>2. Of(t) = <<e>> /\ ~IsMap(t)
    BY <2>1 DEF Of, IsMap
  <2>3. <<e>> \in Primitives \/ e \in DOMAIN Structs
    BY <2>1 DEF Element, Primitives, TYPE_INT, TYPE_FLOAT, TYPE_BOOL, TYPE_STRING
  <2>4. <<e>> \in Values
    BY <2>3 DEF Values
  <2>5. ListOf(<<e>>) = <<"list", e>>
    BY <2>3 DEF ListOf, IsStruct
  <2>6. QED
    BY <2>1, <2>2, <2>4, <2>5
<1>2. CASE IsMap(t)
  <2>1. PICK e \in {"int", "float", "bool", "string"} : t = <<"map", e>>
    BY <1>2, KindsAre DEF MapType
  <2>2. Of(t) = <<e>> /\ ~IsList(t)
    BY <2>1 DEF Of, IsList
  <2>3. <<e>> \in Primitives
    BY <2>1 DEF Primitives, TYPE_INT, TYPE_FLOAT, TYPE_BOOL, TYPE_STRING
  <2>4. <<e>> \in Values /\ MapOf(<<e>>) = <<"map", e>>
    BY <2>3 DEF Values, MapOf
  <2>5. QED
    BY <2>1, <2>2, <2>3, <2>4
<1>3. QED
  BY <1>1, <1>2

LEMMA InC ==
  ASSUME NEW t \in Types
  PROVE  CType(t) \in CTypes /\ CType(t) # Refused
<1>1. CType(t) \in CTypes
  BY DEF CTypes
<1>2. CASE Scalar(t)
  BY <1>1, <1>2, ScalarsInC DEF Scalar, Primitives, Refused
<1>3. CASE ~Scalar(t)
  <2>1. CType(t) = t
    BY <1>3 DEF Scalar, CType
  <2>2. t # Refused
    <3>1. CASE Named1(t)
      BY <3>1, NamesAreNew DEF Named1, Refused, Words
    <3>2. CASE ListType(t) \/ MapType(t) \/ t = TYPE_VOID
      BY <3>2 DEF ListType, MapType, TYPE_VOID, Refused
    <3>3. QED
      BY <1>3, <3>1, <3>2, TypeKinds
  <2>3. QED
    BY <1>1, <2>1, <2>2
<1>4. QED
  BY <1>2, <1>3

(* A value of the very type of its place, or an int for an enum, is         *)
(* accepted there.                                                          *)
LEMMA SameConverts ==
  ASSUME NEW c, NEW t \in Types, Same(c, CType(t))
  PROVE  /\ Converts(c, CType(t))
         /\ c = CType(t) \/ (c = <<"int">> /\ IsEnum(t))
<1>1. CASE c = CType(t)
  BY <1>1 DEF Converts
<1>2. CASE c = <<"int">> /\ CType(t)[1] \in Enums
  <2>1. IsEnum(t)
    <3>1. CASE Scalar(t)
      BY <1>2, <3>1, ScalarsInC, NamesAreNew DEF Scalar, Primitives, Words
    <3>2. CASE ~Scalar(t)
      BY <1>2, <3>2 DEF Scalar, CType, IsEnum
    <3>3. QED
      BY <3>1, <3>2
  <2>2. CType(t) = <<t[1]>> /\ t[1] \in Enums
    BY <2>1, KindsAre DEF IsEnum
  <2>3. {c, CType(t)} \subseteq CNumbers
    BY <1>2, <2>2 DEF CNumbers, CIntegers
  <2>4. QED
    BY <1>2, <2>1, <2>3 DEF Converts
<1>3. QED
  BY <1>1, <1>2 DEF Same

-------------------------------------------------------------------------------
(* Operands *)

(* A C value of type c does for the type t: it is of the C type of t, or is *)
(* what C takes for one, an int in place of an enum and, unless the program *)
(* keeps to the rule on literals, an int in place of a double.              *)
Does(c, t) ==
  \/ Same(c, CType(t))
  \/ "fraction" \notin Rules /\ t = TYPE_FLOAT /\ c = <<"int">>

Good == {x \in [t : Types, c : CTypes] : Does(x.c, x.t)}

LEMMA DoesIs ==
  ASSUME NEW c, NEW t \in Types, Does(c, t)
  PROVE  /\ Converts(c, CType(t))
         /\ "fraction" \in Rules => Same(c, CType(t))
         /\ c = CType(t) \/ (c = <<"int">> /\ (IsEnum(t) \/ t = TYPE_FLOAT))
<1>1. CASE Same(c, CType(t))
  BY <1>1, SameConverts
<1>2. CASE "fraction" \notin Rules /\ t = TYPE_FLOAT /\ c = <<"int">>
  <2>1. {c, CType(t)} \subseteq CNumbers
    BY <1>2, ScalarsInC DEF CNumbers, CIntegers
  <2>2. QED
    BY <1>2, <2>1 DEF Converts
<1>3. QED
  BY <1>1, <1>2 DEF Does

LEMMA ExactDoes ==
  ASSUME NEW t \in Types
  PROVE  Does(CType(t), t)
BY DEF Does, Same

LEMMA GoodIs ==
  ASSUME NEW x \in Good
  PROVE  /\ x.t \in Types /\ x.c \in CTypes /\ Does(x.c, x.t)
         /\ x.c = CType(x.t) \/ (x.c = <<"int">> /\ (IsEnum(x.t) \/ x.t = TYPE_FLOAT))
BY DoesIs DEF Good

LEMMA IsGood ==
  ASSUME NEW t \in Types, NEW c \in CTypes, Does(c, t)
  PROVE  [t |-> t, c |-> c] \in Good
BY DEF Good

IInv ==
  /\ stack \in Seq(Good) /\ Len(stack) <= MaxStack
  /\ differs \in BOOLEAN /\ ("fraction" \in Rules => ~differs)
  /\ verdict \in {"checking", "rejected"}

LEMMA OperandIs ==
  ASSUME IInv, NEW n \in Nat, Len(stack) >= n, NEW i \in 1 .. n
  PROVE  Operand(n, i) \in Good
<1>1. Len(stack) \in Nat
  BY LenProperties DEF IInv
<1>2. Len(stack) - n + i \in 1 .. Len(stack)
  BY <1>1
<1>3. QED
  BY <1>2, ElementOfSeq DEF IInv, Operand

(* What gcc reads of n operands is put where values of their types belong.  *)
Fine(moves) == \A m \in moves : \E t \in Types : m[2] = CType(t) /\ Does(m[1], t)

LEMMA AcceptKeeps ==
  ASSUME IInv, NEW n \in Nat, Len(stack) >= n,
         NEW operands \in Seq(Good), Len(stack) - n + Len(operands) <= MaxStack,
         NEW c, c # Refused, NEW moves, Fine(moves), Accept(n, operands, c, moves)
  PROVE  IInv'
<1>1. PICK l \in Nat : l = Len(stack)
  BY LenProperties DEF IInv
<1>2. Len(operands) \in Nat
  BY LenProperties
<1>3. stack \in Seq(Good)
  BY DEF IInv
<1>4. PICK rest : rest = SubSeq(stack, 1, Len(stack) - n)
  OBVIOUS
<1>5. rest \in Seq(Good) /\ Len(rest) = l - n
  <2>1. \A i \in 1 .. l - n : stack[i] \in Good
    <3>1. \A i \in 1 .. l - n : i \in 1 .. Len(stack)
      BY <1>1
    <3>2. QED
      BY <1>3, <3>1, ElementOfSeq
  <2>2. 1 \in Int /\ l - n \in Int /\ rest = SubSeq(stack, 1, l - n)
    BY <1>1, <1>4
  <2>3. rest \in Seq(Good) /\ Len(rest) = IF 1 <= l - n THEN l - n - 1 + 1 ELSE 0
    BY <2>1, <2>2, SubSeqProperties
  <2>4. QED
    BY <1>1, <2>2, <2>3
<1>6. stack' = rest \o operands
  BY <1>4 DEF Accept
<1>7. stack' \in Seq(Good) /\ Len(stack') = Len(rest) + Len(operands)
  BY <1>5, <1>6, ConcatProperties
<1>8. Len(stack') <= MaxStack
  BY <1>1, <1>2, <1>5, <1>7
<1>9. \A m \in moves : Converts(m[1], m[2]) /\ ("fraction" \in Rules => Same(m[1], m[2]))
  BY DoesIs DEF Fine
<1>10. /\ differs' \in BOOLEAN /\ ("fraction" \in Rules => ~differs')
       /\ verdict' = "checking"
  BY <1>9 DEF Accept
<1>11. QED
  BY <1>7, <1>8, <1>10 DEF IInv

LEMMA RejectKeeps == Reject => IInv'
<1>1. MaxStack \in Nat
  BY TypingAssumption
<1>2. Len(<<>>) = 0 /\ <<>> \in Seq(Good)
  OBVIOUS
<1>3. Reject => stack' \in Seq(Good) /\ Len(stack') <= MaxStack
  BY <1>1, <1>2 DEF Reject
<1>4. Reject => differs' \in BOOLEAN /\ ~differs' /\ verdict' \in {"checking", "rejected"}
  BY DEF Reject
<1>5. QED
  BY <1>3, <1>4 DEF IInv

(* An expression accepted by sema has in C the type that stands for its own *)
LEMMA ExpressionKeeps ==
  ASSUME IInv, NEW n \in Nat, Len(stack) >= n, Len(stack) - n < MaxStack,
         NEW t, NEW c, NEW moves,
         t # TYPE_UNKNOWN =>
           t \in Types /\ c \in CTypes /\ Does(c, t) /\ c # Refused /\ Fine(moves),
         Expression(n, t, c, moves)
  PROVE  IInv'
<1>1. CASE t = TYPE_UNKNOWN
  BY <1>1, RejectKeeps DEF Expression
<1>2. CASE t # TYPE_UNKNOWN
  <2>1. PICK operands : operands = <<[t |-> t, c |-> c]>>
    OBVIOUS
  <2>2. [t |-> t, c |-> c] \in Good
    BY <1>2, IsGood
  <2>3. operands \in Seq(Good) /\ Len(operands) = 1
    BY <2>1, <2>2
  <2>4. Len(stack) \in Nat /\ MaxStack \in Nat
    BY LenProperties, TypingAssumption DEF IInv
  <2>5. Len(stack) - n + Len(operands) <= MaxStack
    BY <2>3, <2>4
  <2>6. Accept(n, operands, c, moves)
    BY <1>2, <2>1 DEF Expression
  <2>7. c # Refused /\ Fine(moves)
    BY <1>2
  <2>8. QED
    BY <2>3, <2>5, <2>6, <2>7, AcceptKeeps
<1>3. QED
  BY <1>1, <1>2

LEMMA StatementKeeps ==
  ASSUME IInv, NEW n \in Nat, NEW ok, NEW moves, ok => Fine(moves),
         Statement(n, ok, moves)
  PROVE  IInv'
<1>1. CASE Reject
  BY <1>1, RejectKeeps
<1>2. CASE ok /\ Accept(n, <<>>, <<"void">>, moves)
  <2>1. PICK operands : operands = <<>>
    OBVIOUS
  <2>2. operands \in Seq(Good) /\ Len(operands) = 0
    BY <2>1
  <2>3. Len(stack) \in Nat /\ MaxStack \in Nat /\ Len(stack) = n
    BY LenProperties, TypingAssumption DEF IInv, Statement
  <2>4. Len(stack) - n + Len(operands) <= MaxStack
    BY <2>2, <2>3
  <2>5. PICK c : c = <<"void">>
    OBVIOUS
  <2>6. c # Refused
    BY <2>5 DEF Refused
  <2>7. Accept(n, operands, c, moves) /\ Fine(moves)
    BY <1>2, <2>1, <2>5
  <2>8. Len(stack) >= n
    BY <2>3
  <2>9. QED
    BY <2>2, <2>4, <2>6, <2>7, <2>8, AcceptKeeps
<1>3. QED
  BY <1>1, <1>2 DEF Statement

(* One move, of a value to a place of its type                              *)
LEMMA FineIs ==
  ASSUME NEW c, NEW t \in Types, Does(c, t)
  PROVE  Fine({<<c, CType(t)>>})
BY DEF Fine

LEMMA FineUnion ==
  ASSUME NEW a, NEW b, Fine(a), Fine(b)
  PROVE  Fine(a \cup b)
BY DEF Fine

LEMMA ScalarTypes ==
  /\ TYPE_INT \in Types /\ TYPE_FLOAT \in Types /\ TYPE_BOOL \in Types
  /\ TYPE_STRING \in Types /\ TYPE_VOID \in Types
  /\ TYPE_UNKNOWN \notin Types
  /\ Storable \subseteq Types /\ Values \subseteq Storable /\ Primitives \subseteq Values
<1>1. Storable \subseteq Types /\ Values \subseteq Storable /\ Primitives \subseteq Values
  BY DEF Types, Storable, Values
<1>2. TYPE_INT \in Types /\ TYPE_FLOAT \in Types /\ TYPE_BOOL \in Types
      /\ TYPE_STRING \in Types /\ TYPE_VOID \in Types
  BY <1>1 DEF Types, Primitives
<1>3. TYPE_UNKNOWN \notin Types
  <2>1. ~Scalar(TYPE_UNKNOWN) /\ TYPE_UNKNOWN # TYPE_VOID
    BY DEF Scalar, Primitives, TYPE_INT, TYPE_FLOAT, TYPE_BOOL, TYPE_STRING, TYPE_VOID, TYPE_UNKNOWN
  <2>2. ~Named1(TYPE_UNKNOWN)
    BY NamesAreNew DEF Named1, TYPE_UNKNOWN, Words
  <2>3. ~ListType(TYPE_UNKNOWN) /\ ~MapType(TYPE_UNKNOWN)
    BY DEF ListType, MapType, TYPE_UNKNOWN
  <2>4. QED
    BY <2>1, <2>2, <2>3, TypeKinds
<1>4. QED
  BY <1>1, <1>2, <1>3

-------------------------------------------------------------------------------
(* Expressions *)

LEMMA LeafKeeps ==
  ASSUME IInv, NEW t \in Types, NEW c \in CTypes, Does(c, t), c # Refused, Leaf(t, c)
  PROVE  IInv'
<1>1. Len(stack) \in Nat
  BY LenProperties DEF IInv
<1>2. Len(stack) >= 0 /\ Len(stack) - 0 < MaxStack /\ 0 \in Nat
  BY <1>1 DEF Leaf
<1>3. PICK moves : moves = {}
  OBVIOUS
<1>4. Fine(moves) /\ Expression(0, t, c, moves)
  BY <1>3 DEF Fine, Leaf
<1>5. QED
  BY <1>2, <1>4, ExpressionKeeps

LEMMA LiteralKeeps ==
  ASSUME IInv, Literal
  PROVE  IInv'
<1>1. \A t \in Types : CType(t) \in CTypes /\ CType(t) # Refused /\ Does(CType(t), t)
  BY InC, ExactDoes
<1>2. CASE Leaf(TYPE_INT, <<"long">>)
  BY <1>1, <1>2, ScalarTypes, ScalarsInC, LeafKeeps
<1>3. CASE Leaf(TYPE_FLOAT, <<"double">>)
  BY <1>1, <1>3, ScalarTypes, ScalarsInC, LeafKeeps
<1>4. CASE Leaf(TYPE_BOOL, <<"int">>)
  BY <1>1, <1>4, ScalarTypes, ScalarsInC, LeafKeeps
<1>5. CASE Leaf(TYPE_STRING, <<"char*">>)
  BY <1>1, <1>5, ScalarTypes, ScalarsInC, LeafKeeps
<1>6. CASE "fraction" \notin Rules /\ Leaf(TYPE_FLOAT, <<"int">>)
  <2>1. Does(<<"int">>, TYPE_FLOAT)
    BY <1>6 DEF Does
  <2>2. <<"int">> \in CTypes /\ <<"int">> # Refused
    BY <1>1, ScalarTypes, ScalarsInC
  <2>3. QED
    BY <1>6, <2>1, <2>2, ScalarTypes, LeafKeeps
<1>7. \A c \in FloatLiterals : c = <<"double">> \/ ("fraction" \notin Rules /\ c = <<"int">>)
  BY DEF FloatLiterals
<1>8. QED
  BY <1>2, <1>3, <1>4, <1>5, <1>6, <1>7 DEF Literal

LEMMA VariableKeeps ==
  ASSUME IInv, Variable
  PROVE  IInv'
<1>1. PICK t \in Storable : Leaf(t, CType(t))
  BY DEF Variable
<1>2. t \in Types /\ CType(t) \in CTypes /\ CType(t) # Refused /\ Does(CType(t), t)
  BY ScalarTypes, InC, ExactDoes
<1>3. QED
  BY <1>1, <1>2, LeafKeeps

LEMMA EnumMemberKeeps ==
  ASSUME IInv, EnumMember
  PROVE  IInv'
<1>1. PICK e \in Enums : Leaf(<<e>>, <<"int">>)
  BY DEF EnumMember
<1>2. <<e>> \in Types
  BY ScalarTypes DEF Values
<1>3. IsEnum(<<e>>)
  BY DEF IsEnum
<1>4. CType(<<e>>) = <<e>>
  BY <1>2, <1>3, KindsAre
<1>5. <<"int">> \in CTypes /\ <<"int">> # Refused
  BY ScalarTypes, ScalarsInC, InC DEF Refused
<1>6. Does(<<"int">>, <<e>>)
  BY <1>4 DEF Does, Same
<1>7. QED
  BY <1>1, <1>2, <1>5, <1>6, LeafKeeps

(* What is used of operands: they are good, and a scalar is what it seems   *)
LEMMA ScalarIs ==
  ASSUME NEW x \in Good, x.t \in Primitives \/ ~IsEnum(x.t), x.t # TYPE_FLOAT
  PROVE  x.c = CType(x.t)
<1>1. ~IsEnum(x.t)
  BY NamesAreNew DEF IsEnum, Words, Primitives, TYPE_INT, TYPE_FLOAT, TYPE_BOOL, TYPE_STRING
<1>2. QED
  BY <1>1, GoodIs

LEMMA RoomIs ==
  ASSUME IInv, NEW n \in Nat, n >= 1, Len(stack) >= n
  PROVE  Len(stack) - n < MaxStack
<1>1. Len(stack) \in Nat /\ MaxStack \in Nat
  BY LenProperties, TypingAssumption DEF IInv
<1>2. QED
  BY <1>1 DEF IInv

(* The common case: an expression of some operands whose type in C is the   *)
(* one that stands for its type                                             *)
LEMMA TypedKeeps ==
  ASSUME IInv, NEW n \in Nat, n >= 1, Has(n), NEW t, NEW c, NEW moves,
         t # TYPE_UNKNOWN => t \in Types /\ c = CType(t) /\ Fine(moves),
         Expression(n, t, c, moves)
  PROVE  IInv'
<1>1. Len(stack) >= n
  BY DEF Has
<1>2. Len(stack) - n < MaxStack
  BY <1>1, RoomIs
<1>3. t # TYPE_UNKNOWN =>
        t \in Types /\ c \in CTypes /\ Does(c, t) /\ c # Refused /\ Fine(moves)
  BY InC, ExactDoes
<1>4. QED
  BY <1>1, <1>2, <1>3, ExpressionKeeps

LEMMA NotRefused ==
  ASSUME NEW x \in Good
  PROVE  x.c # Refused
<1>1. x.c = CType(x.t) \/ x.c = <<"int">>
  BY GoodIs
<1>2. <<"int">> # Refused
  BY DEF Refused
<1>3. QED
  BY <1>1, <1>2, GoodIs, InC

(* A scalar or an enum is a number in C unless it is a string.              *)
LEMMA NumberIs ==
  ASSUME NEW x \in Good, x.t \in Primitives \/ IsEnum(x.t), x.t # TYPE_STRING
  PROVE  x.c \in CNumbers
<1>1. CASE x.t \in Primitives
  <2>1. CASE x.t = TYPE_FLOAT
    BY <2>1, GoodIs, ScalarsInC DEF CNumbers, CIntegers
  <2>2. CASE x.t # TYPE_FLOAT
    <3>1. x.c = CType(x.t) /\ x.t \in {TYPE_INT, TYPE_BOOL}
      BY <1>1, <2>2, ScalarIs DEF Primitives
    <3>2. QED
      BY <3>1, ScalarsInC DEF CNumbers, CIntegers
  <2>3. QED
    BY <2>1, <2>2
<1>2. CASE IsEnum(x.t)
  <2>1. CType(x.t) = <<x.t[1]>> /\ x.t[1] \in Enums
    BY <1>2, KindsAre, GoodIs DEF IsEnum
  <2>3. x.c = <<x.t[1]>> \/ x.c = <<"int">>
    BY <2>1, GoodIs
  <2>4. QED
    BY <2>1, <2>3 DEF CNumbers, CIntegers
<1>3. QED
  BY <1>1, <1>2

LEMMA UnaryKeeps ==
  ASSUME IInv, NEW op \in {"!", "~", "-"}, Unary(op)
  PROVE  IInv'
<1>1. PICK x : x = Operand(1, 1)
  OBVIOUS
<1>2. Has(1) /\ Len(stack) >= 1
  BY DEF Unary, Has
<1>3. x \in Good
  BY <1>1, <1>2, OperandIs
<1>4. Len(stack) - 1 < MaxStack
  BY <1>2, RoomIs
<1>5. PICK c : c = CASE op = "!" -> IF x.c \in CNumbers THEN <<"int">> ELSE Refused
                     [] op = "~" -> IF x.c \in CIntegers THEN x.c ELSE Refused
                     [] op = "-" -> IF x.c \in CNumbers THEN x.c ELSE Refused
  OBVIOUS
<1>6. PICK t : t = CheckUnary(op, x.t)
  OBVIOUS
<1>7. PICK moves : moves = {}
  OBVIOUS
<1>8. Expression(1, t, c, moves) /\ Fine(moves)
  BY <1>1, <1>5, <1>6, <1>7 DEF Unary, Fine
<1>9. ASSUME t # TYPE_UNKNOWN
      PROVE  t \in {TYPE_INT, TYPE_FLOAT, TYPE_BOOL} /\ c = x.c /\ t = x.t
  <2>1. x.t \in {TYPE_INT, TYPE_FLOAT, TYPE_BOOL} /\ t = x.t
    BY <1>6, <1>9 DEF CheckUnary, IsNumeric
  <2>2. x.t # TYPE_FLOAT => x.c = CType(x.t)
    BY <1>3, <2>1, ScalarIs DEF Primitives
  <2>3. CASE op = "!"
    <3>1. x.t = TYPE_BOOL /\ x.t # TYPE_FLOAT
      BY <1>6, <1>9, <2>3 DEF CheckUnary, TYPE_BOOL, TYPE_FLOAT
    <3>2. x.c = <<"int">>
      BY <2>2, <3>1, ScalarsInC
    <3>3. c = <<"int">>
      BY <1>5, <2>3, <3>2 DEF CNumbers, CIntegers
    <3>4. QED
      BY <2>1, <3>2, <3>3
  <2>4. CASE op = "~"
    <3>1. x.t = TYPE_INT /\ x.t # TYPE_FLOAT
      BY <1>6, <1>9, <2>4 DEF CheckUnary, TYPE_INT, TYPE_FLOAT
    <3>2. x.c = <<"long">>
      BY <2>2, <3>1, ScalarsInC
    <3>3. c = x.c
      BY <1>5, <2>4, <3>2 DEF CIntegers
    <3>4. QED
      BY <2>1, <3>3
  <2>5. CASE op = "-"
    <3>1. x.c \in CNumbers
      BY <1>3, <2>1, NumberIs DEF Primitives, TYPE_INT, TYPE_FLOAT, TYPE_BOOL, TYPE_STRING
    <3>2. c = x.c
      BY <1>5, <2>5, <3>1
    <3>3. QED
      BY <2>1, <3>2
  <2>6. QED
    BY <2>3, <2>4, <2>5
<1>10. t # TYPE_UNKNOWN =>
         t \in Types /\ c \in CTypes /\ Does(c, t) /\ c # Refused /\ Fine(moves)
  BY <1>3, <1>8, <1>9, GoodIs, NotRefused
<1>11. QED
  BY <1>2, <1>4, <1>8, <1>10, ExpressionKeeps

LEMMA WiderIs ==
  ASSUME NEW l, NEW r
  PROVE  /\ l = r /\ l \in {<<"long">>, <<"double">>} => Wider(l, r) = l
         /\ l \in {<<"int">>, <<"double">>} /\ r \in {<<"int">>, <<"double">>} =>
              Wider(l, r) \in {l, r}
         /\ <<"double">> \in {l, r} => Wider(l, r) = <<"double">>
<1>1. <<"double">> \in {l, r} => Wider(l, r) = <<"double">>
  BY DEF Wider
<1>2. l = <<"long">> /\ r = <<"long">> => Wider(l, r) = <<"long">>
  BY DEF Wider
<1>3. l = <<"int">> /\ r = <<"int">> => Wider(l, r) = <<"int">>
  BY DEF Wider
<1>4. QED
  BY <1>1, <1>2, <1>3

LEMMA COperatorIs ==
  ASSUME NEW l, NEW r, {l, r} \subseteq CNumbers
  PROVE  /\ \A op \in {"&&", "==", "<"} : COperator(op, l, r) = <<"int">>
         /\ \A op \in {"+", "/"} : COperator(op, l, r) = Wider(l, r)
         /\ \A op \in {"%", "&"} : l = r /\ l = <<"long">> => COperator(op, l, r) = l
<1>1. \A op \in {"&&", "==", "<"} : COperator(op, l, r) = <<"int">>
  BY DEF COperator
<1>2. \A op \in {"+", "/"} : COperator(op, l, r) = Wider(l, r)
  BY DEF COperator
<1>3. ASSUME l = r, l = <<"long">>, NEW op \in {"%", "&"} PROVE COperator(op, l, r) = l
  <2>1. {l, r} \subseteq CIntegers
    BY <1>3 DEF CIntegers
  <2>2. COperator(op, l, r) = Wider(l, r)
    BY <1>3, <2>1 DEF COperator
  <2>3. QED
    BY <1>3, <2>2, WiderIs
<1>4. QED
  BY <1>1, <1>2, <1>3

(* What has an equality once calls of void functions are left out           *)
LEMMA ComparedIs ==
  ASSUME NEW t \in Types, ~(IsList(t) \/ IsMap(t) \/ IsStruct(t)), t # TYPE_VOID
  PROVE  t \in Primitives \/ IsEnum(t)
<1>1. Scalar(t) \/ Named1(t) \/ ListType(t) \/ MapType(t)
  BY TypeKinds
<1>2. CASE Named1(t)
  BY <1>2 DEF Named1, IsStruct, IsEnum
<1>3. CASE ListType(t) \/ MapType(t)
  BY <1>3 DEF ListType, MapType, IsList, IsMap
<1>4. QED
  BY <1>1, <1>2, <1>3 DEF Scalar

LEMMA CheckBinaryIs ==
  ASSUME NEW op \in Operators, NEW l \in Good, NEW r \in Good,
         ~(op = "%" /\ l.t = TYPE_FLOAT), ~(op = "==" /\ l.t = TYPE_VOID),
         CheckBinary(op, l.t, r.t) # TYPE_UNKNOWN, ~(l.t = TYPE_STRING /\ op \in {"==", "+"})
  PROVE  /\ CheckBinary(op, l.t, r.t) \in {TYPE_INT, TYPE_FLOAT, TYPE_BOOL}
         /\ \/ COperator(op, l.c, r.c) = CType(CheckBinary(op, l.t, r.t))
            \/ CheckBinary(op, l.t, r.t) = l.t /\ l.t = r.t /\ COperator(op, l.c, r.c) \in {l.c, r.c}
<1> DEFINE t == CheckBinary(op, l.t, r.t)
<1>1. CASE op = "&&"
  <2>1. l.t = TYPE_BOOL /\ r.t = TYPE_BOOL /\ t = TYPE_BOOL
    BY <1>1 DEF CheckBinary
  <2>2. l.c \in CNumbers /\ r.c \in CNumbers
    BY <2>1, NumberIs DEF Primitives, TYPE_BOOL, TYPE_STRING
  <2>3. QED
    BY <1>1, <2>1, <2>2, COperatorIs, ScalarsInC
<1>2. CASE op = "=="
  <2>1. l.t = r.t /\ ~(IsList(l.t) \/ IsMap(l.t) \/ IsStruct(l.t)) /\ t = TYPE_BOOL
    BY <1>2 DEF CheckBinary
  <2>2. l.t \in Primitives \/ IsEnum(l.t)
    BY <1>2, <2>1, ComparedIs, GoodIs
  <2>3. l.t # TYPE_STRING
    BY <1>2
  <2>4. l.c \in CNumbers /\ r.c \in CNumbers
    BY <2>1, <2>2, <2>3, NumberIs
  <2>5. QED
    BY <1>2, <2>1, <2>4, COperatorIs, ScalarsInC
<1>3. CASE op = "<"
  <2>1. l.t = r.t /\ l.t \in {TYPE_INT, TYPE_FLOAT} /\ t = TYPE_BOOL
    BY <1>3 DEF CheckBinary, IsNumeric
  <2>2. l.c \in CNumbers /\ r.c \in CNumbers
    BY <2>1, NumberIs DEF Primitives, TYPE_INT, TYPE_FLOAT, TYPE_STRING
  <2>3. QED
    BY <1>3, <2>1, <2>2, COperatorIs, ScalarsInC
<1>4. CASE op \in {"+", "/", "%", "&"} /\ l.t = TYPE_INT
  <2>1. l.t = r.t /\ t = TYPE_INT /\ TYPE_INT # TYPE_FLOAT
    BY <1>4 DEF CheckBinary, IsNumeric, TYPE_INT, TYPE_FLOAT, TYPE_STRING
  <2>2. l.c = <<"long">> /\ r.c = <<"long">>
    BY <1>4, <2>1, ScalarIs, ScalarsInC DEF Primitives
  <2>3. {l.c, r.c} \subseteq CNumbers
    BY <2>2 DEF CNumbers, CIntegers
  <2>4. COperator(op, l.c, r.c) = <<"long">>
    BY <1>4, <2>2, <2>3, COperatorIs, WiderIs
  <2>5. QED
    BY <2>1, <2>4, ScalarsInC
<1>5. CASE op \in {"+", "/", "%", "&"} /\ l.t # TYPE_INT
  <2>1. l.t = TYPE_FLOAT /\ r.t = TYPE_FLOAT /\ t = TYPE_FLOAT /\ op \in {"+", "/"}
    BY <1>5 DEF CheckBinary, IsNumeric
  <2>2. l.c \in {<<"int">>, <<"double">>} /\ r.c \in {<<"int">>, <<"double">>}
    BY <2>1, GoodIs, ScalarsInC
  <2>3. {l.c, r.c} \subseteq CNumbers
    BY <2>2 DEF CNumbers, CIntegers
  <2>4. COperator(op, l.c, r.c) \in {l.c, r.c}
    BY <2>1, <2>2, <2>3, COperatorIs, WiderIs
  <2>5. QED
    BY <2>1, <2>4
<1>6. QED
  BY <1>1, <1>2, <1>3, <1>4, <1>5 DEF Operators

LEMMA BinaryKeeps ==
  ASSUME IInv, "remainder" \in Rules, "void" \in Rules, NEW op \in Operators, Binary(op)
  PROVE  IInv'
<1>1. PICK l : l = Operand(2, 1)
  OBVIOUS
<1>2. PICK r : r = Operand(2, 2)
  OBVIOUS
<1>3. Has(2) /\ Len(stack) >= 2
  BY DEF Binary, Has
<1>4. l \in Good /\ r \in Good
  BY <1>1, <1>2, <1>3, OperandIs
<1>5. Len(stack) - 2 < MaxStack
  BY <1>3, RoomIs
<1>6. PICK called : called = (l.t = TYPE_STRING /\ op \in {"==", "+"})
  OBVIOUS
<1>7. PICK c : c = CASE called /\ op = "==" -> <<"int">>
                     [] called /\ op = "+" -> <<"char*">>
                     [] ~called -> COperator(op, l.c, r.c)
  OBVIOUS
<1>8. PICK moves : moves = IF called THEN {<<l.c, <<"char*">>>>, <<r.c, <<"char*">>>>} ELSE {}
  OBVIOUS
<1>9. PICK t : t = CheckBinary(op, l.t, r.t)
  OBVIOUS
<1>10. Expression(2, t, c, moves)
  BY <1>1, <1>2, <1>6, <1>7, <1>8, <1>9 DEF Binary
<1>11. ~(op = "%" /\ l.t = TYPE_FLOAT) /\ ~(op = "==" /\ l.t = TYPE_VOID)
  BY <1>1 DEF Binary
<1>12. ASSUME t # TYPE_UNKNOWN
       PROVE  t \in Types /\ c \in CTypes /\ Does(c, t) /\ c # Refused /\ Fine(moves)
  <2>1. CASE ~called
    <3>1. c = COperator(op, l.c, r.c) /\ moves = {}
      BY <1>7, <1>8, <2>1
    <3>2. /\ t \in {TYPE_INT, TYPE_FLOAT, TYPE_BOOL}
          /\ c = CType(t) \/ (t = l.t /\ l.t = r.t /\ c \in {l.c, r.c})
      BY <1>4, <1>6, <1>9, <1>11, <1>12, <2>1, <3>1, CheckBinaryIs
    <3>3. t \in Types /\ Fine(moves)
      BY <3>1, <3>2, ScalarTypes DEF Fine
    <3>4. CASE c = CType(t)
      BY <3>3, <3>4, InC, ExactDoes
    <3>5. CASE t = l.t /\ l.t = r.t /\ c \in {l.c, r.c}
      BY <1>4, <3>3, <3>5, GoodIs, NotRefused
    <3>6. QED
      BY <3>2, <3>4, <3>5
  <2>2. CASE called
    <3>1. l.t = TYPE_STRING /\ op \in {"==", "+"} /\ r.t = TYPE_STRING
      BY <1>6, <1>9, <1>12, <2>2 DEF CheckBinary
    <3>2. l.c = CType(TYPE_STRING) /\ r.c = CType(TYPE_STRING)
      BY <1>4, <3>1, ScalarIs DEF Primitives, TYPE_STRING, TYPE_FLOAT
    <3>3. Fine(moves)
      BY <1>8, <2>2, <3>2, ScalarsInC, ScalarTypes DEF Fine, Does, Same
    <3>4. op = "==" => t = TYPE_BOOL
      BY <1>9, <1>12, <3>1 DEF CheckBinary
    <3>5. op = "+" => t = TYPE_STRING
      BY <1>9, <1>12, <3>1 DEF CheckBinary
    <3>6. op = "==" => c = <<"int">>
      BY <1>7, <2>2
    <3>7. op = "+" => c = <<"char*">>
      BY <1>7, <2>2
    <3>8. t \in Types /\ c = CType(t)
      BY <3>1, <3>4, <3>5, <3>6, <3>7, ScalarsInC, ScalarTypes
    <3>9. QED
      BY <3>3, <3>8, InC, ExactDoes
  <2>3. QED
    BY <1>6, <2>1, <2>2
<1>13. QED
  BY <1>3, <1>5, <1>10, <1>12, ExpressionKeeps

(* A list or a map is of what was put into it.                              *)
LEMMA ListOfTypes ==
  ASSUME NEW t \in Types, ListOf(t) # TYPE_UNKNOWN
  PROVE  ListOf(t) \in Types /\ IsList(ListOf(t)) /\ Of(ListOf(t)) = t /\ ~IsEnum(t)
<1>1. t \in Primitives \/ IsStruct(t)
  BY DEF ListOf
<1>2. ListOf(t) = <<"list", t[1]>>
  BY <1>1 DEF ListOf
<1>3. Element(t[1]) /\ t = <<t[1]>> /\ ~IsEnum(t)
  <2>1. CASE t \in Primitives
    BY <2>1, NamesAreNew
    DEF Primitives, Element, IsEnum, Words, TYPE_INT, TYPE_FLOAT, TYPE_BOOL, TYPE_STRING
  <2>2. CASE IsStruct(t)
    BY <2>2, KindsAre, NamesAreNew DEF Element, IsStruct, IsEnum
  <2>3. QED
    BY <1>1, <2>1, <2>2
<1>4. <<"list", t[1]>> \in Types
  BY <1>3, ListTypesAre, ScalarTypes
<1>5. QED
  BY <1>2, <1>3, <1>4 DEF IsList, Of

LEMMA MapOfTypes ==
  ASSUME NEW t \in Types, MapOf(t) # TYPE_UNKNOWN
  PROVE  MapOf(t) \in Types /\ IsMap(MapOf(t)) /\ Of(MapOf(t)) = t /\ t \in Primitives
<1>1. t \in Primitives
  BY DEF MapOf
<1>2. MapOf(t) = <<"map", t[1]>>
  BY <1>1 DEF MapOf
<1>3. t[1] \in {"int", "float", "bool", "string"} /\ t = <<t[1]>>
  BY <1>1 DEF Primitives, TYPE_INT, TYPE_FLOAT, TYPE_BOOL, TYPE_STRING
<1>4. <<"map", t[1]>> \in Types
  BY <1>3, MapTypesAre, ScalarTypes
<1>5. QED
  BY <1>1, <1>2, <1>3, <1>4 DEF IsMap, Of

LEMMA ListLiteralKeeps ==
  ASSUME IInv, NEW n \in 1 .. Len(stack), ListLiteral(n)
  PROVE  IInv'
<1>1. n \in Nat /\ n >= 1 /\ Len(stack) >= n
  BY LenProperties DEF IInv
<1>2. PICK t : t = CheckListLiteral(n)
  OBVIOUS
<1>3. PICK moves : moves = {<<Operand(n, i).c, CType(Of(t))>> : i \in 1 .. n}
  OBVIOUS
<1>4. Has(n) /\ Expression(n, t, CType(t), moves)
  BY <1>2, <1>3 DEF ListLiteral
<1>5. \A i \in 1 .. n : Operand(n, i) \in Good
  BY <1>1, OperandIs
<1>6. ASSUME t # TYPE_UNKNOWN PROVE t \in Types /\ Fine(moves)
  <2>1. PICK e : e = Operand(n, 1).t
    OBVIOUS
  <2>2. t = ListOf(e) /\ \A i \in 1 .. n : Operand(n, i).t = e
    BY <1>2, <1>6, <2>1 DEF CheckListLiteral
  <2>3. e \in Types
    BY <1>1, <1>5, <2>1, GoodIs
  <2>4. t \in Types /\ Of(t) = e /\ ~IsEnum(e)
    BY <1>6, <2>2, <2>3, ListOfTypes
  <2>5. \A i \in 1 .. n : Does(Operand(n, i).c, e)
    BY <1>5, <2>2, GoodIs
  <2>6. Fine(moves)
    BY <1>3, <2>3, <2>4, <2>5 DEF Fine
  <2>7. QED
    BY <2>4, <2>6
<1>7. QED
  BY <1>1, <1>4, <1>6, TypedKeeps

LEMMA MapLiteralKeeps ==
  ASSUME IInv, NEW n \in 1 .. Len(stack), MapLiteral(n)
  PROVE  IInv'
<1>1. n \in Nat /\ n >= 1 /\ 2 * n \in Nat /\ 2 * n >= 1
  BY LenProperties DEF IInv
<1> DEFINE key(i) == Operand(2 * n, 2 * i - 1)
           value(i) == Operand(2 * n, 2 * i)
<1>2. PICK t : t = IF \A i \in 1 .. n : key(i).t = TYPE_STRING /\ value(i).t = value(1).t
                   THEN MapOf(value(1).t) ELSE TYPE_UNKNOWN
  OBVIOUS
<1>3. PICK ks : ks = {<<key(i).c, <<"char*">>>> : i \in 1 .. n}
  OBVIOUS
<1>4. PICK vs : vs = {<<value(i).c, CType(Of(t))>> : i \in 1 .. n}
  OBVIOUS
<1>5. PICK moves : moves = ks \cup vs
  OBVIOUS
<1>6. Has(2 * n) /\ Expression(2 * n, t, CType(t), moves)
  BY <1>2, <1>3, <1>4, <1>5 DEF MapLiteral
<1>7. Len(stack) >= 2 * n
  BY <1>6 DEF Has
<1>8. \A i \in 1 .. n : 2 * i - 1 \in 1 .. 2 * n /\ 2 * i \in 1 .. 2 * n
  BY <1>1
<1>9. \A i \in 1 .. n : key(i) \in Good /\ value(i) \in Good
  BY <1>1, <1>7, <1>8, OperandIs
<1>10. ASSUME t # TYPE_UNKNOWN PROVE t \in Types /\ Fine(moves)
  <2>1. PICK e : e = value(1).t
    OBVIOUS
  <2>2. t = MapOf(e) /\ \A i \in 1 .. n : key(i).t = TYPE_STRING /\ value(i).t = e
    BY <1>2, <1>10, <2>1
  <2>3. e \in Types
    BY <1>1, <1>9, <2>1, GoodIs
  <2>4. t \in Types /\ Of(t) = e /\ e \in Primitives
    BY <1>10, <2>2, <2>3, MapOfTypes
  <2>5. \A i \in 1 .. n : Does(value(i).c, e)
    BY <1>9, <2>2, GoodIs
  <2>6. \A i \in 1 .. n : Does(key(i).c, TYPE_STRING)
    BY <1>9, <2>2, GoodIs
  <2>7. Fine(ks)
    BY <1>3, <2>6, ScalarTypes, ScalarsInC DEF Fine
  <2>8. Fine(vs)
    BY <1>4, <2>3, <2>4, <2>5 DEF Fine
  <2>9. QED
    BY <1>5, <2>4, <2>7, <2>8, FineUnion
<1>11. QED
  BY <1>1, <1>6, <1>10, TypedKeeps

LEMMA StructLiteralKeeps ==
  ASSUME IInv, NEW s \in DOMAIN Structs, NEW m \in 1 .. Len(stack),
         NEW names \in [1 .. m -> FieldNames], StructLiteral(s, names)
  PROVE  IInv'
<1>1. m \in Nat /\ m >= 1 /\ Len(names) = m
  BY LenProperties DEF IInv
<1>2. PICK n \in Nat : n = m /\ n >= 1 /\ n = Len(names)
  BY <1>1
<1>3. PICK t : t = CheckStructLiteral(s, names)
  OBVIOUS
<1>4. PICK moves : moves = {<<Operand(n, i).c, CType(Structs[s][names[i]])>> : i \in 1 .. n}
  OBVIOUS
<1>5. Has(n) /\ Expression(n, t, <<s>>, moves)
  BY <1>2, <1>3, <1>4 DEF StructLiteral
<1>6. Len(stack) >= n
  BY <1>5 DEF Has
<1>7. \A i \in 1 .. n : Operand(n, i) \in Good
  BY <1>6, OperandIs
<1>8. ASSUME t # TYPE_UNKNOWN PROVE t \in Types /\ <<s>> = CType(t) /\ Fine(moves)
  <2>1. t = <<s>> /\ {names[i] : i \in 1 .. n} = DOMAIN Structs[s]
    BY <1>2, <1>3, <1>8 DEF CheckStructLiteral
  <2>2. \A i \in 1 .. n : Operand(n, i).t = Structs[s][names[i]]
    BY <1>2, <1>3, <1>8 DEF CheckStructLiteral
  <2>3. \A i \in 1 .. n : Structs[s][names[i]] \in Types
    <3>1. \A i \in 1 .. n : names[i] \in DOMAIN Structs[s]
      BY <2>1
    <3>2. QED
      BY <3>1, TypingAssumption, ScalarTypes
  <2>4. \A i \in 1 .. n : Does(Operand(n, i).c, Structs[s][names[i]])
    BY <1>7, <2>2, GoodIs
  <2>5. Fine(moves)
    BY <1>4, <2>3, <2>4 DEF Fine
  <2>6. t \in Types /\ IsStruct(t)
    BY <2>1, ScalarTypes DEF Values, IsStruct
  <2>7. CType(t) = t
    BY <2>6, KindsAre
  <2>8. QED
    BY <2>1, <2>5, <2>6, <2>7
<1>9. QED
  BY <1>2, <1>5, <1>8, TypedKeeps

LEMMA FineOne ==
  ASSUME NEW x \in Good
  PROVE  Fine({<<x.c, CType(x.t)>>})
BY GoodIs, FineIs

LEMMA FineWord ==
  ASSUME NEW x \in Good
  PROVE  /\ x.t = TYPE_STRING => Fine({<<x.c, <<"char*">>>>})
         /\ x.t = TYPE_INT => Fine({<<x.c, <<"long">>>>})
         /\ x.t = TYPE_BOOL => Fine({<<x.c, <<"int">>>>})
BY FineOne, ScalarsInC

LEMMA IndexKeeps ==
  ASSUME IInv, Index
  PROVE  IInv'
<1>1. PICK base : base = Operand(2, 1)
  OBVIOUS
<1>2. PICK i : i = Operand(2, 2)
  OBVIOUS
<1>3. PICK t : t = CheckIndex(base.t, i.t)
  OBVIOUS
<1>4. PICK w : w = IF IsMap(base.t) THEN <<"char*">> ELSE <<"long">>
  OBVIOUS
<1>5. Has(2) /\ Expression(2, t, CType(t), {<<base.c, CType(base.t)>>, <<i.c, w>>})
  BY <1>1, <1>2, <1>3, <1>4 DEF Index
<1>6. Len(stack) >= 2
  BY <1>5 DEF Has
<1>7. base \in Good /\ i \in Good
  BY <1>1, <1>2, <1>6, OperandIs
<1>8. PICK moves : moves = {<<base.c, CType(base.t)>>} \cup {<<i.c, w>>}
  OBVIOUS
<1>9. moves = {<<base.c, CType(base.t)>>, <<i.c, w>>}
  BY <1>8
<1>10. ASSUME t # TYPE_UNKNOWN PROVE t \in Types /\ Fine(moves)
  <2>1. base.t \in Types
    BY <1>7, GoodIs
  <2>2. CASE IsList(base.t) /\ i.t = TYPE_INT
    <3>1. t = Of(base.t)
      BY <1>3, <2>2 DEF CheckIndex, IsList, TYPE_INT, TYPE_STRING
    <3>2. t \in Types
      BY <2>1, <2>2, <3>1, OfIs, ScalarTypes
    <3>3. ~IsMap(base.t)
      BY <2>2 DEF IsList, IsMap
    <3>4. Fine({<<i.c, w>>})
      BY <1>4, <1>7, <2>2, <3>3, FineWord
    <3>5. QED
      BY <1>7, <1>8, <3>2, <3>4, FineOne, FineUnion
  <2>3. CASE IsMap(base.t) /\ i.t = TYPE_STRING
    <3>1. t = Of(base.t)
      BY <1>3, <2>3 DEF CheckIndex, TYPE_INT, TYPE_STRING
    <3>2. t \in Types
      BY <2>1, <2>3, <3>1, OfIs, ScalarTypes
    <3>3. Fine({<<i.c, w>>})
      BY <1>4, <1>7, <2>3, FineWord
    <3>4. QED
      BY <1>7, <1>8, <3>2, <3>3, FineOne, FineUnion
  <2>4. CASE base.t = TYPE_STRING /\ i.t = TYPE_INT
    <3>1. ~IsMap(base.t) /\ ~IsList(base.t)
      BY <2>4 DEF IsMap, IsList, TYPE_STRING
    <3>2. t = TYPE_STRING
      BY <1>3, <2>4, <3>1 DEF CheckIndex
    <3>3. Fine({<<i.c, w>>})
      BY <1>4, <1>7, <2>4, <3>1, FineWord
    <3>4. QED
      BY <1>7, <1>8, <3>2, <3>3, FineOne, FineUnion, ScalarTypes
  <2>5. QED
    BY <1>3, <1>10, <2>2, <2>3, <2>4 DEF CheckIndex
<1>11. QED
  BY <1>5, <1>9, <1>10, TypedKeeps

LEMMA LengthKeeps ==
  ASSUME IInv, Length
  PROVE  IInv'
<1>1. PICK x : x = Operand(1, 1)
  OBVIOUS
<1>2. PICK t : t = IF IsList(x.t) \/ IsMap(x.t) \/ x.t = TYPE_STRING THEN TYPE_INT ELSE TYPE_UNKNOWN
  OBVIOUS
<1>3. PICK moves : moves = {<<x.c, CType(x.t)>>}
  OBVIOUS
<1>4. Has(1) /\ Expression(1, t, <<"long">>, moves)
  BY <1>1, <1>2, <1>3 DEF Length
<1>5. Len(stack) >= 1
  BY <1>4 DEF Has
<1>6. x \in Good
  BY <1>1, <1>5, OperandIs
<1>7. t # TYPE_UNKNOWN => t \in Types /\ <<"long">> = CType(t) /\ Fine(moves)
  BY <1>2, <1>3, <1>6, FineOne, ScalarTypes, ScalarsInC
<1>8. QED
  BY <1>4, <1>7, TypedKeeps

LEMMA FieldKeeps ==
  ASSUME IInv, NEW f, Field(f)
  PROVE  IInv'
<1>1. PICK x : x = Operand(1, 1)
  OBVIOUS
<1>2. PICK t : t = IF IsStruct(x.t) /\ f \in DOMAIN Structs[x.t[1]]
                   THEN Structs[x.t[1]][f] ELSE TYPE_UNKNOWN
  OBVIOUS
<1>3. PICK moves : moves = {<<x.c, CType(x.t)>>}
  OBVIOUS
<1>4. Has(1) /\ Expression(1, t, CType(t), moves)
  BY <1>1, <1>2, <1>3 DEF Field
<1>5. Len(stack) >= 1
  BY <1>4 DEF Has
<1>6. x \in Good
  BY <1>1, <1>5, OperandIs
<1>7. ASSUME t # TYPE_UNKNOWN PROVE t \in Types /\ Fine(moves)
  <2>1. IsStruct(x.t) /\ f \in DOMAIN Structs[x.t[1]] /\ t = Structs[x.t[1]][f]
    BY <1>2, <1>7
  <2>2. t \in Types
    BY <2>1, TypingAssumption, ScalarTypes DEF IsStruct
  <2>3. QED
    BY <1>3, <1>6, <2>2, FineOne
<1>8. QED
  BY <1>4, <1>7, TypedKeeps

(* `?:` of two values of one enum may be of type int in C, which is one of  *)
(* the enum's as well.                                                      *)
LEMMA CChoiceIs ==
  ASSUME NEW l \in Good, NEW r \in Good, l.t = r.t
  PROVE  LET c == CChoice(l.c, r.c)
         IN c \in CTypes /\ Does(c, l.t) /\ c # Refused
<1>1. l.t \in Types
  BY GoodIs
<1>2. CASE l.c = r.c
  <2>1. CChoice(l.c, r.c) = l.c
    BY <1>2 DEF CChoice
  <2>2. QED
    BY <2>1, GoodIs, NotRefused
<1>3. CASE l.c # r.c
  <2>1. /\ IsEnum(l.t) \/ l.t = TYPE_FLOAT
        /\ {l.c, r.c} = {<<"int">>, CType(l.t)}
    BY <1>3, GoodIs
  <2>2. <<"int">> \in CTypes /\ <<"int">> # Refused
    BY ScalarTypes, ScalarsInC, InC DEF Refused
  <2>3. CASE l.t = TYPE_FLOAT
    <3>1. {l.c, r.c} = {<<"int">>, <<"double">>}
      BY <2>1, <2>3, ScalarsInC
    <3>2. {l.c, r.c} \subseteq CNumbers
      BY <3>1 DEF CNumbers, CIntegers
    <3>3. CChoice(l.c, r.c) = Wider(l.c, r.c)
      BY <1>3, <3>2 DEF CChoice
    <3>4. Wider(l.c, r.c) = CType(l.t)
      BY <2>3, <3>1, WiderIs, ScalarsInC
    <3>5. QED
      BY <1>1, <3>3, <3>4, InC, ExactDoes
  <2>4. CASE IsEnum(l.t)
    <3>1. CType(l.t) = <<l.t[1]>> /\ l.t[1] \in Enums
      BY <1>1, <2>4, KindsAre DEF IsEnum
    <3>2. {l.c, r.c} \subseteq CNumbers
      BY <2>1, <3>1 DEF CNumbers, CIntegers
    <3>3. <<"double">> \notin {l.c, r.c} /\ <<"long">> \notin {l.c, r.c}
      BY <2>1, <3>1, NamesAreNew DEF Words
    <3>4. CChoice(l.c, r.c) = Wider(l.c, r.c)
      BY <1>3, <3>2 DEF CChoice
    <3>5. Wider(l.c, r.c) = <<"int">>
      BY <3>3 DEF Wider
    <3>6. Does(<<"int">>, l.t)
      BY <3>1 DEF Does, Same
    <3>7. QED
      BY <2>2, <3>4, <3>5, <3>6
  <2>5. QED
    BY <2>1, <2>3, <2>4
<1>4. QED
  BY <1>2, <1>3

LEMMA TernaryKeeps ==
  ASSUME IInv, Ternary
  PROVE  IInv'
<1>1. PICK cond : cond = Operand(3, 1)
  OBVIOUS
<1>2. PICK then : then = Operand(3, 2)
  OBVIOUS
<1>3. PICK else : else = Operand(3, 3)
  OBVIOUS
<1>4. PICK t : t = CheckTernary(cond.t, then.t, else.t)
  OBVIOUS
<1>5. PICK c : c = CChoice(then.c, else.c)
  OBVIOUS
<1>6. PICK moves : moves = {<<cond.c, <<"int">>>>}
  OBVIOUS
<1>7. Has(3) /\ Expression(3, t, c, moves)
  BY <1>1, <1>2, <1>3, <1>4, <1>5, <1>6 DEF Ternary
<1>8. Len(stack) >= 3
  BY <1>7 DEF Has
<1>9. cond \in Good /\ then \in Good /\ else \in Good
  BY <1>1, <1>2, <1>3, <1>8, OperandIs
<1>10. Len(stack) - 3 < MaxStack
  BY <1>8, RoomIs
<1>11. ASSUME t # TYPE_UNKNOWN
       PROVE  t \in Types /\ c \in CTypes /\ Does(c, t) /\ c # Refused /\ Fine(moves)
  <2>1. cond.t = TYPE_BOOL /\ then.t = else.t /\ t = then.t
    BY <1>4, <1>11 DEF CheckTernary
  <2>2. Fine(moves)
    BY <1>6, <1>9, <2>1, FineWord
  <2>3. c \in CTypes /\ Does(c, then.t) /\ c # Refused
    BY <1>5, <1>9, <2>1, CChoiceIs
  <2>4. QED
    BY <1>9, <2>1, <2>2, <2>3, GoodIs
<1>12. QED
  BY <1>7, <1>8, <1>10, <1>11, ExpressionKeeps

LEMMA ContainsKeeps ==
  ASSUME IInv, Contains
  PROVE  IInv'
<1>1. PICK in : in = Operand(2, 1)
  OBVIOUS
<1>2. PICK x : x = Operand(2, 2)
  OBVIOUS
<1>3. PICK t : t = CheckContains(in.t, x.t)
  OBVIOUS
<1>4. PICK w : w = IF IsMap(in.t) THEN <<"char*">> ELSE CType(Of(in.t))
  OBVIOUS
<1>5. Has(2) /\ Expression(2, t, <<"int">>, {<<in.c, CType(in.t)>>, <<x.c, w>>})
  BY <1>1, <1>2, <1>3, <1>4 DEF Contains
<1>6. Len(stack) >= 2
  BY <1>5 DEF Has
<1>7. in \in Good /\ x \in Good
  BY <1>1, <1>2, <1>6, OperandIs
<1>8. PICK moves : moves = {<<in.c, CType(in.t)>>} \cup {<<x.c, w>>}
  OBVIOUS
<1>9. moves = {<<in.c, CType(in.t)>>, <<x.c, w>>}
  BY <1>8
<1>10. ASSUME t # TYPE_UNKNOWN PROVE t \in Types /\ <<"int">> = CType(t) /\ Fine(moves)
  <2>1. t = TYPE_BOOL
    BY <1>3, <1>10 DEF CheckContains
  <2>2. CASE IsMap(in.t) /\ x.t = TYPE_STRING
    <3>1. Fine({<<x.c, w>>})
      BY <1>4, <1>7, <2>2, FineWord
    <3>2. QED
      BY <1>7, <1>8, <2>1, <3>1, FineOne, FineUnion, ScalarTypes, ScalarsInC
  <2>3. CASE IsList(in.t) /\ x.t = Of(in.t)
    <3>1. ~IsMap(in.t)
      BY <2>3 DEF IsList, IsMap
    <3>2. Fine({<<x.c, w>>})
      BY <1>4, <1>7, <2>3, <3>1, FineOne
    <3>3. QED
      BY <1>7, <1>8, <2>1, <3>2, FineOne, FineUnion, ScalarTypes, ScalarsInC
  <2>4. QED
    BY <1>3, <1>10, <2>2, <2>3 DEF CheckContains
<1>11. QED
  BY <1>5, <1>9, <1>10, TypedKeeps

LEMMA KeysKeeps ==
  ASSUME IInv, Keys
  PROVE  IInv'
<1>1. PICK x : x = Operand(1, 1)
  OBVIOUS
<1>2. PICK t : t = IF IsMap(x.t) THEN ListOf(TYPE_STRING) ELSE TYPE_UNKNOWN
  OBVIOUS
<1>3. PICK c : c = CType(ListOf(TYPE_STRING))
  OBVIOUS
<1>4. PICK moves : moves = {<<x.c, CType(x.t)>>}
  OBVIOUS
<1>5. Has(1) /\ Expression(1, t, c, moves)
  BY <1>1, <1>2, <1>3, <1>4 DEF Keys
<1>6. Len(stack) >= 1
  BY <1>5 DEF Has
<1>7. x \in Good
  BY <1>1, <1>6, OperandIs
<1>8. ListOf(TYPE_STRING) = <<"list", "string">>
  BY DEF ListOf, Primitives, TYPE_STRING
<1>9. ListOf(TYPE_STRING) \in Types
  BY <1>8, ListTypesAre, ScalarTypes DEF Element
<1>10. t # TYPE_UNKNOWN => t \in Types /\ c = CType(t) /\ Fine(moves)
  BY <1>2, <1>3, <1>4, <1>7, <1>9, FineOne
<1>11. QED
  BY <1>5, <1>10, TypedKeeps

LEMMA SliceKeeps ==
  ASSUME IInv, Slice
  PROVE  IInv'
<1>1. PICK base : base = Operand(3, 1)
  OBVIOUS
<1>2. PICK start : start = Operand(3, 2)
  OBVIOUS
<1>3. PICK end : end = Operand(3, 3)
  OBVIOUS
<1>4. PICK t : t = IF IsList(base.t) /\ start.t = TYPE_INT /\ end.t = TYPE_INT
                   THEN base.t ELSE TYPE_UNKNOWN
  OBVIOUS
<1>5. Has(3) /\ Expression(3, t, CType(t),
        {<<base.c, CType(base.t)>>, <<start.c, <<"long">>>>, <<end.c, <<"long">>>>})
  BY <1>1, <1>2, <1>3, <1>4 DEF Slice
<1>6. Len(stack) >= 3
  BY <1>5 DEF Has
<1>7. base \in Good /\ start \in Good /\ end \in Good
  BY <1>1, <1>2, <1>3, <1>6, OperandIs
<1>8. PICK moves : moves = {<<base.c, CType(base.t)>>}
                             \cup ({<<start.c, <<"long">>>>} \cup {<<end.c, <<"long">>>>})
  OBVIOUS
<1>9. moves = {<<base.c, CType(base.t)>>, <<start.c, <<"long">>>>, <<end.c, <<"long">>>>}
  BY <1>8
<1>10. ASSUME t # TYPE_UNKNOWN PROVE t \in Types /\ Fine(moves)
  <2>1. t = base.t /\ start.t = TYPE_INT /\ end.t = TYPE_INT
    BY <1>4, <1>10
  <2>2. Fine({<<start.c, <<"long">>>>} \cup {<<end.c, <<"long">>>>})
    BY <1>7, <2>1, FineWord, FineUnion
  <2>3. QED
    BY <1>7, <1>8, <2>1, <2>2, FineOne, FineUnion, GoodIs
<1>11. QED
  BY <1>5, <1>9, <1>10, TypedKeeps

LEMMA WrittenFine ==
  ASSUME IInv, NEW n \in Nat, Len(stack) >= n
  PROVE  Fine(Written(n))
<1>1. \A i \in 1 .. n : Operand(n, i) \in Good
  BY OperandIs
<1>2. QED
  BY <1>1, GoodIs DEF Fine, Written

LEMMA ComposeKeeps ==
  ASSUME IInv, NEW n \in 0 .. Len(stack), NEW holes, Compose(n, holes)
  PROVE  IInv'
<1>1. n \in Nat /\ Len(stack) >= n
  BY LenProperties DEF IInv
<1>2. PICK t : t = IF holes = n /\ \A i \in 1 .. n : Printable(Operand(n, i).t)
                   THEN TYPE_STRING ELSE TYPE_UNKNOWN
  OBVIOUS
<1>3. PICK moves : moves = Written(n)
  OBVIOUS
<1>4. Len(stack) - n < MaxStack /\ Expression(n, t, <<"char*">>, moves)
  BY <1>2, <1>3 DEF Compose
<1>5. t # TYPE_UNKNOWN =>
        t \in Types /\ <<"char*">> \in CTypes /\ Does(<<"char*">>, t)
          /\ <<"char*">> # Refused /\ Fine(moves)
  BY <1>1, <1>2, <1>3, WrittenFine, ScalarTypes, ScalarsInC, InC DEF Does, Same, Refused
<1>6. QED
  BY <1>1, <1>4, <1>5, ExpressionKeeps

(* Builtins: a row of codegen's table is the row of sema's in C.            *)
AsInC(params, ret, cparams, cret) ==
  /\ ret \in Types /\ cret = CType(ret)
  /\ \A i \in 1 .. Len(params) : params[i] \in Types /\ cparams[i] = CType(params[i])

LEMMA BuiltinTypes ==
  /\ CType(TYPE_VOID) = <<"void">>
  /\ <<"list", "string">> \in Types /\ CType(<<"list", "string">>) = <<"list", "string">>
<1>1. <<"list", "string">> \in Types
  BY ListTypesAre, ScalarTypes DEF Element
<1>2. CType(<<"list", "string">>) = <<"list", "string">>
  BY DEF CType, Primitives, TYPE_INT, TYPE_FLOAT, TYPE_BOOL, TYPE_STRING
<1>3. CType(TYPE_VOID) = <<"void">>
  BY DEF CType, Primitives, TYPE_INT, TYPE_FLOAT, TYPE_BOOL, TYPE_STRING, TYPE_VOID
<1>4. QED
  BY <1>1, <1>2, <1>3

Agrees(n, params, ret) ==
  /\ \E q \in CBuiltinRows : n \in q[3]
  /\ \A q \in CBuiltinRows : n \in q[3] => AsInC(params, ret, q[1], q[2])

LEMMA RowAgrees ==
  ASSUME NEW n, NEW params, NEW ret, NEW cparams, NEW cret, NEW names, n \in names,
         <<cparams, cret, names>> \in CBuiltinRows,
         \A q \in CBuiltinRows : n \in q[3] => q[1] = cparams /\ q[2] = cret,
         AsInC(params, ret, cparams, cret)
  PROVE  Agrees(n, params, ret)
BY DEF Agrees

LEMMA BuiltinsAgree ==
  ASSUME NEW b \in BuiltinRows, NEW n \in b[3]
  PROVE  Agrees(n, b[1], b[2])
<1>1. CASE b = << <<>>, TYPE_INT, {"mouse_x", "mouse_y", "ticks_ms"}>>
  <2>1. << <<>>, <<"long">>, {"mouse_x", "mouse_y", "ticks_ms"}>> \in CBuiltinRows
    BY DEF CBuiltinRows
  <2>2. n \in {"mouse_x", "mouse_y", "ticks_ms"} /\ b[1] = <<>> /\ b[2] = TYPE_INT
    BY <1>1
  <2>3. \A q \in CBuiltinRows : n \in q[3] => q[1] = <<>> /\ q[2] = <<"long">>
    BY <2>2 DEF CBuiltinRows
  <2>4. AsInC(<<>>, TYPE_INT, <<>>, <<"long">>)
    BY BuiltinTypes, ScalarTypes, ScalarsInC DEF AsInC
  <2>5. QED
    BY <2>1, <2>2, <2>3, <2>4, RowAgrees
<1>2. CASE b = << <<>>, TYPE_FLOAT, {"random"}>>
  <2>1. << <<>>, <<"double">>, {"random"}>> \in CBuiltinRows
    BY DEF CBuiltinRows
  <2>2. n \in {"random"} /\ b[1] = <<>> /\ b[2] = TYPE_FLOAT
    BY <1>2
  <2>3. \A q \in CBuiltinRows : n \in q[3] => q[1] = <<>> /\ q[2] = <<"double">>
    BY <2>2 DEF CBuiltinRows
  <2>4. AsInC(<<>>, TYPE_FLOAT, <<>>, <<"double">>)
    BY BuiltinTypes, ScalarTypes, ScalarsInC DEF AsInC
  <2>5. QED
    BY <2>1, <2>2, <2>3, <2>4, RowAgrees
<1>3. CASE b = << <<>>, TYPE_BOOL, {"window_should_close"}>>
  <2>1. << <<>>, <<"int">>, {"window_should_close"}>> \in CBuiltinRows
    BY DEF CBuiltinRows
  <2>2. n \in {"window_should_close"} /\ b[1] = <<>> /\ b[2] = TYPE_BOOL
    BY <1>3
  <2>3. \A q \in CBuiltinRows : n \in q[3] => q[1] = <<>> /\ q[2] = <<"int">>
    BY <2>2 DEF CBuiltinRows
  <2>4. AsInC(<<>>, TYPE_BOOL, <<>>, <<"int">>)
    BY BuiltinTypes, ScalarTypes, ScalarsInC DEF AsInC
  <2>5. QED
    BY <2>1, <2>2, <2>3, <2>4, RowAgrees
<1>4. CASE b = << <<>>, TYPE_STRING, {"input"}>>
  <2>1. << <<>>, <<"char*">>, {"input"}>> \in CBuiltinRows
    BY DEF CBuiltinRows
  <2>2. n \in {"input"} /\ b[1] = <<>> /\ b[2] = TYPE_STRING
    BY <1>4
  <2>3. \A q \in CBuiltinRows : n \in q[3] => q[1] = <<>> /\ q[2] = <<"char*">>
    BY <2>2 DEF CBuiltinRows
  <2>4. AsInC(<<>>, TYPE_STRING, <<>>, <<"char*">>)
    BY BuiltinTypes, ScalarTypes, ScalarsInC DEF AsInC
  <2>5. QED
    BY <2>1, <2>2, <2>3, <2>4, RowAgrees
<1>5. CASE b = << <<>>, <<"list", "string">>, {"launch_args"}>>
  <2>1. << <<>>, <<"list", "string">>, {"launch_args"}>> \in CBuiltinRows
    BY DEF CBuiltinRows
  <2>2. n \in {"launch_args"} /\ b[1] = <<>> /\ b[2] = <<"list", "string">>
    BY <1>5
  <2>3. \A q \in CBuiltinRows : n \in q[3] => q[1] = <<>> /\ q[2] = <<"list", "string">>
    BY <2>2 DEF CBuiltinRows
  <2>4. AsInC(<<>>, <<"list", "string">>, <<>>, <<"list", "string">>)
    BY BuiltinTypes, ScalarTypes, ScalarsInC DEF AsInC
  <2>5. QED
    BY <2>1, <2>2, <2>3, <2>4, RowAgrees
<1>6. CASE b = << <<>>, TYPE_VOID, {"window_close", "window_poll_events", "window_present"}>>
  <2>1. << <<>>, <<"void">>, {"window_close", "window_poll_events", "window_present"}>> \in CBuiltinRows
    BY DEF CBuiltinRows
  <2>2. n \in {"window_close", "window_poll_events", "window_present"} /\ b[1] = <<>> /\ b[2] = TYPE_VOID
    BY <1>6
  <2>3. \A q \in CBuiltinRows : n \in q[3] => q[1] = <<>> /\ q[2] = <<"void">>
    BY <2>2 DEF CBuiltinRows
  <2>4. AsInC(<<>>, TYPE_VOID, <<>>, <<"void">>)
    BY BuiltinTypes, ScalarTypes, ScalarsInC DEF AsInC
  <2>5. QED
    BY <2>1, <2>2, <2>3, <2>4, RowAgrees
<1>7. CASE b = << <<TYPE_INT>>, TYPE_INT, {"abs_int"}>>
  <2>1. << <<<<"long">>>>, <<"long">>, {"abs_int"}>> \in CBuiltinRows
    BY DEF CBuiltinRows
  <2>2. n \in {"abs_int"} /\ b[1] = <<TYPE_INT>> /\ b[2] = TYPE_INT
    BY <1>7
  <2>3. \A q \in CBuiltinRows : n \in q[3] => q[1] = <<<<"long">>>> /\ q[2] = <<"long">>
    BY <2>2 DEF CBuiltinRows
  <2>4. AsInC(<<TYPE_INT>>, TYPE_INT, <<<<"long">>>>, <<"long">>)
    BY BuiltinTypes, ScalarTypes, ScalarsInC DEF AsInC
  <2>5. QED
    BY <2>1, <2>2, <2>3, <2>4, RowAgrees
<1>8. CASE b = << <<TYPE_INT>>, TYPE_FLOAT, {"int_to_float"}>>
  <2>1. << <<<<"long">>>>, <<"double">>, {"int_to_float"}>> \in CBuiltinRows
    BY DEF CBuiltinRows
  <2>2. n \in {"int_to_float"} /\ b[1] = <<TYPE_INT>> /\ b[2] = TYPE_FLOAT
    BY <1>8
  <2>3. \A q \in CBuiltinRows : n \in q[3] => q[1] = <<<<"long">>>> /\ q[2] = <<"double">>
    BY <2>2 DEF CBuiltinRows
  <2>4. AsInC(<<TYPE_INT>>, TYPE_FLOAT, <<<<"long">>>>, <<"double">>)
    BY BuiltinTypes, ScalarTypes, ScalarsInC DEF AsInC
  <2>5. QED
    BY <2>1, <2>2, <2>3, <2>4, RowAgrees
<1>9. CASE b = << <<TYPE_INT>>, TYPE_STRING, {"int_to_string"}>>
  <2>1. << <<<<"long">>>>, <<"char*">>, {"int_to_string"}>> \in CBuiltinRows
    BY DEF CBuiltinRows
  <2>2. n \in {"int_to_string"} /\ b[1] = <<TYPE_INT>> /\ b[2] = TYPE_STRING
    BY <1>9
  <2>3. \A q \in CBuiltinRows : n \in q[3] => q[1] = <<<<"long">>>> /\ q[2] = <<"char*">>
    BY <2>2 DEF CBuiltinRows
  <2>4. AsInC(<<TYPE_INT>>, TYPE_STRING, <<<<"long">>>>, <<"char*">>)
    BY BuiltinTypes, ScalarTypes, ScalarsInC DEF AsInC
  <2>5. QED
    BY <2>1, <2>2, <2>3, <2>4, RowAgrees
<1>10. CASE b = << <<TYPE_INT>>, TYPE_VOID, {"draw_square", "draw_triangle", "delay_ms", "random_seed"}>>
  <2>1. << <<<<"long">>>>, <<"void">>, {"draw_square", "draw_triangle", "delay_ms", "random_seed"}>> \in CBuiltinRows
    BY DEF CBuiltinRows
  <2>2. n \in {"draw_square", "draw_triangle", "delay_ms", "random_seed"} /\ b[1] = <<TYPE_INT>> /\ b[2] = TYPE_VOID
    BY <1>10
  <2>3. \A q \in CBuiltinRows : n \in q[3] => q[1] = <<<<"long">>>> /\ q[2] = <<"void">>
    BY <2>2 DEF CBuiltinRows
  <2>4. AsInC(<<TYPE_INT>>, TYPE_VOID, <<<<"long">>>>, <<"void">>)
    BY BuiltinTypes, ScalarTypes, ScalarsInC DEF AsInC
  <2>5. QED
    BY <2>1, <2>2, <2>3, <2>4, RowAgrees
<1>11. CASE b = << <<TYPE_INT, TYPE_INT>>, TYPE_INT, {"min_int", "max_int", "random_int"}>>
  <2>1. << <<<<"long">>, <<"long">>>>, <<"long">>, {"min_int", "max_int", "random_int"}>> \in CBuiltinRows
    BY DEF CBuiltinRows
  <2>2. n \in {"min_int", "max_int", "random_int"} /\ b[1] = <<TYPE_INT, TYPE_INT>> /\ b[2] = TYPE_INT
    BY <1>11
  <2>3. \A q \in CBuiltinRows : n \in q[3] => q[1] = <<<<"long">>, <<"long">>>> /\ q[2] = <<"long">>
    BY <2>2 DEF CBuiltinRows
  <2>4. AsInC(<<TYPE_INT, TYPE_INT>>, TYPE_INT, <<<<"long">>, <<"long">>>>, <<"long">>)
    BY BuiltinTypes, ScalarTypes, ScalarsInC DEF AsInC
  <2>5. QED
    BY <2>1, <2>2, <2>3, <2>4, RowAgrees
<1>12. CASE b = << <<TYPE_INT, TYPE_INT>>, TYPE_VOID, {"draw_rect", "gfx_pixel"}>>
  <2>1. << <<<<"long">>, <<"long">>>>, <<"void">>, {"draw_rect", "gfx_pixel"}>> \in CBuiltinRows
    BY DEF CBuiltinRows
  <2>2. n \in {"draw_rect", "gfx_pixel"} /\ b[1] = <<TYPE_INT, TYPE_INT>> /\ b[2] = TYPE_VOID
    BY <1>12
  <2>3. \A q \in CBuiltinRows : n \in q[3] => q[1] = <<<<"long">>, <<"long">>>> /\ q[2] = <<"void">>
    BY <2>2 DEF CBuiltinRows
  <2>4. AsInC(<<TYPE_INT, TYPE_INT>>, TYPE_VOID, <<<<"long">>, <<"long">>>>, <<"void">>)
    BY BuiltinTypes, ScalarTypes, ScalarsInC DEF AsInC
  <2>5. QED
    BY <2>1, <2>2, <2>3, <2>4, RowAgrees
<1>13. CASE b = << <<TYPE_INT, TYPE_INT, TYPE_INT>>, TYPE_VOID, {"window_clear", "gfx_set_color", "gfx_circle"}>>
  <2>1. << <<<<"long">>, <<"long">>, <<"long">>>>, <<"void">>, {"window_clear", "gfx_set_color", "gfx_circle"}>> \in CBuiltinRows
    BY DEF CBuiltinRows
  <2>2. n \in {"window_clear", "gfx_set_color", "gfx_circle"} /\ b[1] = <<TYPE_INT, TYPE_INT, TYPE_INT>> /\ b[2] = TYPE_VOID
    BY <1>13
  <2>3. \A q \in CBuiltinRows : n \in q[3] => q[1] = <<<<"long">>, <<"long">>, <<"long">>>> /\ q[2] = <<"void">>
    BY <2>2 DEF CBuiltinRows
  <2>4. AsInC(<<TYPE_INT, TYPE_INT, TYPE_INT>>, TYPE_VOID, <<<<"long">>, <<"long">>, <<"long">>>>, <<"void">>)
    BY BuiltinTypes, ScalarTypes, ScalarsInC DEF AsInC
  <2>5. QED
    BY <2>1, <2>2, <2>3, <2>4, RowAgrees
<1>14. CASE b = << <<TYPE_INT, TYPE_INT, TYPE_INT, TYPE_INT>>, TYPE_VOID, {"gfx_line", "gfx_rect"}>>
  <2>1. << <<<<"long">>, <<"long">>, <<"long">>, <<"long">>>>, <<"void">>, {"gfx_line", "gfx_rect"}>> \in CBuiltinRows
    BY DEF CBuiltinRows
  <2>2. n \in {"gfx_line", "gfx_rect"} /\ b[1] = <<TYPE_INT, TYPE_INT, TYPE_INT, TYPE_INT>> /\ b[2] = TYPE_VOID
    BY <1>14
  <2>3. \A q \in CBuiltinRows : n \in q[3] => q[1] = <<<<"long">>, <<"long">>, <<"long">>, <<"long">>>> /\ q[2] = <<"void">>
    BY <2>2 DEF CBuiltinRows
  <2>4. AsInC(<<TYPE_INT, TYPE_INT, TYPE_INT, TYPE_INT>>, TYPE_VOID, <<<<"long">>, <<"long">>, <<"long">>, <<"long">>>>, <<"void">>)
    BY BuiltinTypes, ScalarTypes, ScalarsInC DEF AsInC
  <2>5. QED
    BY <2>1, <2>2, <2>3, <2>4, RowAgrees
<1>15. CASE b = << <<TYPE_INT, TYPE_INT, TYPE_STRING>>, TYPE_BOOL, {"window_open"}>>
  <2>1. << <<<<"long">>, <<"long">>, <<"char*">>>>, <<"int">>, {"window_open"}>> \in CBuiltinRows
    BY DEF CBuiltinRows
  <2>2. n \in {"window_open"} /\ b[1] = <<TYPE_INT, TYPE_INT, TYPE_STRING>> /\ b[2] = TYPE_BOOL
    BY <1>15
  <2>3. \A q \in CBuiltinRows : n \in q[3] => q[1] = <<<<"long">>, <<"long">>, <<"char*">>>> /\ q[2] = <<"int">>
    BY <2>2 DEF CBuiltinRows
  <2>4. AsInC(<<TYPE_INT, TYPE_INT, TYPE_STRING>>, TYPE_BOOL, <<<<"long">>, <<"long">>, <<"char*">>>>, <<"int">>)
    BY BuiltinTypes, ScalarTypes, ScalarsInC DEF AsInC
  <2>5. QED
    BY <2>1, <2>2, <2>3, <2>4, RowAgrees
<1>16. CASE b = << <<TYPE_FLOAT>>, TYPE_INT, {"float_to_int"}>>
  <2>1. << <<<<"double">>>>, <<"long">>, {"float_to_int"}>> \in CBuiltinRows
    BY DEF CBuiltinRows
  <2>2. n \in {"float_to_int"} /\ b[1] = <<TYPE_FLOAT>> /\ b[2] = TYPE_INT
    BY <1>16
  <2>3. \A q \in CBuiltinRows : n \in q[3] => q[1] = <<<<"double">>>> /\ q[2] = <<"long">>
    BY <2>2 DEF CBuiltinRows
  <2>4. AsInC(<<TYPE_FLOAT>>, TYPE_INT, <<<<"double">>>>, <<"long">>)
    BY BuiltinTypes, ScalarTypes, ScalarsInC DEF AsInC
  <2>5. QED
    BY <2>1, <2>2, <2>3, <2>4, RowAgrees
<1>17. CASE b = << <<TYPE_FLOAT>>, TYPE_FLOAT, {"sqrt", "abs_float"}>>
  <2>1. << <<<<"double">>>>, <<"double">>, {"sqrt", "abs_float"}>> \in CBuiltinRows
    BY DEF CBuiltinRows
  <2>2. n \in {"sqrt", "abs_float"} /\ b[1] = <<TYPE_FLOAT>> /\ b[2] = TYPE_FLOAT
    BY <1>17
  <2>3. \A q \in CBuiltinRows : n \in q[3] => q[1] = <<<<"double">>>> /\ q[2] = <<"double">>
    BY <2>2 DEF CBuiltinRows
  <2>4. AsInC(<<TYPE_FLOAT>>, TYPE_FLOAT, <<<<"double">>>>, <<"double">>)
    BY BuiltinTypes, ScalarTypes, ScalarsInC DEF AsInC
  <2>5. QED
    BY <2>1, <2>2, <2>3, <2>4, RowAgrees
<1>18. CASE b = << <<TYPE_FLOAT>>, TYPE_STRING, {"float_to_string"}>>
  <2>1. << <<<<"double">>>>, <<"char*">>, {"float_to_string"}>> \in CBuiltinRows
    BY DEF CBuiltinRows
  <2>2. n \in {"float_to_string"} /\ b[1] = <<TYPE_FLOAT>> /\ b[2] = TYPE_STRING
    BY <1>18
  <2>3. \A q \in CBuiltinRows : n \in q[3] => q[1] = <<<<"double">>>> /\ q[2] = <<"char*">>
    BY <2>2 DEF CBuiltinRows
  <2>4. AsInC(<<TYPE_FLOAT>>, TYPE_STRING, <<<<"double">>>>, <<"char*">>)
    BY BuiltinTypes, ScalarTypes, ScalarsInC DEF AsInC
  <2>5. QED
    BY <2>1, <2>2, <2>3, <2>4, RowAgrees
<1>19. CASE b = << <<TYPE_FLOAT, TYPE_FLOAT>>, TYPE_FLOAT, {"pow", "min_float", "max_float"}>>
  <2>1. << <<<<"double">>, <<"double">>>>, <<"double">>, {"pow", "min_float", "max_float"}>> \in CBuiltinRows
    BY DEF CBuiltinRows
  <2>2. n \in {"pow", "min_float", "max_float"} /\ b[1] = <<TYPE_FLOAT, TYPE_FLOAT>> /\ b[2] = TYPE_FLOAT
    BY <1>19
  <2>3. \A q \in CBuiltinRows : n \in q[3] => q[1] = <<<<"double">>, <<"double">>>> /\ q[2] = <<"double">>
    BY <2>2 DEF CBuiltinRows
  <2>4. AsInC(<<TYPE_FLOAT, TYPE_FLOAT>>, TYPE_FLOAT, <<<<"double">>, <<"double">>>>, <<"double">>)
    BY BuiltinTypes, ScalarTypes, ScalarsInC DEF AsInC
  <2>5. QED
    BY <2>1, <2>2, <2>3, <2>4, RowAgrees
<1>20. CASE b = << <<TYPE_BOOL>>, TYPE_STRING, {"bool_to_string"}>>
  <2>1. << <<<<"int">>>>, <<"char*">>, {"bool_to_string"}>> \in CBuiltinRows
    BY DEF CBuiltinRows
  <2>2. n \in {"bool_to_string"} /\ b[1] = <<TYPE_BOOL>> /\ b[2] = TYPE_STRING
    BY <1>20
  <2>3. \A q \in CBuiltinRows : n \in q[3] => q[1] = <<<<"int">>>> /\ q[2] = <<"char*">>
    BY <2>2 DEF CBuiltinRows
  <2>4. AsInC(<<TYPE_BOOL>>, TYPE_STRING, <<<<"int">>>>, <<"char*">>)
    BY BuiltinTypes, ScalarTypes, ScalarsInC DEF AsInC
  <2>5. QED
    BY <2>1, <2>2, <2>3, <2>4, RowAgrees
<1>21. CASE b = << <<TYPE_STRING>>, TYPE_INT, {"string_to_int"}>>
  <2>1. << <<<<"char*">>>>, <<"long">>, {"string_to_int"}>> \in CBuiltinRows
    BY DEF CBuiltinRows
  <2>2. n \in {"string_to_int"} /\ b[1] = <<TYPE_STRING>> /\ b[2] = TYPE_INT
    BY <1>21
  <2>3. \A q \in CBuiltinRows : n \in q[3] => q[1] = <<<<"char*">>>> /\ q[2] = <<"long">>
    BY <2>2 DEF CBuiltinRows
  <2>4. AsInC(<<TYPE_STRING>>, TYPE_INT, <<<<"char*">>>>, <<"long">>)
    BY BuiltinTypes, ScalarTypes, ScalarsInC DEF AsInC
  <2>5. QED
    BY <2>1, <2>2, <2>3, <2>4, RowAgrees
<1>22. CASE b = << <<TYPE_STRING>>, TYPE_FLOAT, {"string_to_float"}>>
  <2>1. << <<<<"char*">>>>, <<"double">>, {"string_to_float"}>> \in CBuiltinRows
    BY DEF CBuiltinRows
  <2>2. n \in {"string_to_float"} /\ b[1] = <<TYPE_STRING>> /\ b[2] = TYPE_FLOAT
    BY <1>22
  <2>3. \A q \in CBuiltinRows : n \in q[3] => q[1] = <<<<"char*">>>> /\ q[2] = <<"double">>
    BY <2>2 DEF CBuiltinRows
  <2>4. AsInC(<<TYPE_STRING>>, TYPE_FLOAT, <<<<"char*">>>>, <<"double">>)
    BY BuiltinTypes, ScalarTypes, ScalarsInC DEF AsInC
  <2>5. QED
    BY <2>1, <2>2, <2>3, <2>4, RowAgrees
<1>23. CASE b = << <<TYPE_STRING>>, TYPE_BOOL, {"key_down", "mouse_down", "file_exists"}>>
  <2>1. << <<<<"char*">>>>, <<"int">>, {"key_down", "mouse_down", "file_exists"}>> \in CBuiltinRows
    BY DEF CBuiltinRows
  <2>2. n \in {"key_down", "mouse_down", "file_exists"} /\ b[1] = <<TYPE_STRING>> /\ b[2] = TYPE_BOOL
    BY <1>23
  <2>3. \A q \in CBuiltinRows : n \in q[3] => q[1] = <<<<"char*">>>> /\ q[2] = <<"int">>
    BY <2>2 DEF CBuiltinRows
  <2>4. AsInC(<<TYPE_STRING>>, TYPE_BOOL, <<<<"char*">>>>, <<"int">>)
    BY BuiltinTypes, ScalarTypes, ScalarsInC DEF AsInC
  <2>5. QED
    BY <2>1, <2>2, <2>3, <2>4, RowAgrees
<1>24. CASE b = << <<TYPE_STRING>>, TYPE_STRING, {"to_upper", "to_lower", "trim", "read_file"}>>
  <2>1. << <<<<"char*">>>>, <<"char*">>, {"to_upper", "to_lower", "trim", "read_file"}>> \in CBuiltinRows
    BY DEF CBuiltinRows
  <2>2. n \in {"to_upper", "to_lower", "trim", "read_file"} /\ b[1] = <<TYPE_STRING>> /\ b[2] = TYPE_STRING
    BY <1>24
  <2>3. \A q \in CBuiltinRows : n \in q[3] => q[1] = <<<<"char*">>>> /\ q[2] = <<"char*">>
    BY <2>2 DEF CBuiltinRows
  <2>4. AsInC(<<TYPE_STRING>>, TYPE_STRING, <<<<"char*">>>>, <<"char*">>)
    BY BuiltinTypes, ScalarTypes, ScalarsInC DEF AsInC
  <2>5. QED
    BY <2>1, <2>2, <2>3, <2>4, RowAgrees
<1>25. CASE b = << <<TYPE_STRING, TYPE_STRING>>, TYPE_INT, {"index_of"}>>
  <2>1. << <<<<"char*">>, <<"char*">>>>, <<"long">>, {"index_of"}>> \in CBuiltinRows
    BY DEF CBuiltinRows
  <2>2. n \in {"index_of"} /\ b[1] = <<TYPE_STRING, TYPE_STRING>> /\ b[2] = TYPE_INT
    BY <1>25
  <2>3. \A q \in CBuiltinRows : n \in q[3] => q[1] = <<<<"char*">>, <<"char*">>>> /\ q[2] = <<"long">>
    BY <2>2 DEF CBuiltinRows
  <2>4. AsInC(<<TYPE_STRING, TYPE_STRING>>, TYPE_INT, <<<<"char*">>, <<"char*">>>>, <<"long">>)
    BY BuiltinTypes, ScalarTypes, ScalarsInC DEF AsInC
  <2>5. QED
    BY <2>1, <2>2, <2>3, <2>4, RowAgrees
<1>26. CASE b = << <<TYPE_STRING, TYPE_STRING>>, TYPE_BOOL, {"write_file", "append_file"}>>
  <2>1. << <<<<"char*">>, <<"char*">>>>, <<"int">>, {"write_file", "append_file"}>> \in CBuiltinRows
    BY DEF CBuiltinRows
  <2>2. n \in {"write_file", "append_file"} /\ b[1] = <<TYPE_STRING, TYPE_STRING>> /\ b[2] = TYPE_BOOL
    BY <1>26
  <2>3. \A q \in CBuiltinRows : n \in q[3] => q[1] = <<<<"char*">>, <<"char*">>>> /\ q[2] = <<"int">>
    BY <2>2 DEF CBuiltinRows
  <2>4. AsInC(<<TYPE_STRING, TYPE_STRING>>, TYPE_BOOL, <<<<"char*">>, <<"char*">>>>, <<"int">>)
    BY BuiltinTypes, ScalarTypes, ScalarsInC DEF AsInC
  <2>5. QED
    BY <2>1, <2>2, <2>3, <2>4, RowAgrees
<1>27. CASE b = << <<TYPE_STRING, TYPE_INT, TYPE_INT>>, TYPE_STRING, {"substring"}>>
  <2>1. << <<<<"char*">>, <<"long">>, <<"long">>>>, <<"char*">>, {"substring"}>> \in CBuiltinRows
    BY DEF CBuiltinRows
  <2>2. n \in {"substring"} /\ b[1] = <<TYPE_STRING, TYPE_INT, TYPE_INT>> /\ b[2] = TYPE_STRING
    BY <1>27
  <2>3. \A q \in CBuiltinRows : n \in q[3] => q[1] = <<<<"char*">>, <<"long">>, <<"long">>>> /\ q[2] = <<"char*">>
    BY <2>2 DEF CBuiltinRows
  <2>4. AsInC(<<TYPE_STRING, TYPE_INT, TYPE_INT>>, TYPE_STRING, <<<<"char*">>, <<"long">>, <<"long">>>>, <<"char*">>)
    BY BuiltinTypes, ScalarTypes, ScalarsInC DEF AsInC
  <2>5. QED
    BY <2>1, <2>2, <2>3, <2>4, RowAgrees
<1>28. QED
  BY <1>1, <1>2, <1>3, <1>4, <1>5, <1>6, <1>7, <1>8, <1>9, <1>10, <1>11, <1>12, <1>13, <1>14, <1>15, <1>16, <1>17, <1>18, <1>19, <1>20, <1>21, <1>22, <1>23, <1>24, <1>25, <1>26, <1>27 DEF BuiltinRows

LEMMA NamedIs ==
  ASSUME NEW rows, NEW n
  PROVE  /\ n \in DOMAIN Named(rows) <=> \E r \in rows : n \in r[3]
         /\ n \in DOMAIN Named(rows) =>
              \E r \in rows : /\ n \in r[3]
                              /\ Named(rows)[n].params = r[1] /\ Named(rows)[n].ret = r[2]
<1>1. DOMAIN Named(rows) = UNION {r[3] : r \in rows}
  BY DEF Named
<1>2. n \in DOMAIN Named(rows) <=> \E r \in rows : n \in r[3]
  BY <1>1
<1>3. ASSUME n \in DOMAIN Named(rows)
      PROVE  \E r \in rows : /\ n \in r[3]
                             /\ Named(rows)[n].params = r[1] /\ Named(rows)[n].ret = r[2]
  <2>1. PICK r : r = CHOOSE x \in rows : n \in x[3]
    OBVIOUS
  <2>2. r \in rows /\ n \in r[3]
    BY <1>2, <1>3, <2>1
  <2>3. Named(rows)[n] = [params |-> r[1], ret |-> r[2]]
    BY <1>1, <1>3, <2>1 DEF Named
  <2>4. QED
    BY <2>2, <2>3
<1>4. QED
  BY <1>2, <1>3

(* A function's prototype in C has the C types of its types in sema.        *)
LEMMA CalleesAgree ==
  ASSUME NEW f \in DOMAIN Callees
  PROVE  AsInC(Callees[f].params, Callees[f].ret, CCallees[f].params, CCallees[f].ret)
<1>1. CASE f \in DOMAIN Functions
  <2>1. PICK params : params = Functions[f].params
    OBVIOUS
  <2>2. params \in Seq(Storable) /\ Functions[f].ret \in Types
    BY <1>1, <2>1, TypingAssumption
  <2>3. DOMAIN params = 1 .. Len(params) /\ \A i \in 1 .. Len(params) : params[i] \in Types
    BY <2>2, LenProperties, ElementOfSeq, ScalarTypes
  <2>4. Callees[f] = Functions[f]
    BY <1>1 DEF Callees, Before
  <2>5. f \in DOMAIN CFunctions
    BY <1>1 DEF CFunctions
  <2>6. CCallees[f] = CFunctions[f]
    BY <2>5 DEF CCallees, Before
  <2>7. /\ CFunctions[f].params = [i \in DOMAIN params |-> CType(params[i])]
        /\ CFunctions[f].ret = CType(Functions[f].ret)
    BY <1>1, <2>1 DEF CFunctions
  <2>8. QED
    BY <2>1, <2>2, <2>3, <2>4, <2>6, <2>7 DEF AsInC
<1>2. CASE f \notin DOMAIN Functions
  <2>1. f \in DOMAIN Builtins /\ Callees[f] = Builtins[f]
    BY <1>2 DEF Callees, Before
  <2>2. PICK b \in BuiltinRows : /\ f \in b[3]
                                 /\ Builtins[f].params = b[1] /\ Builtins[f].ret = b[2]
    BY <2>1, NamedIs DEF Builtins
  <2>3. Agrees(f, b[1], b[2])
    BY <2>2, BuiltinsAgree
  <2>4. f \in DOMAIN CBuiltins
    BY <2>3, NamedIs DEF Agrees, CBuiltins
  <2>5. PICK q \in CBuiltinRows : /\ f \in q[3]
                                  /\ CBuiltins[f].params = q[1] /\ CBuiltins[f].ret = q[2]
    BY <2>4, NamedIs DEF CBuiltins
  <2>6. CCallees[f] = CBuiltins[f]
    BY <1>2, <2>4 DEF CCallees, CFunctions, Before
  <2>7. AsInC(b[1], b[2], q[1], q[2])
    BY <2>3, <2>5 DEF Agrees
  <2>8. QED
    BY <2>1, <2>2, <2>5, <2>6, <2>7
<1>3. QED
  BY <1>1, <1>2

LEMMA CallKeeps ==
  ASSUME IInv, NEW f \in DOMAIN Callees, NEW n \in 0 .. Len(stack), Call(f, n)
  PROVE  IInv'
<1>1. n \in Nat /\ Len(stack) >= n
  BY LenProperties DEF IInv
<1>2. PICK params : params = Callees[f].params
  OBVIOUS
<1>3. PICK ret : ret = Callees[f].ret
  OBVIOUS
<1>4. PICK cparams : cparams = CCallees[f].params
  OBVIOUS
<1>5. PICK c : c = CCallees[f].ret
  OBVIOUS
<1>6. AsInC(params, ret, cparams, c)
  BY <1>2, <1>3, <1>4, <1>5, CalleesAgree
<1>7. PICK t : t = CheckCall(f, n)
  OBVIOUS
<1>8. PICK moves : moves = {<<Operand(n, i).c, cparams[i]>> : i \in 1 .. n}
  OBVIOUS
<1>9. Len(stack) - n < MaxStack /\ Expression(n, t, c, moves)
  BY <1>4, <1>5, <1>7, <1>8 DEF Call
<1>10. \A i \in 1 .. n : Operand(n, i) \in Good
  BY <1>1, OperandIs
<1>11. ASSUME t # TYPE_UNKNOWN
       PROVE  t \in Types /\ c \in CTypes /\ Does(c, t) /\ c # Refused /\ Fine(moves)
  <2>1. n = Len(params) /\ t = ret /\ \A i \in 1 .. n : Operand(n, i).t = params[i]
    BY <1>2, <1>3, <1>7, <1>11 DEF CheckCall
  <2>2. t \in Types /\ c = CType(t)
    BY <1>6, <2>1 DEF AsInC
  <2>3. \A i \in 1 .. n : params[i] \in Types /\ cparams[i] = CType(params[i])
    BY <1>6, <2>1 DEF AsInC
  <2>4. \A i \in 1 .. n : Does(Operand(n, i).c, params[i])
    BY <1>10, <2>1, <2>3, GoodIs
  <2>5. Fine(moves)
    BY <1>8, <2>3, <2>4 DEF Fine
  <2>6. QED
    BY <2>2, <2>5, InC, ExactDoes
<1>12. QED
  BY <1>1, <1>9, <1>11, ExpressionKeeps

(* Every expression: what it leaves on the stack is good again.             *)
LEMMA BuildExpressionKeeps ==
  ASSUME IInv, {"remainder", "void"} \subseteq Rules, BuildExpression
  PROVE  IInv'
<1>1. CASE Literal \/ Variable \/ EnumMember
  BY <1>1, LiteralKeeps, VariableKeeps, EnumMemberKeeps
<1>2. CASE \E op \in {"!", "~", "-"} : Unary(op)
  BY <1>2, UnaryKeeps
<1>3. CASE \E op \in Operators : Binary(op)
  BY <1>3, BinaryKeeps
<1>4. CASE \E f \in DOMAIN Callees, n \in 0 .. Len(stack) : Call(f, n)
  BY <1>4, CallKeeps
<1>5. CASE \E n \in 1 .. Len(stack) : ListLiteral(n)
  BY <1>5, ListLiteralKeeps
<1>6. CASE \E n \in 1 .. Len(stack) : MapLiteral(n)
  BY <1>6, MapLiteralKeeps
<1>7. CASE \E s \in DOMAIN Structs, n \in 1 .. Len(stack) :
             \E names \in [1 .. n -> FieldNames] : StructLiteral(s, names)
  BY <1>7, StructLiteralKeeps
<1>8. CASE Index \/ Length \/ \E f \in FieldNames : Field(f)
  BY <1>8, IndexKeeps, LengthKeeps, FieldKeeps
<1>9. CASE Ternary \/ Contains \/ Keys \/ Slice
  BY <1>9, TernaryKeeps, ContainsKeeps, KeysKeeps, SliceKeeps
<1>10. CASE \E n \in 0 .. Len(stack), holes \in 0 .. MaxStack : Compose(n, holes)
  BY <1>10, ComposeKeeps
<1>11. QED
  BY <1>1, <1>2, <1>3, <1>4, <1>5, <1>6, <1>7, <1>8, <1>9, <1>10 DEF BuildExpression


-------------------------------------------------------------------------------
(* Statements *)

(* The operand, or the two, that a statement uses up                        *)
LEMMA StatementOperand ==
  ASSUME IInv
  PROVE  /\ Len(stack) = 1 =>
              Operand(1, 1) \in Good /\ Fine({<<Operand(1, 1).c, CType(Operand(1, 1).t)>>})
         /\ Len(stack) = 2 => Operand(2, 1) \in Good /\ Operand(2, 2) \in Good
<1>1. ASSUME Len(stack) = 1
      PROVE  Operand(1, 1) \in Good /\ Fine({<<Operand(1, 1).c, CType(Operand(1, 1).t)>>})
  <2>1. Operand(1, 1) \in Good
    BY <1>1, OperandIs
  <2>2. QED
    BY <2>1, FineOne
<1>2. ASSUME Len(stack) = 2 PROVE Operand(2, 1) \in Good /\ Operand(2, 2) \in Good
  BY <1>2, OperandIs
<1>3. QED
  BY <1>1, <1>2

LEMMA LetKeeps ==
  ASSUME IInv, Let
  PROVE  IInv'
<1>1. PICK x : x = Operand(1, 1)
  OBVIOUS
<1>2. PICK moves : moves = {<<x.c, CType(x.t)>>}
  OBVIOUS
<1>3. Statement(1, x.t # TYPE_VOID, moves)
  BY <1>1, <1>2 DEF Let
<1>4. Len(stack) = 1
  BY <1>3 DEF Statement
<1>5. Fine(moves)
  BY <1>1, <1>2, <1>4, StatementOperand
<1>6. QED
  BY <1>3, <1>5, StatementKeeps

LEMMA AssignKeeps ==
  ASSUME IInv, NEW t \in Storable, Assign(t)
  PROVE  IInv'
<1>1. PICK x : x = Operand(1, 1)
  OBVIOUS
<1>2. PICK moves : moves = {<<x.c, CType(t)>>}
  OBVIOUS
<1>3. Statement(1, x.t = t, moves)
  BY <1>1, <1>2 DEF Assign
<1>4. Len(stack) = 1
  BY <1>3 DEF Statement
<1>5. x.t = t => Fine(moves)
  BY <1>1, <1>2, <1>4, StatementOperand
<1>6. QED
  BY <1>3, <1>5, StatementKeeps

LEMMA OutputKeeps ==
  ASSUME IInv, NEW n \in 1 .. Len(stack), Output(n)
  PROVE  IInv'
<1>1. n \in Nat /\ Len(stack) >= n
  BY LenProperties DEF IInv
<1>2. PICK ok : ok = \A i \in 1 .. n : Printable(Operand(n, i).t)
  OBVIOUS
<1>3. Statement(n, ok, Written(n))
  BY <1>2 DEF Output
<1>4. Fine(Written(n))
  BY <1>1, WrittenFine
<1>5. QED
  BY <1>1, <1>3, <1>4, StatementKeeps

LEMMA ConditionKeeps ==
  ASSUME IInv, Condition
  PROVE  IInv'
<1>1. PICK x : x = Operand(1, 1)
  OBVIOUS
<1>2. PICK moves : moves = {<<x.c, <<"int">>>>}
  OBVIOUS
<1>3. Statement(1, x.t = TYPE_BOOL, moves)
  BY <1>1, <1>2 DEF Condition
<1>4. Len(stack) = 1
  BY <1>3 DEF Statement
<1>5. x \in Good
  BY <1>1, <1>4, StatementOperand
<1>6. x.t = TYPE_BOOL => Fine(moves)
  BY <1>2, <1>5, FineWord
<1>7. QED
  BY <1>3, <1>6, StatementKeeps

LEMMA ReturnKeeps ==
  ASSUME IInv, NEW f \in DOMAIN Functions, Return(f)
  PROVE  IInv'
<1>1. PICK x : x = Operand(1, 1)
  OBVIOUS
<1>2. PICK expected : expected = Functions[f].ret
  OBVIOUS
<1>3. PICK moves : moves = {<<x.c, CType(expected)>>}
  OBVIOUS
<1>4. Statement(1, expected # TYPE_VOID /\ x.t = expected, moves)
  BY <1>1, <1>2, <1>3 DEF Return
<1>5. Len(stack) = 1
  BY <1>4 DEF Statement
<1>6. x.t = expected => Fine(moves)
  BY <1>1, <1>3, <1>5, StatementOperand
<1>7. QED
  BY <1>4, <1>6, StatementKeeps

LEMMA ExpressionStatementKeeps ==
  ASSUME IInv, ExpressionStatement
  PROVE  IInv'
<1>1. PICK moves : moves = {}
  OBVIOUS
<1>2. Statement(1, TRUE, moves) /\ Fine(moves)
  BY <1>1 DEF ExpressionStatement, Fine
<1>3. QED
  BY <1>2, StatementKeeps

(* push: the function is named for the value, and it is the list's          *)
LEMMA PushStatementKeeps ==
  ASSUME IInv, NEW t \in Storable, PushStatement(t)
  PROVE  IInv'
<1>1. PICK x : x = Operand(1, 1)
  OBVIOUS
<1>2. PICK runtime : runtime = CType(ListOf(x.t))
  OBVIOUS
<1>3. PICK moves : moves = {<<CType(t), runtime>>} \cup {<<x.c, CType(Of(runtime))>>}
  OBVIOUS
<1>4. PICK ok : ok = (IsList(t) /\ x.t = Of(t))
  OBVIOUS
<1>5. moves = {<<CType(t), runtime>>, <<x.c, CType(Of(runtime))>>}
  BY <1>3
<1>6. Statement(1, ok, moves)
  BY <1>1, <1>2, <1>4, <1>5 DEF PushStatement
<1>7. Len(stack) = 1
  BY <1>6 DEF Statement
<1>8. ASSUME ok PROVE Fine(moves)
  <2>1. t \in Types /\ IsList(t) /\ x.t = Of(t)
    BY <1>4, <1>8, ScalarTypes
  <2>2. runtime = CType(t) /\ CType(t) = t
    BY <1>2, <2>1, OfIs, KindsAre
  <2>3. Fine({<<CType(t), runtime>>})
    BY <2>1, <2>2, FineIs, ExactDoes
  <2>4. Fine({<<x.c, CType(Of(runtime))>>})
    BY <1>1, <1>7, <2>1, <2>2, StatementOperand
  <2>5. QED
    BY <1>3, <2>3, <2>4, FineUnion
<1>9. QED
  BY <1>6, <1>8, StatementKeeps

LEMMA IndexAssignKeeps ==
  ASSUME IInv, NEW t \in Storable, IndexAssign(t)
  PROVE  IInv'
<1>1. PICK i : i = Operand(2, 1)
  OBVIOUS
<1>2. PICK x : x = Operand(2, 2)
  OBVIOUS
<1>3. PICK runtime : runtime = CType(IF i.t = TYPE_STRING THEN MapOf(x.t) ELSE ListOf(x.t))
  OBVIOUS
<1>4. PICK w : w = IF i.t = TYPE_STRING THEN <<"char*">> ELSE <<"long">>
  OBVIOUS
<1>5. PICK moves : moves = {<<CType(t), runtime>>}
                             \cup ({<<x.c, CType(Of(runtime))>>} \cup {<<i.c, w>>})
  OBVIOUS
<1>6. PICK ok : ok = (/\ (IsList(t) /\ i.t = TYPE_INT) \/ (IsMap(t) /\ i.t = TYPE_STRING)
                      /\ x.t = Of(t))
  OBVIOUS
<1>7. moves = {<<CType(t), runtime>>, <<x.c, CType(Of(runtime))>>, <<i.c, w>>}
  BY <1>5
<1>8. Statement(2, ok, moves)
  BY <1>1, <1>2, <1>3, <1>4, <1>6, <1>7 DEF IndexAssign
<1>9. Len(stack) = 2
  BY <1>8 DEF Statement
<1>10. i \in Good /\ x \in Good
  BY <1>1, <1>2, <1>9, StatementOperand
<1>11. ASSUME ok PROVE Fine(moves)
  <2>1. t \in Types /\ x.t = Of(t)
    BY <1>6, <1>11, ScalarTypes
  <2>2. CType(t) = t /\ runtime = t
    <3>1. CASE IsList(t) /\ i.t = TYPE_INT
      <4>1. i.t # TYPE_STRING
        BY <3>1 DEF TYPE_INT, TYPE_STRING
      <4>2. QED
        BY <1>3, <2>1, <3>1, <4>1, OfIs, KindsAre
    <3>2. CASE IsMap(t) /\ i.t = TYPE_STRING
      BY <1>3, <2>1, <3>2, OfIs, KindsAre
    <3>3. QED
      BY <1>6, <1>11, <3>1, <3>2
  <2>3. Fine({<<CType(t), runtime>>})
    BY <2>1, <2>2, FineIs, ExactDoes
  <2>4. Fine({<<x.c, CType(Of(runtime))>>})
    BY <1>10, <2>1, <2>2, FineOne
  <2>5. Fine({<<i.c, w>>})
    <3>1. i.t = TYPE_INT \/ i.t = TYPE_STRING
      BY <1>6, <1>11
    <3>2. TYPE_INT # TYPE_STRING
      BY DEF TYPE_INT, TYPE_STRING
    <3>3. QED
      BY <1>4, <1>10, <3>1, <3>2, FineWord
  <2>6. QED
    BY <1>5, <2>3, <2>4, <2>5, FineUnion
<1>12. QED
  BY <1>8, <1>11, StatementKeeps

LEMMA FieldAssignKeeps ==
  ASSUME IInv, NEW t \in Storable, NEW f, FieldAssign(t, f)
  PROVE  IInv'
<1>1. PICK x : x = Operand(1, 1)
  OBVIOUS
<1>2. PICK moves : moves = {<<x.c, CType(Structs[t[1]][f])>>}
  OBVIOUS
<1>3. PICK ok : ok = (IsStruct(t) /\ f \in DOMAIN Structs[t[1]] /\ x.t = Structs[t[1]][f])
  OBVIOUS
<1>4. Statement(1, ok, moves)
  BY <1>1, <1>2, <1>3 DEF FieldAssign
<1>5. Len(stack) = 1
  BY <1>4 DEF Statement
<1>6. ok => Fine(moves)
  BY <1>1, <1>2, <1>3, <1>5, StatementOperand
<1>7. QED
  BY <1>4, <1>6, StatementKeeps

LEMMA ListStatementsKeep ==
  ASSUME IInv, NEW t \in Storable, Sort(t) \/ Reverse(t) \/ Remove(t)
  PROVE  IInv'
<1>1. ASSUME NEW ok, Statement(0, ok, {}) PROVE IInv'
  <2>1. PICK moves : moves = {}
    OBVIOUS
  <2>2. Fine(moves) /\ Statement(0, ok, moves)
    BY <1>1, <2>1 DEF Fine
  <2>3. QED
    BY <2>2, StatementKeeps
<1>2. CASE Sort(t)
  BY <1>1, <1>2 DEF Sort
<1>3. CASE Reverse(t)
  BY <1>1, <1>3 DEF Reverse
<1>4. CASE Remove(t)
  <2>1. PICK x : x = Operand(1, 1)
    OBVIOUS
  <2>2. PICK moves : moves = {<<x.c, <<"long">>>>}
    OBVIOUS
  <2>3. Statement(1, IsList(t) /\ x.t = TYPE_INT, moves)
    BY <1>4, <2>1, <2>2 DEF Remove
  <2>4. Len(stack) = 1
    BY <2>3 DEF Statement
  <2>5. x \in Good
    BY <2>1, <2>4, StatementOperand
  <2>6. x.t = TYPE_INT => Fine(moves)
    BY <2>2, <2>5, FineWord
  <2>7. QED
    BY <2>3, <2>6, StatementKeeps
<1>5. QED
  BY <1>2, <1>3, <1>4

LEMMA EndStatementKeeps ==
  ASSUME IInv, EndStatement
  PROVE  IInv'
<1>1. CASE Let \/ Condition \/ ExpressionStatement
  BY <1>1, LetKeeps, ConditionKeeps, ExpressionStatementKeeps
<1>2. ASSUME NEW t \in Storable,
             \/ Assign(t) \/ PushStatement(t) \/ IndexAssign(t)
             \/ Sort(t) \/ Reverse(t) \/ Remove(t)
      PROVE  IInv'
  BY <1>2, AssignKeeps, PushStatementKeeps, IndexAssignKeeps, ListStatementsKeep
<1>3. ASSUME NEW t \in Storable, NEW f \in FieldNames, FieldAssign(t, f) PROVE IInv'
  BY <1>3, FieldAssignKeeps
<1>4. ASSUME NEW n \in 1 .. Len(stack), Output(n) PROVE IInv'
  BY <1>4, OutputKeeps
<1>5. ASSUME NEW f \in DOMAIN Functions, Return(f) PROVE IInv'
  BY <1>5, ReturnKeeps
<1>6. QED
  BY <1>1, <1>2, <1>3, <1>4, <1>5 DEF EndStatement

-------------------------------------------------------------------------------
(* The theorems *)

LEMMA InitGood == Init => IInv
<1>1. MaxStack \in Nat
  BY TypingAssumption
<1>2. Len(<<>>) = 0 /\ <<>> \in Seq(Good)
  OBVIOUS
<1>3. Init => stack \in Seq(Good) /\ Len(stack) <= MaxStack
  BY <1>1, <1>2 DEF Init
<1>4. Init => differs \in BOOLEAN /\ ~differs /\ verdict \in {"checking", "rejected"}
  BY DEF Init
<1>5. QED
  BY <1>3, <1>4 DEF IInv

LEMMA NextKeeps ==
  ASSUME {"remainder", "void"} \subseteq Rules, IInv, [Next]_vars
  PROVE  IInv'
<1>1. CASE BuildExpression
  BY <1>1, BuildExpressionKeeps
<1>2. CASE EndStatement
  BY <1>2, EndStatementKeeps
<1>3. CASE UNCHANGED vars
  BY <1>3 DEF IInv, vars
<1>4. QED
  BY <1>1, <1>2, <1>3 DEF Next

LEMMA IInvShows ==
  ASSUME IInv
  PROVE  /\ TypeOK /\ AcceptedBuilds
         /\ "fraction" \in Rules => ValuesHaveTheirTypes /\ NothingConverted
<1>1. stack \in Seq(Good) /\ Len(stack) \in Nat
  BY LenProperties DEF IInv
<1>2. DOMAIN stack = 1 .. Len(stack) /\ \A i \in 1 .. Len(stack) : stack[i] \in Good
  BY <1>1, LenProperties, ElementOfSeq
<1>3. TypeOK
  <2>1. PICK entries : entries = [t : Types, c : CTypes \cup {<<"double">>}]
    OBVIOUS
  <2>2. Good \subseteq entries
    BY <2>1 DEF Good
  <2>3. stack \in Seq(entries)
    BY <1>1, <2>2
  <2>4. QED
    BY <2>1, <2>3 DEF TypeOK, IInv
<1>4. "fraction" \in Rules => ValuesHaveTheirTypes
  <2>1. \A x \in Good : "fraction" \in Rules => Same(x.c, CType(x.t))
    BY GoodIs, DoesIs
  <2>2. QED
    BY <1>2, <2>1 DEF ValuesHaveTheirTypes
<1>5. QED
  BY <1>3, <1>4 DEF IInv, AcceptedBuilds, NothingConverted

(* Two floats are doubles in C, and so is what an operator makes of them.   *)
LEMMA FloatStep ==
  ASSUME IInv, "fraction" \in Rules, "remainder" \in Rules,
         NEW op \in {"+", "/", "%"}, Binary(op),
         Operand(2, 1).t = TYPE_FLOAT, Operand(2, 2).t = TYPE_FLOAT
  PROVE  verdict' # "gcc error" /\ stack'[Len(stack')].c = <<"double">>
<1>1. PICK l : l = Operand(2, 1)
  OBVIOUS
<1>2. PICK r : r = Operand(2, 2)
  OBVIOUS
<1>3. Len(stack) \in Nat /\ Len(stack) >= 2 /\ stack \in Seq(Good)
  BY LenProperties DEF Binary, Has, IInv
<1>4. l \in Good /\ r \in Good
  BY <1>1, <1>2, <1>3, OperandIs
<1>5. l.t = TYPE_FLOAT /\ r.t = TYPE_FLOAT /\ TYPE_FLOAT # TYPE_STRING
      /\ TYPE_FLOAT # TYPE_UNKNOWN
  BY <1>1, <1>2 DEF TYPE_FLOAT, TYPE_STRING, TYPE_UNKNOWN
<1>6. \A x \in Good : x.t = TYPE_FLOAT => x.c = <<"double">>
  <2>1. SUFFICES ASSUME NEW x \in Good, x.t = TYPE_FLOAT PROVE x.c = <<"double">>
    OBVIOUS
  <2>2. Same(x.c, <<"double">>)
    BY <2>1, GoodIs, DoesIs, ScalarsInC
  <2>3. QED
    BY <2>2, NamesAreNew DEF Same, Words
<1>7. l.c = <<"double">> /\ r.c = <<"double">>
  BY <1>4, <1>5, <1>6
<1>8. op \in {"+", "/"}
  BY <1>1, <1>5 DEF Binary
<1>9. {l.c, r.c} \subseteq CNumbers
  BY <1>7 DEF CNumbers
<1>10. COperator(op, l.c, r.c) = <<"double">>
  BY <1>7, <1>8, <1>9, COperatorIs, WiderIs
<1>11. CheckBinary(op, l.t, r.t) = TYPE_FLOAT
  BY <1>5, <1>8 DEF CheckBinary, IsNumeric
<1>12. PICK c : c = <<"double">>
  OBVIOUS
<1>13. PICK entry : entry = [t |-> TYPE_FLOAT, c |-> c]
  OBVIOUS
<1>14. Accept(2, <<entry>>, c, {})
  BY <1>1, <1>2, <1>5, <1>8, <1>10, <1>11, <1>12, <1>13 DEF Binary, Expression
<1>15. verdict' = "checking"
  BY <1>12, <1>14 DEF Accept, Refused
<1>16. PICK rest : rest = SubSeq(stack, 1, Len(stack) - 2)
  OBVIOUS
<1>17. stack' = Append(rest, entry)
  <2>1. rest \in Seq(Good)
    BY <1>3, <1>16
  <2>2. stack' = rest \o <<entry>>
    BY <1>14, <1>16 DEF Accept
  <2>3. entry \in Good
    BY <1>4, <1>5, <1>7, <1>12, <1>13, ScalarTypes, ScalarsInC, InC, ExactDoes DEF Good
  <2>4. QED
    BY <2>1, <2>2, <2>3, AppendIsConcat
<1>18. stack'[Len(stack')] = entry
  BY <1>3, <1>16, <1>17
<1>19. QED
  BY <1>12, <1>13, <1>15, <1>18

LEMMA Safe ==
  ASSUME {"remainder", "void"} \subseteq Rules
  PROVE  Spec => []IInv
<1>1. IInv /\ [Next]_vars => IInv'
  BY NextKeeps
<1>2. QED
  BY <1>1, InitGood, PTL DEF Spec

(* The variables keep their types: what gcc gives a value is one of the C   *)
(* types that sema's types have, and never the mark of an operand gcc       *)
(* refuses.                                                                 *)
THEOREM TypeCorrect ==
  ASSUME {"remainder", "void"} \subseteq Rules
  PROVE  Spec => []TypeOK
<1>1. Spec => []IInv
  BY Safe
<1>2. IInv => TypeOK
  BY IInvShows
<1>3. QED
  BY <1>1, <1>2, PTL

(* codegen.h: codegen takes a program sema_check accepted.  Whatever        *)
(* structs, enums and functions it declares, whatever operands its          *)
(* expressions have and however its float literals are printed, gcc refuses *)
(* nothing of what emit_expr and emit_stmt write for it.                    *)
THEOREM BuildsWhatIsAccepted ==
  ASSUME {"remainder", "void"} \subseteq Rules
  PROVE  Spec => []AcceptedBuilds
<1>1. Spec => []IInv
  BY Safe
<1>2. IInv => AcceptedBuilds
  BY IInvShows
<1>3. QED
  BY <1>1, <1>2, PTL

(* The C expression that emit_expr writes has the type that c_type_name     *)
(* writes for the one check_expr gave it, or is an int for an enum, once no *)
(* float literal loses its point.                                           *)
THEOREM ValuesKeepTheirTypes ==
  ASSUME {"fraction", "remainder", "void"} \subseteq Rules
  PROVE  Spec => []ValuesHaveTheirTypes
<1>1. Spec => []IInv
  BY Safe
<1>2. IInv => ValuesHaveTheirTypes
  BY IInvShows
<1>3. QED
  BY <1>1, <1>2, PTL

(* No argument, element, field, operand or printed value that emit_expr and *)
(* emit_stmt put somewhere is converted by C on the way.                    *)
THEOREM ConvertsNothing ==
  ASSUME {"fraction", "remainder", "void"} \subseteq Rules
  PROVE  Spec => []NothingConverted
<1>1. Spec => []IInv
  BY Safe
<1>2. IInv => NothingConverted
  BY IInvShows
<1>3. QED
  BY <1>1, <1>2, PTL

(* What README.md says of + - * / on floats holds of the C operators when   *)
(* no float literal is a whole number: without that rule a run shows the    *)
(* opposite.                                                                *)
THEOREM FloatsStayFloats ==
  ASSUME {"fraction", "remainder", "void"} \subseteq Rules
  PROVE  Spec => FloatArithmetic
<1>1. Spec => []IInv
  BY Safe
<1>2. IInv => [\A op \in {"+", "/", "%"} :
                 Binary(op) /\ Operand(2, 1).t = TYPE_FLOAT /\ Operand(2, 2).t = TYPE_FLOAT
                   => verdict' # "gcc error" /\ stack'[Len(stack')].c = <<"double">>]_vars
  BY FloatStep
<1>3. QED
  BY <1>1, <1>2, PTL DEF FloatArithmetic
==============================================================================
