-------------------------------- MODULE Typing ---------------------------------
(***************************************************************************)
(* Types, twice: sema.c gives every expression a type of Fractyne and      *)
(* codegen.c writes it as C text, to which gcc gives a type of C by other  *)
(* rules.  The module builds expressions bottom up, as check_expr and      *)
(* emit_expr return from them, on a stack whose entries keep both types,   *)
(* and ends each of them in a statement.  A value has no more than a type, *)
(* so a stack of MaxStack operands stands for expressions of any depth.    *)
(***************************************************************************)
EXTENDS Naturals, Sequences, FiniteSets

CONSTANTS
  Structs,    \* the structs: name -> field -> type
  Enums,      \* the names of the enums
  Functions,  \* the functions: name -> [params, ret]
  MaxStack,   \* bound on the operands at hand
  Rules       \* what programs keep to and sema does not ask for, some of
              \*   "fraction"   no float literal is a whole number,
              \*   "remainder"  `%` is on ints,
              \*   "void"       `==` is not on calls of void functions

VARIABLES
  stack,      \* operands: [t |-> type of sema, c |-> type of C]
  differs,    \* the last step puts a C value where another C type is expected
  verdict     \* "checking", "rejected" by sema, "gcc error"

vars == <<stack, differs, verdict>>

-------------------------------------------------------------------------------
(* The types of Fractyne: <<name>>, <<"list", element>>, <<"map", value>> *)
TYPE_INT == <<"int">>
TYPE_FLOAT == <<"float">>
TYPE_BOOL == <<"bool">>
TYPE_STRING == <<"string">>
TYPE_VOID == <<"void">>
TYPE_UNKNOWN == <<"unknown">>

Primitives == {TYPE_INT, TYPE_FLOAT, TYPE_BOOL, TYPE_STRING}
IsList(t) == t[1] = "list"
IsMap(t) == t[1] = "map"
IsStruct(t) == t[1] \in DOMAIN Structs
IsEnum(t) == t[1] \in Enums
IsNumeric(t) == t \in {TYPE_INT, TYPE_FLOAT}

(* Mutant: a list may hold enums. *)
ListOfAny(t) == IF t = TYPE_VOID \/ Len(t) = 2 THEN TYPE_UNKNOWN ELSE <<"list", t[1]>>

ListOf(t) == IF t \in Primitives \/ IsStruct(t) THEN <<"list", t[1]>> ELSE TYPE_UNKNOWN
MapOf(t) == IF t \in Primitives THEN <<"map", t[1]>> ELSE TYPE_UNKNOWN
Of(t) == <<t[2]>>                                  \* list_elem, map_value

Values == Primitives \cup {<<n>> : n \in DOMAIN Structs \cup Enums}
Storable == Values
       \cup {ListOf(t) : t \in Values \ {<<e>> : e \in Enums}}
       \cup {MapOf(t) : t \in Primitives}
Types == Storable \cup {TYPE_VOID}

(* A struct or an enum has a name of its own, none of the words that stand   *)
(* for another type here or in C, and what the parser takes for the type of  *)
(* a field, a parameter or a result is one.                                  *)
ASSUME TypingAssumption ==
  /\ MaxStack \in Nat
  /\ Rules \subseteq {"fraction", "remainder", "void"}
  /\ DOMAIN Structs \cap Enums = {}
  /\ (DOMAIN Structs \cup Enums)
       \cap {"int", "float", "bool", "string", "void", "unknown", "list", "map",
             "long", "double", "char*", "refused"} = {}
  /\ \A s \in DOMAIN Structs : \A f \in DOMAIN Structs[s] : Structs[s][f] \in Storable
  /\ \A f \in DOMAIN Functions : Functions[f].params \in Seq(Storable) /\ Functions[f].ret \in Types

(* c_type_name, with the tables of lists and maps: one C type for each type *)
CScalar == [int |-> "long", float |-> "double", bool |-> "int", string |-> "char*"]
CType(t) == IF t \in Primitives THEN <<CScalar[t[1]]>> ELSE t
CTypes == {CType(t) : t \in Types}

(* The rules of C that matter here *)
Refused == <<"refused">>
CIntegers == {<<"int">>, <<"long">>} \cup {<<e>> : e \in Enums}
CNumbers == CIntegers \cup {<<"double">>}
Converts(c, to) == c = to \/ {c, to} \subseteq CNumbers
Same(c, to) == c = to \/ (c = <<"int">> /\ to[1] \in Enums)
Wider(l, r) ==                        \* the usual arithmetic conversions
  IF <<"double">> \in {l, r} THEN <<"double">>
  ELSE IF <<"long">> \in {l, r} THEN <<"long">> ELSE <<"int">>
COperator(op, l, r) ==
  CASE op \in {"&&", "==", "<"} /\ {l, r} \subseteq CNumbers -> <<"int">>
    [] op \in {"+", "/"} /\ {l, r} \subseteq CNumbers -> Wider(l, r)
    [] op \in {"%", "&"} /\ {l, r} \subseteq CIntegers -> Wider(l, r)
    [] OTHER -> Refused
CChoice(l, r) ==
  CASE l = r -> l
    [] l # r /\ {l, r} \subseteq CNumbers -> Wider(l, r)
    [] OTHER -> Refused

-------------------------------------------------------------------------------
(* The builtins: what sema takes them for, and the C functions they are *)
Named(rows) ==      \* rows: <<parameters, result, the names of the functions>>
  [n \in UNION {r[3] : r \in rows} |->
     LET r == CHOOSE r \in rows : n \in r[3] IN [params |-> r[1], ret |-> r[2]]]

BuiltinRows == {
     << <<>>, TYPE_INT, {"mouse_x", "mouse_y", "ticks_ms"}>>,
     << <<>>, TYPE_FLOAT, {"random"}>>,
     << <<>>, TYPE_BOOL, {"window_should_close"}>>,
     << <<>>, TYPE_STRING, {"input"}>>,
     << <<>>, <<"list", "string">>, {"launch_args"}>>,
     << <<>>, TYPE_VOID, {"window_close", "window_poll_events", "window_present"}>>,
     << <<TYPE_INT>>, TYPE_INT, {"abs_int"}>>,
     << <<TYPE_INT>>, TYPE_FLOAT, {"int_to_float"}>>,
     << <<TYPE_INT>>, TYPE_STRING, {"int_to_string"}>>,
     << <<TYPE_INT>>, TYPE_VOID, {"draw_square", "draw_triangle", "delay_ms", "random_seed"}>>,
     << <<TYPE_INT, TYPE_INT>>, TYPE_INT, {"min_int", "max_int", "random_int"}>>,
     << <<TYPE_INT, TYPE_INT>>, TYPE_VOID, {"draw_rect", "gfx_pixel"}>>,
     << <<TYPE_INT, TYPE_INT, TYPE_INT>>, TYPE_VOID, {"window_clear", "gfx_set_color", "gfx_circle"}>>,
     << <<TYPE_INT, TYPE_INT, TYPE_INT, TYPE_INT>>, TYPE_VOID, {"gfx_line", "gfx_rect"}>>,
     << <<TYPE_INT, TYPE_INT, TYPE_STRING>>, TYPE_BOOL, {"window_open"}>>,
     << <<TYPE_FLOAT>>, TYPE_INT, {"float_to_int"}>>,
     << <<TYPE_FLOAT>>, TYPE_FLOAT, {"sqrt", "abs_float"}>>,
     << <<TYPE_FLOAT>>, TYPE_STRING, {"float_to_string"}>>,
     << <<TYPE_FLOAT, TYPE_FLOAT>>, TYPE_FLOAT, {"pow", "min_float", "max_float"}>>,
     << <<TYPE_BOOL>>, TYPE_STRING, {"bool_to_string"}>>,
     << <<TYPE_STRING>>, TYPE_INT, {"string_to_int"}>>,
     << <<TYPE_STRING>>, TYPE_FLOAT, {"string_to_float"}>>,
     << <<TYPE_STRING>>, TYPE_BOOL, {"key_down", "mouse_down", "file_exists"}>>,
     << <<TYPE_STRING>>, TYPE_STRING, {"to_upper", "to_lower", "trim", "read_file"}>>,
     << <<TYPE_STRING, TYPE_STRING>>, TYPE_INT, {"index_of"}>>,
     << <<TYPE_STRING, TYPE_STRING>>, TYPE_BOOL, {"write_file", "append_file"}>>,
     << <<TYPE_STRING, TYPE_INT, TYPE_INT>>, TYPE_STRING, {"substring"}>>}
Builtins == Named(BuiltinRows)

CBuiltinRows ==
  LET void == <<"void">>  int == <<"int">>  long == <<"long">>
      double == <<"double">>  text == <<"char*">>
  IN {
     << <<long>>, text, {"int_to_string"}>>, << <<double>>, text, {"float_to_string"}>>,
     << <<int>>, text, {"bool_to_string"}>>, << <<text>>, long, {"string_to_int"}>>,
     << <<text>>, double, {"string_to_float"}>>, << <<long>>, double, {"int_to_float"}>>,
     << <<double>>, long, {"float_to_int"}>>,
     << <<long>>, void, {"draw_square", "draw_triangle", "random_seed", "delay_ms"}>>,
     << <<long, long>>, void, {"draw_rect", "gfx_pixel"}>>,
     << <<double>>, double, {"sqrt", "abs_float"}>>,
     << <<double, double>>, double, {"pow", "min_float", "max_float"}>>,
     << <<long>>, long, {"abs_int"}>>,
     << <<long, long>>, long, {"min_int", "max_int", "random_int"}>>,
     << <<>>, text, {"input"}>>, << <<text, long, long>>, text, {"substring"}>>,
     << <<text>>, text, {"to_upper", "to_lower", "trim", "read_file"}>>,
     << <<text, text>>, long, {"index_of"}>>, << <<>>, double, {"random"}>>,
     << <<text, text>>, int, {"write_file", "append_file"}>>,
     << <<text>>, int, {"file_exists", "key_down", "mouse_down"}>>,
     << <<>>, <<"list", "string">>, {"launch_args"}>>,
     << <<long, long, text>>, int, {"window_open"}>>, << <<>>, int, {"window_should_close"}>>,
     << <<>>, void, {"window_close", "window_poll_events", "window_present"}>>,
     << <<long, long, long>>, void, {"window_clear", "gfx_set_color", "gfx_circle"}>>,
     << <<long, long, long, long>>, void, {"gfx_line", "gfx_rect"}>>,
     << <<>>, long, {"mouse_x", "mouse_y", "ticks_ms"}>>}
CBuiltins == Named(CBuiltinRows)

(* emit_signature: a function of the program is written with its own types *)
CFunctions == [f \in DOMAIN Functions |->
  [params |-> [i \in DOMAIN Functions[f].params |-> CType(Functions[f].params[i])],
   ret |-> CType(Functions[f].ret)]]

(* check_call looks for a function of the program, then for a builtin. *)
Before(f, g) == [x \in DOMAIN f \cup DOMAIN g |-> IF x \in DOMAIN f THEN f[x] ELSE g[x]]

Callees == Before(Functions, Builtins)
CCallees == Before(CFunctions, CBuiltins)

-------------------------------------------------------------------------------
Init == stack = <<>> /\ differs = FALSE /\ verdict = "checking"

(* The n last operands, the i-th of them *)
Operand(n, i) == stack[Len(stack) - n + i]

(* gcc reads what sema accepted: a value of C type m[1] goes to a place of
   C type m[2] for each m in moves, and what comes out has C type c. *)
Accept(n, operands, c, moves) ==
  /\ stack' = SubSeq(stack, 1, Len(stack) - n) \o operands
  /\ differs' = (\E m \in moves : ~Same(m[1], m[2]))
  /\ verdict' = IF c = Refused \/ \E m \in moves : ~Converts(m[1], m[2])
                THEN "gcc error" ELSE "checking"

(* diag_set: the first error ends the compilation *)
Reject == stack' = <<>> /\ differs' = FALSE /\ verdict' = "rejected"

(* An expression of n operands, to which sema gives type t *)
Expression(n, t, c, moves) ==
  \/ t # TYPE_UNKNOWN /\ Accept(n, <<[t |-> t, c |-> c]>>, c, moves)
  \/ t = TYPE_UNKNOWN /\ Reject

(* A statement on the n operands there are, which sema checks to be ok *)
Statement(n, ok, moves) ==
  /\ verdict = "checking" /\ Len(stack) = n
  /\ \/ ok /\ Accept(n, <<>>, <<"void">>, moves)
     \/ ~ok /\ Reject

Has(n) == verdict = "checking" /\ Len(stack) >= n
Leaf(t, c) == Has(0) /\ Len(stack) < MaxStack /\ Expression(0, t, c, {})

-------------------------------------------------------------------------------
(* Expressions *)

(* A float literal is printed with %g: a whole number has no point in C. *)
FloatLiterals == {<<"double">>} \cup IF "fraction" \in Rules THEN {} ELSE {<<"int">>}

Literal ==
  \/ Leaf(TYPE_INT, <<"long">>)
  \/ \E c \in FloatLiterals : Leaf(TYPE_FLOAT, c)
  \/ Leaf(TYPE_BOOL, <<"int">>)
  \/ Leaf(TYPE_STRING, <<"char*">>)

Variable == \E t \in Storable : Leaf(t, CType(t))

(* The members of an enum are ints in C. *)
EnumMember == \E e \in Enums : Leaf(<<e>>, <<"int">>)

CheckUnary(op, t) ==
  CASE op = "!" /\ t = TYPE_BOOL -> TYPE_BOOL
    [] op = "~" /\ t = TYPE_INT -> TYPE_INT
    [] op = "-" /\ IsNumeric(t) -> t
    [] OTHER -> TYPE_UNKNOWN

Unary(op) ==
  LET x == Operand(1, 1)
      c == CASE op = "!" -> IF x.c \in CNumbers THEN <<"int">> ELSE Refused
             [] op = "~" -> IF x.c \in CIntegers THEN x.c ELSE Refused
             [] op = "-" -> IF x.c \in CNumbers THEN x.c ELSE Refused
  IN Has(1) /\ Expression(1, CheckUnary(op, x.t), c, {})

(* Each operator stands for those checked and written alike. *)
Operators == {"&&",     \* ||
              "==",     \* !=
              "<",      \* <= > >=
              "+", "/", \* - *
              "%",
              "&"}      \* | ^ << >>

(* Mutant: lists, maps and structs have an equality. *)
CheckBinaryEqual(op, l, r) ==
  CASE op = "&&" /\ l = TYPE_BOOL /\ r = TYPE_BOOL -> TYPE_BOOL
    [] op = "==" /\ l = r -> TYPE_BOOL
    [] op = "<" /\ l = r /\ IsNumeric(l) -> TYPE_BOOL
    [] op = "+" /\ l = r /\ l \in {TYPE_INT, TYPE_FLOAT, TYPE_STRING} -> l
    [] op \in {"/", "%"} /\ l = r /\ IsNumeric(l) -> l
    [] op = "&" /\ l = TYPE_INT /\ r = TYPE_INT -> TYPE_INT
    [] OTHER -> TYPE_UNKNOWN

CheckBinary(op, l, r) ==
  CASE op = "&&" /\ l = TYPE_BOOL /\ r = TYPE_BOOL -> TYPE_BOOL
    [] op = "==" /\ l = r /\ ~(IsList(l) \/ IsMap(l) \/ IsStruct(l)) -> TYPE_BOOL
    [] op = "<" /\ l = r /\ IsNumeric(l) -> TYPE_BOOL
    [] op = "+" /\ l = r /\ (l = TYPE_STRING \/ IsNumeric(l)) -> l
    [] op \in {"/", "%"} /\ l = r /\ IsNumeric(l) -> l
    [] op = "&" /\ l = TYPE_INT /\ r = TYPE_INT -> TYPE_INT
    [] OTHER -> TYPE_UNKNOWN

(* The operators of strings are calls of strcmp and fy_concat. *)
Binary(op) ==
  LET l == Operand(2, 1)
      r == Operand(2, 2)
      called == l.t = TYPE_STRING /\ op \in {"==", "+"}
      c == CASE called /\ op = "==" -> <<"int">>
             [] called /\ op = "+" -> <<"char*">>
             [] ~called -> COperator(op, l.c, r.c)
      moves == IF called THEN {<<l.c, <<"char*">>>>, <<r.c, <<"char*">>>>} ELSE {}
  IN /\ Has(2)
     /\ "remainder" \in Rules => ~(op = "%" /\ l.t = TYPE_FLOAT)
     /\ "void" \in Rules => ~(op = "==" /\ l.t = TYPE_VOID)
     /\ Expression(2, CheckBinary(op, l.t, r.t), c, moves)

(* Mutant: only the number of arguments is checked. *)
CheckCallCount(f, n) ==
  IF Len(Callees[f].params) = n THEN Callees[f].ret ELSE TYPE_UNKNOWN

CheckCall(f, n) ==
  IF /\ Len(Callees[f].params) = n
     /\ \A i \in 1 .. n : Operand(n, i).t = Callees[f].params[i]
  THEN Callees[f].ret ELSE TYPE_UNKNOWN

Call(f, n) ==
  /\ Has(n) /\ Len(stack) - n < MaxStack
  /\ Expression(n, CheckCall(f, n), CCallees[f].ret,
                {<<Operand(n, i).c, CCallees[f].params[i]>> : i \in 1 .. n})

CheckListLiteral(n) ==
  IF \A i \in 1 .. n : Operand(n, i).t = Operand(n, 1).t
  THEN ListOf(Operand(n, 1).t) ELSE TYPE_UNKNOWN

ListLiteral(n) ==
  LET t == CheckListLiteral(n)
  IN Has(n) /\ Expression(n, t, CType(t),
                          {<<Operand(n, i).c, CType(Of(t))>> : i \in 1 .. n})

(* The operands are key, value, key, value, ... *)
MapLiteral(n) ==
  LET key(i) == Operand(2 * n, 2 * i - 1)
      value(i) == Operand(2 * n, 2 * i)
      t == IF \A i \in 1 .. n : key(i).t = TYPE_STRING /\ value(i).t = value(1).t
           THEN MapOf(value(1).t) ELSE TYPE_UNKNOWN
  IN Has(2 * n) /\ Expression(2 * n, t, CType(t),
        {<<key(i).c, <<"char*">>>> : i \in 1 .. n}
          \cup {<<value(i).c, CType(Of(t))>> : i \in 1 .. n})

CheckStructLiteral(s, names) ==
  LET n == Len(names)
  IN IF /\ n = Cardinality(DOMAIN Structs[s])
        /\ {names[i] : i \in 1 .. n} = DOMAIN Structs[s]
        /\ \A i \in 1 .. n : Operand(n, i).t = Structs[s][names[i]]
     THEN <<s>> ELSE TYPE_UNKNOWN

StructLiteral(s, names) ==
  LET n == Len(names)
  IN Has(n) /\ Expression(n, CheckStructLiteral(s, names), <<s>>,
        {<<Operand(n, i).c, CType(Structs[s][names[i]])>> : i \in 1 .. n})

CheckIndex(base, i) ==
  CASE IsList(base) /\ i = TYPE_INT -> Of(base)
    [] IsMap(base) /\ i = TYPE_STRING -> Of(base)
    [] base = TYPE_STRING /\ i = TYPE_INT -> TYPE_STRING
    [] OTHER -> TYPE_UNKNOWN

Index ==
  LET base == Operand(2, 1)
      i == Operand(2, 2)
      t == CheckIndex(base.t, i.t)
  IN Has(2) /\ Expression(2, t, CType(t),
        {<<base.c, CType(base.t)>>, <<i.c, IF IsMap(base.t) THEN <<"char*">> ELSE <<"long">>>>})

Length ==
  LET x == Operand(1, 1)
      t == IF IsList(x.t) \/ IsMap(x.t) \/ x.t = TYPE_STRING THEN TYPE_INT ELSE TYPE_UNKNOWN
  IN Has(1) /\ Expression(1, t, <<"long">>, {<<x.c, CType(x.t)>>})

Field(f) ==
  LET x == Operand(1, 1)
      t == IF IsStruct(x.t) /\ f \in DOMAIN Structs[x.t[1]]
           THEN Structs[x.t[1]][f] ELSE TYPE_UNKNOWN
  IN Has(1) /\ Expression(1, t, CType(t), {<<x.c, CType(x.t)>>})

(* Mutant: the branches need not agree. *)
CheckTernaryFirst(cond, then, else) == IF cond = TYPE_BOOL THEN then ELSE TYPE_UNKNOWN

CheckTernary(cond, then, else) ==
  IF cond = TYPE_BOOL /\ then = else THEN then ELSE TYPE_UNKNOWN

Ternary ==
  LET cond == Operand(3, 1)
      then == Operand(3, 2)
      else == Operand(3, 3)
  IN Has(3) /\ Expression(3, CheckTernary(cond.t, then.t, else.t),
                          CChoice(then.c, else.c), {<<cond.c, <<"int">>>>})

CheckContains(in, t) ==
  CASE IsMap(in) /\ t = TYPE_STRING -> TYPE_BOOL
    [] IsList(in) /\ ~IsStruct(Of(in)) /\ t = Of(in) -> TYPE_BOOL
    [] OTHER -> TYPE_UNKNOWN

Contains ==
  LET in == Operand(2, 1)
      x == Operand(2, 2)
  IN Has(2) /\ Expression(2, CheckContains(in.t, x.t), <<"int">>,
        {<<in.c, CType(in.t)>>,
         <<x.c, IF IsMap(in.t) THEN <<"char*">> ELSE CType(Of(in.t))>>})

Keys ==
  LET x == Operand(1, 1)
  IN Has(1) /\ Expression(1, IF IsMap(x.t) THEN ListOf(TYPE_STRING) ELSE TYPE_UNKNOWN,
                          CType(ListOf(TYPE_STRING)), {<<x.c, CType(x.t)>>})

Slice ==
  LET base == Operand(3, 1)
      start == Operand(3, 2)
      end == Operand(3, 3)
      t == IF IsList(base.t) /\ start.t = TYPE_INT /\ end.t = TYPE_INT THEN base.t ELSE TYPE_UNKNOWN
  IN Has(3) /\ Expression(3, t, CType(t),
        {<<base.c, CType(base.t)>>, <<start.c, <<"long">>>>, <<end.c, <<"long">>>>})

(* A value that output() and compose() can write *)
Printable(t) == t \in Primitives \/ IsEnum(t)

(* emit_compose_value, emit_output_value: each type has its conversion, which
   takes a value of the type's own C type. *)
Written(n) == {<<Operand(n, i).c, CType(Operand(n, i).t)>> : i \in 1 .. n}

(* The template has as many {} as holes. *)
Compose(n, holes) ==
  LET t == IF holes = n /\ \A i \in 1 .. n : Printable(Operand(n, i).t)
           THEN TYPE_STRING ELSE TYPE_UNKNOWN
  IN /\ Has(n) /\ Len(stack) - n < MaxStack
     /\ Expression(n, t, <<"char*">>, Written(n))

-------------------------------------------------------------------------------
(* Statements.  A variable they name may have any type. *)

Let ==
  LET x == Operand(1, 1)
  IN Statement(1, x.t # TYPE_VOID, {<<x.c, CType(x.t)>>})

Assign(t) ==
  LET x == Operand(1, 1)
  IN Statement(1, x.t = t, {<<x.c, CType(t)>>})

Output(n) == Statement(n, \A i \in 1 .. n : Printable(Operand(n, i).t), Written(n))

(* if, while and for *)
Condition == Statement(1, Operand(1, 1).t = TYPE_BOOL, {<<Operand(1, 1).c, <<"int">>>>})

Return(f) ==
  LET expected == Functions[f].ret
  IN Statement(1, expected # TYPE_VOID /\ Operand(1, 1).t = expected,
               {<<Operand(1, 1).c, CType(expected)>>})

ExpressionStatement == Statement(1, TRUE, {})

PushStatement(t) ==
  LET x == Operand(1, 1)
      runtime == CType(ListOf(x.t))        \* the function is named for the value
  IN Statement(1, IsList(t) /\ x.t = Of(t),
               {<<CType(t), runtime>>, <<x.c, CType(Of(runtime))>>})

(* The index tells maps from lists, the value names the function. *)
IndexAssign(t) ==
  LET i == Operand(2, 1)
      x == Operand(2, 2)
      inMap == i.t = TYPE_STRING
      runtime == CType(IF inMap THEN MapOf(x.t) ELSE ListOf(x.t))
  IN Statement(2, /\ (IsList(t) /\ i.t = TYPE_INT) \/ (IsMap(t) /\ i.t = TYPE_STRING)
                  /\ x.t = Of(t),
               {<<CType(t), runtime>>, <<x.c, CType(Of(runtime))>>,
                <<i.c, IF inMap THEN <<"char*">> ELSE <<"long">>>>})

FieldAssign(t, f) ==
  LET x == Operand(1, 1)
  IN Statement(1, /\ IsStruct(t) /\ f \in DOMAIN Structs[t[1]]
                  /\ x.t = Structs[t[1]][f],
               {<<x.c, CType(Structs[t[1]][f])>>})

Sort(t) == Statement(0, IsList(t) /\ ~IsStruct(Of(t)), {})
Reverse(t) == Statement(0, IsList(t), {})
Remove(t) == Statement(1, IsList(t) /\ Operand(1, 1).t = TYPE_INT,
                       {<<Operand(1, 1).c, <<"long">>>>})

-------------------------------------------------------------------------------
FieldNames == UNION {DOMAIN Structs[s] : s \in DOMAIN Structs}

BuildExpression ==
  \/ Literal \/ Variable \/ EnumMember
  \/ \E op \in {"!", "~", "-"} : Unary(op)
  \/ \E op \in Operators : Binary(op)
  \/ \E f \in DOMAIN Callees, n \in 0 .. Len(stack) : Call(f, n)
  \/ \E n \in 1 .. Len(stack) : ListLiteral(n)
  \/ \E n \in 1 .. Len(stack) : MapLiteral(n)
  \/ \E s \in DOMAIN Structs, n \in 1 .. Len(stack) :
       \E names \in [1 .. n -> FieldNames] : StructLiteral(s, names)
  \/ Index \/ Length
  \/ \E f \in FieldNames : Field(f)
  \/ Ternary \/ Contains \/ Keys \/ Slice
  \/ \E n \in 0 .. Len(stack), holes \in 0 .. MaxStack : Compose(n, holes)

EndStatement ==
  \/ Let \/ Condition \/ ExpressionStatement
  \/ \E t \in Storable : Assign(t) \/ PushStatement(t) \/ IndexAssign(t)
                         \/ Sort(t) \/ Reverse(t) \/ Remove(t)
  \/ \E t \in Storable, f \in FieldNames : FieldAssign(t, f)
  \/ \E n \in 1 .. Len(stack) : Output(n)
  \/ \E f \in DOMAIN Functions : Return(f)

Next == BuildExpression \/ EndStatement

Spec == Init /\ [][Next]_vars

-------------------------------------------------------------------------------
(* Types of the variables *)
TypeOK ==
  /\ stack \in Seq([t : Types, c : CTypes \cup {<<"double">>}])
  /\ Len(stack) <= MaxStack
  /\ differs \in BOOLEAN
  /\ verdict \in {"checking", "rejected", "gcc error"}

(* codegen.h takes a program that sema has checked: gcc has nothing left to
   refuse in the text codegen writes for it, whatever the operands are. *)
AcceptedBuilds == verdict # "gcc error"

(* The value of every expression has in C the type that c_type_name writes
   for its type in sema: dividing two floats is no division of integers. *)
ValuesHaveTheirTypes == \A i \in DOMAIN stack : Same(stack[i].c, CType(stack[i].t))

(* Fractyne converts nothing without being told: no argument, element,
   field, operand or printed value is of another C type than its place. *)
NothingConverted == ~differs

(* README.md: arithmetic + - * / % is on int and on float.  On two floats gcc
   accepts it and computes with doubles. *)
FloatArithmetic ==
  [][\A op \in {"+", "/", "%"} :
       Binary(op) /\ Operand(2, 1).t = TYPE_FLOAT /\ Operand(2, 2).t = TYPE_FLOAT
         => verdict' # "gcc error" /\ stack'[Len(stack')].c = <<"double">>]_vars
==============================================================================
