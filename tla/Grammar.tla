---------------------------------- MODULE Grammar ------------------------------
(***************************************************************************)
(* What the statements of Expressions.tla are to a reader, in two parts.   *)
(* Group finds the root of an expression first, by the precedences and the *)
(* associativity of C, and then the operands; it is for statements that    *)
(* are well formed.  Reading goes from token to token and knows which may  *)
(* come next, and builds nothing.                                          *)
(*                                                                         *)
(* README.md has recv.name(args) for a call wherever it stands, and so has *)
(* Reading.  The parser has not: when a statement begins with a field or an *)
(* element of a name, parse_statement takes nothing but an assignment.      *)
(* Strays tells the statements that begin so and are something else.       *)
(***************************************************************************)
EXTENDS Expressions

(* The precedences of C, the tightest first *)
Rank(op) ==
  CASE op \in {"*", "/", "%"} -> 1
    [] op \in {"+", "-"} -> 2
    [] op \in {"<<", ">>"} -> 3
    [] op \in {"<", "<=", ">", ">="} -> 4
    [] op \in {"==", "!="} -> 5
    [] op = "&" -> 6
    [] op = "^" -> 7
    [] op = "|" -> 8
    [] op = "&&" -> 9
    [] op = "||" -> 10

Infixes == UNION Range(Level)
Opening == {"(", "[", "{"}
Closing == {")", "]", "}"}

-------------------------------------------------------------------------------
(* The tree of the tokens lo .. hi *)

Count(S, lo, hi) == Cardinality({i \in lo .. hi : tokens[i] \in S})

(* The tokens of S in lo .. hi that are inside of no bracket of it *)
At(S, lo, hi) ==
  {i \in lo .. hi : tokens[i] \in S /\ Count(Opening, lo, i - 1) = Count(Closing, lo, i - 1)}

(* The colons of lo .. hi that are not of a "?" in it *)
OwnColons(lo, hi) ==
  {i \in At({":"}, lo, hi) : Cardinality(At({":"}, lo, i)) > Cardinality(At({"?"}, lo, i))}

(* The operators between two operands *)
Between(lo, hi) ==
  {i \in At(Infixes, lo, hi) : i > lo /\ tokens[i - 1] \in Names \cup Literals \cup Closing}

RECURSIVE Group(_, _)

(* What is between the commas of lo .. hi, as pairs of a first and a last place *)
Ranges(lo, hi) ==
  LET cuts == SetToSortSeq(At({","}, lo, hi) \cup {lo - 1, hi + 1}, <) IN
  IF lo > hi THEN <<>> ELSE [k \in 1 .. Len(cuts) - 1 |-> <<cuts[k] + 1, cuts[k + 1] - 1>>]

Each(lo, hi) == LET r == Ranges(lo, hi) IN [k \in DOMAIN r |-> Group(r[k][1], r[k][2])]

(* key: value, key: value, ... *)
Pairs(lo, hi) ==
  FoldLeft(LAMBDA sofar, r : LET c == Min(OwnColons(r[1], r[2])) IN
                             sofar \o <<Group(r[1], c - 1), Group(c + 1, r[2])>>,
           <<>>, Ranges(lo, hi))

(* What ends with the bracket that begins at o *)
Bracketed(lo, o, hi) ==
  LET colons == OwnColons(o + 1, hi - 1) IN
  CASE tokens[o] = "(" /\ o = lo -> Group(lo + 1, hi - 1)
    [] tokens[o] = "[" /\ o = lo -> Node("list", o, Each(o + 1, hi - 1))
    [] tokens[o] = "{" /\ o = lo -> Node("map", o, Pairs(o + 1, hi - 1))
    [] tokens[o] = "{" /\ o > lo -> Node("struct", lo, Pairs(o + 1, hi - 1))
    [] tokens[o] = "[" /\ o > lo /\ colons = {} ->
         Node("index", o, <<Group(lo, o - 1), Group(o + 1, hi - 1)>>)
    [] tokens[o] = "[" /\ o > lo /\ colons # {} ->
         LET c == Min(colons) IN
         Node("slice", o, <<Group(lo, o - 1), Group(o + 1, c - 1), Group(c + 1, hi - 1)>>)
    [] tokens[o] = "(" /\ o = lo + 1 ->
         Node(IF tokens[lo] \in Names THEN "call" ELSE tokens[lo], lo, Each(o + 1, hi - 1))
    [] tokens[o] = "(" /\ o > lo + 1 ->
         Node("call", o - 1, <<Group(lo, o - 3)>> \o Each(o + 1, hi - 1))

(* The conditional binds least, to the right; then the infix operators, to  *)
(* the left; then the prefix operators.                                     *)
Group(lo, hi) ==
  LET questions == At({"?"}, lo, hi)
      infixes   == Between(lo, hi)
      loosest   == {i \in infixes : \A j \in infixes : Rank(tokens[j]) <= Rank(tokens[i])}
  IN
  CASE questions # {} ->
         LET q == Min(questions)
             c == Min(OwnColons(q + 1, hi))
         IN  Node("?", q, <<Group(lo, q - 1), Group(q + 1, c - 1), Group(c + 1, hi)>>)
    [] questions = {} /\ infixes # {} ->
         LET root == Max(loosest) IN Node(tokens[root], root, <<Group(lo, root - 1), Group(root + 1, hi)>>)
    [] questions \cup infixes = {} /\ tokens[lo] \in Unaries -> Node(tokens[lo], lo, <<Group(lo + 1, hi)>>)
    [] questions \cup infixes = {} /\ tokens[lo] \notin Unaries ->
         IF lo = hi THEN Leaf(lo)
         ELSE IF tokens[hi] \in Closing THEN Bracketed(lo, Max(At(Opening, lo, hi)), hi)
         ELSE IF lo = hi - 2 /\ tokens[lo] \in EnumNames THEN Node("member", lo, Leaf(hi))
         ELSE Node("field", hi, <<Group(lo, hi - 2)>>)

(* A statement of n tokens, the last one a semicolon *)
GroupStatement(n) ==
  LET signs == At({"="} \cup DOMAIN Compound \cup DOMAIN Steps, 1, n)
      at == Min(signs)
      target == Group(1, at - 1)
      Set(e) == Node("=", at, <<target, e>>)
  IN
  IF tokens[1] \in {"let", "fixed"} THEN Node(tokens[1], 1, <<Leaf(2), Group(4, n - 1)>>)
  ELSE IF tokens[1] \in {"return", "break", "continue"} THEN Node(tokens[1], 1, Each(2, n - 1))
  ELSE IF tokens[1] \in Keywords THEN Node(tokens[1], 1, Each(3, n - 2))
  ELSE IF signs = {} THEN Group(1, n - 1)
  ELSE IF tokens[at] = "=" THEN Set(Group(at + 1, n - 1))
  ELSE IF tokens[at] \in DOMAIN Steps
       THEN Set(Node(Steps[tokens[at]], at, <<target, Node("1", at, <<>>)>>))
  ELSE Set(Node(Compound[tokens[at]], at, <<target, Group(at + 1, n - 1)>>))

-------------------------------------------------------------------------------
(* What is wanted after a token, and what is open: brackets and             *)
(* conditionals, each named for how far it is.                              *)

Want(w, open) == [wants |-> w, open |-> open]
Refused == Want("refused", <<>>)
Ended   == Want("ended", <<>>)

(* What a name can be followed by, besides what any operand can *)
AfterName(name) ==
  IF name \in StructNames THEN "( or {" ELSE IF name \in EnumNames THEN "( or member" ELSE "("

(* What closes the innermost open thing, when it has all it needs, and when *)
(* nothing has come in it                                                   *)
Closes(open) ==
  CASE open \in {"group", "call", "last argument", "compose", "output", "change"} -> ")"
    [] open \in {"list", "index", "slice", "target"} -> "]"
    [] open \in {"value", "field value"} -> "}"
    [] OTHER -> "nothing"

ClosesEmpty == [call |-> ")", list |-> "]", key |-> "}", field |-> "}"]

(* An open thing, the token that takes it further, what it then is, and what *)
(* is wanted                                                                *)
Turns ==
  {<<"list", ",", "list", "operand">>, <<"call", ",", "call", "operand">>,
   <<"compose", ",", "compose", "operand">>,
   <<"first argument", ",", "last argument", "operand">>, <<"index", ":", "slice", "operand">>,
   <<"key", ":", "value", "operand">>, <<"value", ",", "key", "operand">>,
   <<"output", ",", "output", "operand">>,
   <<"field", ":", "field value", "operand">>, <<"field value", ",", "field", "field">>,
   <<"target", ":", "slice", "operand">>}

Operand(t, open) ==
  CASE t \in Literals -> Want("nothing", open)
    [] t \in Names -> Want(AfterName(t), open)
    [] t \in Unaries -> Want("operand", open)
    [] t = "(" -> Want("operand", Append(open, "group"))
    [] t = "[" -> Want("operand or end", Append(open, "list"))
    [] t = "{" -> Want("operand or end", Append(open, "key"))
    [] t \in DOMAIN Arity ->
         Want("arguments", Append(open, IF Arity[t] = 1 THEN "last argument" ELSE "first argument"))
    [] t = "compose" -> Want("arguments", Append(open, "compose"))
    [] OTHER -> Refused

(* After an operand *)
Further(wants, t, open) ==
  LET top  == IF open = <<>> THEN "nothing" ELSE Last(open)
      turn == {u \in Turns : u[1] = top /\ u[2] = t}
  IN
  CASE t \in Infixes -> Want("operand", open)
    [] t = "?" -> Want("operand", Append(open, "?"))
    [] t = ":" /\ top = "?" -> Want("operand", Front(open))
    [] turn # {} -> LET u == CHOOSE u \in turn : TRUE IN Want(u[4], Append(Front(open), u[3]))
    [] t = Closes(top) ->
         Want(CASE top = "target" -> "end of target"
                [] top \in {"output", "change"} -> ";"
                [] OTHER -> "nothing", Front(open))
    [] t = "[" -> Want("operand", Append(open, "index"))
    [] t = "." -> Want(IF wants = "( or member" THEN "member" ELSE "name", open)
    [] t = "(" /\ wants \in {"(", "( or {", "( or member"} -> Want("operand or end", Append(open, "call"))
    [] t = "{" /\ wants = "( or {" -> Want("field or end", Append(open, "field"))
    [] t = ";" /\ open = <<>> -> Ended
    [] OTHER -> Refused

(* The first token of a statement *)
First(t) ==
  CASE t \in {"let", "fixed"} -> Want("variable", <<>>)
    [] t \in {"output"} \cup DOMAIN Changes -> Want("arguments", <<t>>)
    [] t = "return" -> Want("operand or ;", <<>>)
    [] t \in {"break", "continue"} -> Want(";", <<>>)
    [] OTHER -> Operand(t, <<>>)

(* The second token of a statement that begins with a name: after "." and   *)
(* "[" it may be the target of an assignment.                              *)
Second(t) ==
  CASE t \in {"="} \cup DOMAIN Compound -> Want("operand", <<>>)
    [] t \in DOMAIN Steps -> Want(";", <<>>)
    [] t = "." -> Want("part of path", <<>>)
    [] t = "[" -> Want("operand", <<"target">>)
    [] OTHER -> Further(AfterName(tokens[1]), t, <<>>)

(* After what can be the target of an assignment, a field or an element of  *)
(* a name, in i - 1 tokens                                                 *)
AfterTarget(wants, t, i) ==
  LET longer == t = "." /\ wants = "rest of path"
      member == i = 4 /\ tokens[1] \in EnumNames
  IN
  CASE longer -> Want("part of path", <<>>)
    [] t = "=" -> Want("operand", <<>>)
    [] ~longer /\ t # "=" -> Further(IF wants = "rest of path" /\ ~member THEN "(" ELSE "nothing", t, <<>>)

(* After the bracket that a keyword wants *)
Arguments(open) ==
  CASE Last(open) = "compose" -> Want("template", open)
    [] Last(open) \in DOMAIN Changes -> Want("list", open)
    [] OTHER -> Want("operand", open)

ReadToken(r, i) ==
  LET t      == tokens[i]
      w      == r.wants
      second == i = 2 /\ tokens[1] \in Names
      empty  == w \in {"operand or end", "field or end"} /\ t = ClosesEmpty[Last(r.open)]
  IN
  CASE i = 1 -> First(t)
    [] second -> Second(t)
    [] ~second /\ w \in {"nothing", "(", "( or {", "( or member"} -> Further(w, t, r.open)
    [] empty -> Want("nothing", Front(r.open))
    [] w \in {"operand", "operand or end"} /\ ~empty -> Operand(t, r.open)
    [] w \in {"field", "field or end"} /\ t \in Names -> Want(":", r.open)
    [] w = ":" /\ t = ":" -> Further(w, t, r.open)
    [] w = "arguments" /\ t = "(" -> Arguments(r.open)
    [] w = "template" /\ t \in Strings -> Want("more", r.open)
    [] w = "list" /\ t \in Names -> Want(IF Changes[Last(r.open)] = 1 THEN "," ELSE ")", <<"change">>)
    [] w = "," /\ t = "," -> Want("operand", r.open)
    [] w = ")" /\ t = ")" -> Want(";", <<>>)
    [] w = "variable" /\ t \in Names -> Want("=", <<>>)
    [] w = "operand or ;" -> IF t = ";" THEN Ended ELSE Operand(t, r.open)
    [] w = "more" /\ t \in {",", ")"} -> Further(w, t, r.open)
    [] w = "name" /\ t \in Names -> Want("(", r.open)
    [] w = "member" /\ t \in Names -> Want("nothing", r.open)
    [] w = "part of path" /\ t \in Names -> Want("rest of path", <<>>)
    [] w \in {"rest of path", "end of target"} -> AfterTarget(w, t, i)
    [] w = "=" /\ t = "=" -> Want("operand", <<>>)
    [] w = ";" /\ t = ";" -> Ended
    [] OTHER -> Refused

(* What the first n tokens leave to be wanted *)
Reading(n) == FoldLeft(ReadToken, Want("operand", <<>>), [i \in 1 .. n |-> i])

(* The first n tokens begin with what can be the target of an assignment,   *)
(* and go on with what makes it something else: a call, an operator, a     *)
(* slice, another bracket or the end of the statement.                     *)
Strays(n) ==
  /\ n > 2 /\ tokens[1] \in Names /\ tokens[2] \in {".", "["}
  /\ \E i \in 3 .. n :
       LET r == Reading(i - 1) IN
       \/ r.wants = "rest of path" /\ tokens[i] \notin {".", "="}
       \/ r.wants = "end of target" /\ tokens[i] # "="
       \/ r.open = <<"target">> /\ tokens[i] = ":"

-------------------------------------------------------------------------------
(* Properties *)

(* The tree of a statement that parses is the one that C's precedences give *)
(* its tokens: the functions of parser.c call each other in that order,     *)
(* their loops bind to the left and parse_ternary to the right, signs bind  *)
(* to what follows them, fields, elements and calls to what precedes them,  *)
(* and the value of a compound assignment is one operand.                   *)
GroupsAsC ==
  LET s == Statement IN s.ok => s.tree = GroupStatement(Len(tokens))

(* The parser takes what reads as a statement, and nothing else; when it    *)
(* stops, diag has the first token with which what is before it cannot go   *)
(* on, however far ahead parse_primary and parse_statement have looked.     *)
(* There is one exception, against README.md: a call, or another statement, *)
(* that begins with a field or an element of a name is not taken, and diag *)
(* has the token at which it is seen not to be an assignment.              *)
StopsWhereItMust ==
  LET s == Statement
      GoesOn(n) == Reading(n) # Refused /\ ~Strays(n)
  IN
  /\ s.ok <=> Reading(Len(tokens)) = Ended /\ ~Strays(Len(tokens))
  /\ ~s.ok => /\ GoesOn(s.at - 1)
              /\ s.at <= Len(tokens) => ~GoesOn(s.at)
================================================================================
