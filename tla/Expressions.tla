------------------------------- MODULE Expressions -----------------------------
(***************************************************************************)
(* The parser of expressions and of the statements made of them (parser.c) *)
(* without those made of statements, on tokens that come one at a time: as *)
(* many as the parser takes, and one that it stops at.  A function of parser.c that starts at *)
(* token i is an operator of i.  It gives a tree and the place after it,   *)
(* or the place of the first error, from which the parser does not go on.  *)
(*                                                                         *)
(* A node keeps the place of its operator, field, function's name or       *)
(* bracket.  Trees are compared with those of C's precedences, and the     *)
(* place of an error with that of an automaton that knows of no tree.      *)
(***************************************************************************)
EXTENDS Integers, SequencesExt

CONSTANTS
  Names,       \* the identifiers
  StructNames, EnumNames,  \* those of them that the prescan found to be types
  Literals,    \* the tokens of numbers, strings and truth values
  Strings,     \* those of them that are strings
  Tokens,      \* the tokens that may come
  Starts,      \* the sequences of tokens to begin with
  MaxTokens    \* bound on the number of tokens

VARIABLE tokens

ASSUME ConstantsAssumption ==
  /\ StructNames \subseteq Names /\ EnumNames \subseteq Names /\ Names \cap Literals = {}
  /\ Strings \subseteq Literals
  /\ MaxTokens \in Nat

(* cur(p), with TOK_EOF after the last token *)
Tk(i) == IF i <= Len(tokens) THEN tokens[i] ELSE "end"

Unaries == {"!", "-", "~"}

(* The operators of parse_factor, parse_term, ..., parse_or *)
Level == <<{"*", "/", "%"}, {"+", "-"}, {"<<", ">>"}, {"<", "<=", ">", ">="}, {"==", "!="},
           {"&"}, {"^"}, {"|"}, {"&&"}, {"||"}>>

(* Keywords with the form of a call, and the number of their arguments *)
Arity == [len |-> 1, keys |-> 1, contains |-> 2]

(* compound_assign_op *)
Compound ==
  "+=" :> "+" @@ "-=" :> "-" @@ "*=" :> "*" @@ "/=" :> "/" @@ "%=" :> "%" @@
  "&=" :> "&" @@ "|=" :> "|" @@ "^=" :> "^" @@ "<<=" :> "<<" @@ ">>=" :> ">>"
Steps == "++" :> "+" @@ "--" :> "-"

-------------------------------------------------------------------------------
(* Results *)

Node(is, at, of) == [is |-> is, at |-> at, of |-> of]
Leaf(i) == Node(Tk(i), i, <<>>)

Parsed(tree, i) == [ok |-> TRUE, tree |-> tree, at |-> i]
Error(i) == [ok |-> FALSE, at |-> i]

Then(r, Go(_, _)) == IF r.ok THEN Go(r.tree, r.at) ELSE r

(* expect *)
Expect(r, t) ==
  IF r.ok /\ Tk(r.at) = t THEN Parsed(r.tree, r.at + 1) ELSE Error(r.at)

Name(i) == IF Tk(i) \in Names THEN Parsed(Leaf(i), i + 1) ELSE Error(i)

-------------------------------------------------------------------------------
(* Expressions *)

RECURSIVE Expr(_), More(_, _), Exactly(_, _, _), Entries(_, _, _), Postfix(_, _), Unary(_),
          Binary(_, _), Rest(_, _, _)

(* Expressions with commas between them *)
More(sofar, i) ==
  Then(Expr(i), LAMBDA e, j :
    IF Tk(j) = "," THEN More(Append(sofar, e), j + 1) ELSE Parsed(Append(sofar, e), j))

(* Mutant: there has to be one. *)
UpToSome(close, i) == Expect(More(<<>>, i), close)

(* parse_call_args, and the elements of a list *)
UpTo(close, i) ==
  IF Tk(i) = close THEN Parsed(<<>>, i + 1) ELSE Expect(More(<<>>, i), close)

(* As many arguments as a keyword wants *)
Exactly(n, sofar, i) ==
  Then(Expr(i), LAMBDA e, j :
    IF n = 1 THEN Expect(Parsed(Append(sofar, e), j), ")")
    ELSE Then(Expect(Parsed(<<>>, j), ","), LAMBDA none, k : Exactly(n - 1, Append(sofar, e), k)))

(* The template of compose and what goes into it *)
Template(i) ==
  CASE Tk(i) \notin Strings -> Error(i)
    [] Tk(i) \in Strings /\ Tk(i + 1) = "," -> Expect(More(<<Leaf(i)>>, i + 2), ")")
    [] Tk(i) \in Strings /\ Tk(i + 1) # "," -> Expect(Parsed(<<Leaf(i)>>, i + 1), ")")

(* The fields of a struct literal, whose keys are names, or entries of a map *)
Entries(named, sofar, i) ==
  Then(Expect(IF named THEN Name(i) ELSE Expr(i), ":"), LAMBDA key, j :
    Then(Expr(j), LAMBDA value, k :
      LET all == sofar \o <<key, value>> IN
      IF Tk(k) = "," THEN Entries(named, all, k + 1) ELSE Expect(Parsed(all, k), "}")))

Braces(named, i) == IF Tk(i) = "}" THEN Parsed(<<>>, i + 1) ELSE Entries(named, <<>>, i)

(* What follows a name that is no variable by itself *)
Named(i) ==
  LET As(is, r) == Then(r, LAMBDA of, j : Parsed(Node(is, i, of), j)) IN
  CASE Tk(i + 1) = "(" -> As("call", UpTo(")", i + 2))
    [] Tk(i + 1) = "." /\ Tk(i) \in EnumNames -> As("member", Name(i + 2))
    [] Tk(i + 1) = "{" /\ Tk(i) \in StructNames -> As("struct", Braces(TRUE, i + 2))
    [] OTHER -> Parsed(Leaf(i), i + 1)

(* parse_primary *)
Primary(i) ==
  LET As(is, r) == Then(r, LAMBDA of, j : Parsed(Node(is, i, of), j)) IN
  CASE Tk(i) \in Literals -> Parsed(Leaf(i), i + 1)
    [] Tk(i) \in Names -> Named(i)
    [] Tk(i) = "(" -> Expect(Expr(i + 1), ")")
    [] Tk(i) = "[" -> As("list", UpTo("]", i + 1))
    [] Tk(i) = "{" -> As("map", Braces(FALSE, i + 1))
    [] Tk(i) \in DOMAIN Arity ->
         As(Tk(i), Then(Expect(Parsed(<<>>, i + 1), "("), LAMBDA none, j : Exactly(Arity[Tk(i)], <<>>, j)))
    [] Tk(i) = "compose" -> As("compose", Then(Expect(Parsed(<<>>, i + 1), "("), LAMBDA none, j : Template(j)))
    [] OTHER -> Error(i)

(* parse_postfix, after base *)
Postfix(base, i) ==
  CASE Tk(i) = "[" ->
         Then(Expr(i + 1), LAMBDA from, j :
           IF Tk(j) = ":"
           THEN Then(Expect(Expr(j + 1), "]"), LAMBDA to, k : Postfix(Node("slice", i, <<base, from, to>>), k))
           ELSE Then(Expect(Parsed(from, j), "]"), LAMBDA e, k : Postfix(Node("index", i, <<base, e>>), k)))
    [] Tk(i) = "." ->
         Then(Name(i + 1), LAMBDA field, j :
           IF Tk(j) = "("
           THEN Then(UpTo(")", j + 1), LAMBDA args, k : Postfix(Node("call", i + 1, <<base>> \o args), k))
           ELSE Postfix(Node("field", i + 1, <<base>>), j))
    [] OTHER -> Parsed(base, i)

Unary(i) ==
  IF Tk(i) \in Unaries
  THEN Then(Unary(i + 1), LAMBDA e, j : Parsed(Node(Tk(i), i, <<e>>), j))
  ELSE Then(Primary(i), Postfix)

(* parse_factor for l = 1, up to parse_or *)
Binary(l, i) == IF l = 0 THEN Unary(i) ELSE Then(Binary(l - 1, i), LAMBDA e, j : Rest(l, e, j))

(* Mutant: the right operand is parsed by the function itself. *)
RestRight(l, left, i) ==
  IF Tk(i) \in Level[l]
  THEN Then(Binary(l, i + 1), LAMBDA right, j : Parsed(Node(Tk(i), i, <<left, right>>), j))
  ELSE Parsed(left, i)

(* The loop in each of them *)
Rest(l, left, i) ==
  IF Tk(i) \in Level[l]
  THEN Then(Binary(l - 1, i + 1), LAMBDA right, j : Rest(l, Node(Tk(i), i, <<left, right>>), j))
  ELSE Parsed(left, i)

(* parse_expr, which is parse_ternary *)
Expr(i) ==
  Then(Binary(Len(Level), i), LAMBDA cond, q :
    IF Tk(q) # "?" THEN Parsed(cond, q)
    ELSE Then(Expect(Expr(q + 1), ":"), LAMBDA then, j :
           Then(Expr(j), LAMBDA else, k : Parsed(Node("?", q, <<cond, then, else>>), k))))

-------------------------------------------------------------------------------
(* Statements *)

(* As many expressions as a keyword wants after a list variable *)
Changes == [push |-> 1, remove |-> 1, sort |-> 0, reverse |-> 0]

(* Keywords that a statement begins with *)
Keywords == {"let", "fixed", "output", "return", "break", "continue"} \cup DOMAIN Changes

(* parse_let, after its keyword *)
Let ==
  Then(Expect(Name(2), "="), LAMBDA name, j :
    Then(Expect(Expr(j), ";"), LAMBDA e, k : Parsed(<<name, e>>, k)))

(* parse_output *)
Output == Expect(Expect(IF Tk(2) = "(" THEN More(<<>>, 3) ELSE Error(2), ")"), ";")

(* parse_push, parse_sort, parse_reverse, parse_remove *)
Change(n) ==
  Then(IF Tk(2) = "(" THEN Name(3) ELSE Error(2), LAMBDA name, j :
    IF n = 0 THEN Expect(Expect(Parsed(<<name>>, j), ")"), ";")
    ELSE Then(Expect(Parsed(<<>>, j), ","), LAMBDA none, k : Expect(Exactly(n, <<name>>, k), ";")))

(* parse_return *)
Return ==
  IF Tk(2) = ";" THEN Parsed(<<>>, 3)
  ELSE Then(Expect(Expr(2), ";"), LAMBDA e, j : Parsed(<<e>>, j))

Keyword ==
  LET As(r) == Then(r, LAMBDA of, j : Parsed(Node(Tk(1), 1, of), j)) IN
  CASE Tk(1) \in {"let", "fixed"} -> As(Let)
    [] Tk(1) = "output" -> As(Output)
    [] Tk(1) \in DOMAIN Changes -> As(Change(Changes[Tk(1)]))
    [] Tk(1) = "return" -> As(Return)
    [] Tk(1) \in {"break", "continue"} -> As(Expect(Parsed(<<>>, 2), ";"))

(* The rest of an assignment, from its value on *)
Value(target, op, at, i) ==
  Then(Expect(Expr(i), ";"), LAMBDA e, j :
    Parsed(Node("=", at, <<target, IF op = "=" THEN e ELSE Node(op, at, <<target, e>>)>>), j))

(* a.b.c = *)
RECURSIVE Path(_, _)
Path(base, i) ==
  Then(Name(i + 1), LAMBDA field, j :
    LET target == Node("field", i + 1, <<base>>) IN
    IF Tk(j) = "." THEN Path(target, j)
    ELSE Then(Expect(Parsed(target, j), "="), LAMBDA t, k : Value(t, "=", j, k)))

(* parse_statement *)
Statement ==
  CASE Tk(1) \in Keywords -> Keyword
    [] Tk(1) \in Names /\ Tk(2) \in {"="} \cup DOMAIN Compound ->
         Value(Leaf(1), IF Tk(2) = "=" THEN "=" ELSE Compound[Tk(2)], 2, 3)
    [] Tk(1) \in Names /\ Tk(2) \in DOMAIN Steps ->
         LET stepped == Node(Steps[Tk(2)], 2, <<Leaf(1), Node("1", 2, <<>>)>>) IN
         Expect(Parsed(Node("=", 2, <<Leaf(1), stepped>>), 3), ";")
    [] Tk(1) \in Names /\ Tk(2) = "." -> Path(Leaf(1), 2)
    [] Tk(1) \in Names /\ Tk(2) = "[" ->
         Then(Expect(Expr(3), "]"), LAMBDA e, j :
           Then(Expect(Parsed(Node("index", 2, <<Leaf(1), e>>), j), "="), LAMBDA t, k : Value(t, "=", j, k)))
    [] OTHER -> Expect(Expr(1), ";")

-------------------------------------------------------------------------------

(* A statement that begins with a brace is a block. *)
Init == tokens \in Starts

Next ==
  /\ Len(tokens) < MaxTokens
  /\ Statement = Error(Len(tokens) + 1)
  /\ \E t \in Tokens : (tokens = <<>> => t # "{") /\ tokens' = Append(tokens, t)

Spec == Init /\ [][Next]_tokens
================================================================================
