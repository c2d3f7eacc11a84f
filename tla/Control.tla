--------------------------------- MODULE Control -------------------------------
(***************************************************************************)
(* The flow of control in one function.  parser.c replaces for-in and      *)
(* branch by the loops, ifs and hidden variables they stand for, sema.c    *)
(* counts the loops around break and continue, and codegen.c writes the C. *)
(*                                                                         *)
(* When sema has accepted the function, two machines execute it.  The C    *)
(* machine runs what the parser made of it, with the hidden variables; the *)
(* other one runs the program as it is written, with for-in and branch as  *)
(* statements of their own.  What an execution shows is its events: the    *)
(* statements executed, and the conditions, sources, elements, subjects    *)
(* and case values evaluated, with what they give.  The C machine takes a  *)
(* step, which may owe an event; then the source machine must be able to   *)
(* do the same.                                                            *)
(***************************************************************************)
EXTENDS Integers, SequencesExt

CONSTANTS
  Bodies,      \* the function bodies, as they are written
  MaxLen,      \* the longest list a for-in goes through
  Values,      \* the values of branch subjects and of case values
  Rule         \* "none": any program; "returns": a function with a value ends in a return

VARIABLES
  body,        \* the function's body, as it is written
  returns,     \* "status" (main), "nothing" or "value"
  phase,       \* "check": sema goes through the body; "rejected"; "run"
  walk,        \* what sema has still to check, the first first
  loopDepth,   \* sm->loop_depth
  c,           \* what the C machine has still to execute, the first first
  hidden,      \* the C variables the parser introduced: <<name, node>> -> number
  source,      \* what the source machine has still to execute
  owed         \* the event of the C machine that the source machine has to match, or Silent

vars == <<body, returns, phase, walk, loopDepth, c, hidden, source, owed>>

-------------------------------------------------------------------------------
(* A body is the table of its statements in the order in which the parser   *)
(* is done with them, so that the blocks of a statement, which are          *)
(* sequences of places in the table, have places before its own.  The last  *)
(* statement is the block of the function.  if has two blocks, then and     *)
(* else; branch has one for each case, with sizes[i] values in its i-th     *)
(* case, and one for else.                                                  *)

Kinds == {"do", "break", "continue", "return", "block", "if", "while", "for", "for-in", "branch"}
Loops == {"while", "for", "for-in"}

Statement == [kind : Kinds, blocks : Seq(Seq(Nat)), sizes : Seq(Nat \ {0}), gives : BOOLEAN]

BlocksOf(s) ==
  CASE s.kind \in Loops \cup {"block"} -> 1
    [] s.kind = "if" -> 2
    [] s.kind = "branch" -> Len(s.sizes) + 1
    [] OTHER -> 0

WellFormed(b) ==
  /\ b # <<>> /\ b[Len(b)].kind = "block"
  /\ \A n \in 1 .. Len(b) :
       /\ Len(b[n].blocks) = BlocksOf(b[n])
       /\ \A i \in 1 .. Len(b[n].blocks) : \A p \in 1 .. Len(b[n].blocks[i]) :
            b[n].blocks[i][p] \in 1 .. n - 1
       /\ b[n].kind = "branch" => b[n].sizes # <<>>

ASSUME ConstantsAssumption ==
  /\ Bodies \subseteq {b \in Seq(Statement) : WellFormed(b)}
  /\ MaxLen \in Nat /\ Values \subseteq Int
  /\ Rule \in {"none", "returns"}

-------------------------------------------------------------------------------
(* The parser.  What is to be checked or executed is a sequence of frames:  *)
(* a statement of the body, a statement the parser makes for one, or a loop *)
(* that is about to test its condition or has its body before it; of is     *)
(* the place in the body.                                                   *)

Frame(part, n, at) == [part |-> part, of |-> n, at |-> at]
Part(part, n) == Frame(part, n, <<>>)

Block(b, n, i) == [p \in 1 .. Len(b[n].blocks[i]) |-> Part("statement", b[n].blocks[i][p])]

Kind(b, s) == IF s.part = "statement" THEN b[s.of].kind ELSE s.part

(* { let src = ...; for (let idx = 0; idx < len(src); idx = idx + 1) ... }  *)
ParseForIn(n) == <<Part("let_src", n), Part("for", n)>>

(* Mutant: the index is advanced at the end of the body, which continue skips. *)
ForInLoopLate(b, n) ==
  [init |-> <<Part("let_idx", n)>>, step |-> <<>>,
   body |-> <<Part("let_element", n)>> \o Block(b, n, 1) \o <<Part("next_idx", n)>>]

ForInLoop(b, n) ==
  [init |-> <<Part("let_idx", n)>>, step |-> <<Part("next_idx", n)>>,
   body |-> <<Part("let_element", n)>> \o Block(b, n, 1)]

(* The parts of the for statement, or of while. *)
LoopOf(b, n) ==
  CASE b[n].kind = "for-in" -> ForInLoop(b, n)
    [] b[n].kind = "for" -> [init |-> <<Part("init", n)>>, step |-> <<Part("step", n)>>, body |-> Block(b, n, 1)]
    [] OTHER -> [init |-> <<>>, step |-> <<>>, body |-> Block(b, n, 1)]

(* { let val = subject; if (val == v1 || val == v2 || ...) ... else if ... }. *)
(* The if of case i is about to compare its j-th value.                     *)
Case(n, i, j) == Frame("case", n, <<i, j>>)
ParseBranch(n) == <<Part("let_val", n), Case(n, 1, 1)>>

(* Mutant: only the first value of a case is compared. *)
CaseElseFirst(b, n, i, j) ==
  IF i < Len(b[n].sizes) THEN <<Case(n, i + 1, 1)>> ELSE Block(b, n, i + 1)

(* What follows when the j-th value of case i is not equal. *)
CaseElse(b, n, i, j) ==
  IF j < b[n].sizes[i] THEN <<Case(n, i, j + 1)>>
  ELSE IF i < Len(b[n].sizes) THEN <<Case(n, i + 1, 1)>>
  ELSE Block(b, n, i + 1)

-------------------------------------------------------------------------------
(* sema's checks of break, continue and return *)

(* Mutant: the depth is not decremented after a loop. *)
LeaveLoopNot(d) == d

LeaveLoop(d) == d - 1

CheckReturn(s) == s.gives <=> returns = "value"

(* What check_stmt goes into; the conditions and the statements of a loop's *)
(* header, lets and assignments, are not about control.                     *)
Inside(b, s) ==
  LET n == s.of IN
  CASE Kind(b, s) = "block"  -> Block(b, n, 1)
    [] Kind(b, s) = "if"     -> Block(b, n, 1) \o Block(b, n, 2)
    [] Kind(b, s) = "for-in" -> ParseForIn(n)
    [] Kind(b, s) = "branch" -> ParseBranch(n)
    [] Kind(b, s) = "case"   -> Block(b, n, s.at[1]) \o CaseElse(b, n, s.at[1], b[n].sizes[s.at[1]])
    [] Kind(b, s) \in {"while", "for"} -> LoopOf(b, n).body \o <<Part("loop_depth--", n)>>
    [] OTHER -> <<>>

CheckStmt ==
  LET s == Head(walk)
      kind == Kind(body, s)
  IN  /\ phase = "check" /\ walk # <<>>
      /\ IF \/ kind \in {"break", "continue"} /\ loopDepth = 0
            \/ kind = "return" /\ ~CheckReturn(body[s.of])
         THEN phase' = "rejected" /\ UNCHANGED <<walk, loopDepth>>
         ELSE /\ walk' = Inside(body, s) \o Tail(walk)
              /\ loopDepth' = IF kind \in {"while", "for"} THEN loopDepth + 1
                              ELSE IF kind = "loop_depth--" THEN LeaveLoop(loopDepth) ELSE loopDepth
              /\ phase' = phase
      /\ UNCHANGED <<body, returns, c, hidden, source, owed>>

Accept ==
  /\ phase = "check" /\ walk = <<>>
  /\ phase' = "run"
  /\ UNCHANGED <<body, returns, walk, loopDepth, c, hidden, source, owed>>

(* A rule sema has not: a function with a value ends in a return, or in a   *)
(* block, an if or a branch that does in every arm.                         *)
Returning(b, R) ==
  \A n \in R : \/ b[n].kind = "return"
               \/ /\ b[n].kind \in {"block", "if", "branch"}
                  /\ \A i \in 1 .. Len(b[n].blocks) :
                       b[n].blocks[i] # <<>> /\ b[n].blocks[i][Len(b[n].blocks[i])] \in R

EndsInReturn(b) ==
  \E R \in SUBSET {n \in 1 .. Len(b) : b[n].kind \in {"return", "block", "if", "branch"}} :
    Len(b) \in R /\ Returning(b, R)

-------------------------------------------------------------------------------
(* What the two machines share.  A move is an event, what is then to be     *)
(* executed, and the hidden variables.                                      *)

Silent == <<>>
Ended == <<Part("ended", 0)>>
Move(event, rest, store) == [event |-> event, rest |-> rest, store |-> store]

(* Where break and continue find the innermost loop. *)
Innermost(k) == SelectInSeq(k, LAMBDA s : s.part = "turn")

(* How a return, or the end of the body, leaves the function in C: main is  *)
(* an int function, for which return; is written as return 0;               *)
Leaves(gives, r) == IF gives THEN "value" ELSE IF r = "status" THEN "status" ELSE "nothing"

(* Mutant: idx <= len(src). *)
InListFar(n, store) == store[<<"idx", n>>] <= store[<<"src", n>>]

InList(n, store) == store[<<"idx", n>>] < store[<<"src", n>>]

(* The ways a condition can go, 1 if it holds and 2 if not, and what        *)
(* evaluating it shows.                                                     *)
Tests(b, n, store) ==
  IF b[n].kind = "for-in" THEN {[event |-> Silent, way |-> IF InList(n, store) THEN 1 ELSE 2]}
  ELSE {[event |-> <<"test", n, w>>, way |-> w] : w \in {1, 2}}

CoreMoves(b, s, k, store, r) ==
  LET n == s.of
      kind == Kind(b, s)
  IN  CASE kind = "do"    -> {Move(<<"do", n>>, k, store)}
        [] kind \in {"init", "step"} -> {Move(<<kind, n>>, k, store)}
        [] kind = "block" -> {Move(Silent, Block(b, n, 1) \o k, store)}
        [] kind = "if"    -> {Move(t.event, Block(b, n, t.way) \o k, store) : t \in Tests(b, n, store)}
        [] kind \in {"while", "for"} -> {Move(Silent, LoopOf(b, n).init \o <<Part("test", n)>> \o k, store)}
        [] kind = "test"  ->
             {Move(t.event, (IF t.way = 1 THEN LoopOf(b, n).body \o <<Part("turn", n)>> ELSE <<>>) \o k, store) :
                t \in Tests(b, n, store)}
        [] kind = "turn"  -> {Move(Silent, LoopOf(b, n).step \o <<Part("test", n)>> \o k, store)}
        [] kind = "break"    -> {Move(Silent, SubSeq(k, Innermost(k) + 1, Len(k)), store)}
        [] kind = "continue" -> {Move(Silent, SubSeq(k, Innermost(k), Len(k)), store)}
        [] kind = "return"   -> {Move(<<"end", Leaves(b[n].gives, r)>>, Ended, store)}
        [] OTHER -> {}

-------------------------------------------------------------------------------
(* The C machine *)

Set(store, name, n, x) ==
  [v \in DOMAIN store \cup {<<name, n>>} |-> IF v = <<name, n>> THEN x ELSE store[v]]

(* The function's text: for main, codegen adds return 0; at its end. *)
Text(b, r) ==
  <<Part("statement", Len(b))>> \o (IF r = "status" THEN <<Part("return_0", 0)>> ELSE <<>>)

(* What the parser made of for-in and branch *)
HiddenMoves(b, s, k, store, r) ==
  LET n == s.of
      kind == Kind(b, s)
      idx == store[<<"idx", n>>]
  IN  CASE kind = "for-in" -> {Move(Silent, ParseForIn(n) \o k, store)}
        [] kind = "let_src" -> {Move(<<"source", n, x>>, k, Set(store, "src", n, x)) : x \in 0 .. MaxLen}
        [] kind = "let_idx" -> {Move(Silent, k, Set(store, "idx", n, 0))}
        [] kind = "next_idx" -> {Move(Silent, k, Set(store, "idx", n, idx + 1))}
        [] kind = "let_element" -> {Move(<<"element", n, idx>>, k, store)}
        [] kind = "branch" -> {Move(Silent, ParseBranch(n) \o k, store)}
        [] kind = "let_val" -> {Move(<<"subject", n, x>>, k, Set(store, "val", n, x)) : x \in Values}
        [] kind = "case" ->
             {Move(<<"case", n, s.at, x>>,
                   (IF x = store[<<"val", n>>] THEN Block(b, n, s.at[1])
                    ELSE CaseElse(b, n, s.at[1], s.at[2])) \o k, store) : x \in Values}
        [] kind = "return_0" -> {Move(<<"end", "status">>, Ended, store)}
        [] OTHER -> CoreMoves(b, s, k, store, r)

CMoves(b, cc, store, r) ==
  IF cc = <<>> THEN {Move(<<"end", "nothing">>, Ended, store)}
  ELSE HiddenMoves(b, Head(cc), Tail(cc), store, r)

CStep ==
  /\ phase = "run" /\ owed = Silent
  /\ \E m \in CMoves(body, c, hidden, returns) : c' = m.rest /\ hidden' = m.store /\ owed' = m.event
  /\ UNCHANGED <<body, returns, phase, walk, loopDepth, source>>

-------------------------------------------------------------------------------
(* The source machine *)

(* for-in evaluates its source, and then goes through the elements there    *)
(* were: at element number i of n.                                          *)
Turns(n, i, len) == Frame("turn", n, <<i, len>>)

(* branch evaluates its subject, x, and compares it with the values of the  *)
(* cases, in their order, until one is equal.                               *)
Compare(n, x, i, j) == Frame("compare", n, <<x, i, j>>)

Unequal(b, n, x, i, j) ==
  IF j < b[n].sizes[i] THEN <<Compare(n, x, i, j + 1)>>
  ELSE IF i < Len(b[n].sizes) THEN <<Compare(n, x, i + 1, 1)>>
  ELSE Block(b, n, i + 1)

SourceMoves(b, ss, r) ==
  IF ss = <<>> THEN {Move(<<"end", Leaves(FALSE, r)>>, Ended, <<>>)} ELSE
  LET s == Head(ss)
      k == Tail(ss)
      n == s.of
      kind == Kind(b, s)
  IN  CASE kind = "for-in" -> {Move(<<"source", n, x>>, <<Turns(n, 0, x)>> \o k, <<>>) : x \in 0 .. MaxLen}
        [] kind = "turn" /\ s.at # <<>> ->
             {IF s.at[1] = s.at[2] THEN Move(Silent, k, <<>>)
              ELSE Move(<<"element", n, s.at[1]>>,
                        Block(b, n, 1) \o <<Turns(n, s.at[1] + 1, s.at[2])>> \o k, <<>>)}
        [] kind = "branch" -> {Move(<<"subject", n, x>>, <<Compare(n, x, 1, 1)>> \o k, <<>>) : x \in Values}
        [] kind = "compare" ->
             {Move(<<"case", n, <<s.at[2], s.at[3]>>, x>>,
                   (IF x = s.at[1] THEN Block(b, n, s.at[2])
                    ELSE Unequal(b, n, s.at[1], s.at[2], s.at[3])) \o k, <<>>) : x \in Values}
        [] OTHER -> CoreMoves(b, s, k, <<>>, r)

Follow ==
  /\ owed # Silent
  /\ \E m \in SourceMoves(body, source, returns) :
       /\ m.event \in {Silent, owed}
       /\ source' = m.rest
       /\ owed' = IF m.event = owed THEN Silent ELSE owed
  /\ UNCHANGED <<body, returns, phase, walk, loopDepth, c, hidden>>

-------------------------------------------------------------------------------

Init ==
  /\ body \in Bodies /\ returns \in {"status", "nothing", "value"}
  /\ Rule = "returns" /\ returns = "value" => EndsInReturn(body)
  /\ phase = "check" /\ walk = <<Part("statement", Len(body))>> /\ loopDepth = 0
  /\ c = Text(body, returns) /\ hidden = <<>>
  /\ source = <<Part("statement", Len(body))>> /\ owed = Silent

Next == CheckStmt \/ Accept \/ CStep \/ Follow

Spec == Init /\ [][Next]_vars

(* The compiler, gcc's code and the program's own steps do not stop by themselves. *)
FairSpec == Spec /\ WF_vars(Next)

-------------------------------------------------------------------------------
(* Properties *)

(* The hidden variables keep to their ranges, and an element is taken only  *)
(* at an index of the list: the bounds check of a for-in's own text never   *)
(* fails.                                                                   *)
TypeOK ==
  /\ returns \in {"status", "nothing", "value"}
  /\ phase \in {"check", "rejected", "run"} /\ loopDepth \in Nat
  /\ \A v \in DOMAIN hidden :
       /\ v[1] \in {"src", "idx", "val"}
       /\ v[1] # "val" => hidden[v] \in 0 .. MaxLen
       /\ v[1] = "val" => hidden[v] \in Values
  /\ c # <<>> /\ Head(c).part = "let_element" =>
       hidden[<<"idx", Head(c).of>>] < hidden[<<"src", Head(c).of>>]

(* Whatever the C does, the program as it is written does: the for-in that  *)
(* parse_foreach takes apart goes through the elements in order, once each, *)
(* also when its body breaks, continues or returns, and the branch that     *)
(* parse_branch takes apart evaluates its subject once, the case values in  *)
(* their order up to the one that is equal, and only that case.             *)
SameEvents ==
  owed # Silent => \E m \in SourceMoves(body, source, returns) : m.event \in {Silent, owed}

(* gcc refuses a break or continue outside of a loop; sema has to find it,  *)
(* by a count of the loops it is in (sm->loop_depth).                       *)
JumpsHaveLoops ==
  phase = "run" /\ c # <<>> /\ Kind(body, Head(c)) \in {"break", "continue"} => Innermost(Tail(c)) > 0

(* A function ends as it is declared: main with its status, which C needs   *)
(* though the program's main returns nothing, and a function with a value   *)
(* with one.                                                                *)
EndsAsDeclared ==
  owed # Silent /\ owed[1] = "end" => owed[2] = returns

(* What sema checks of jumps and returns is enough for the C, under the     *)
(* rule that a function with a value ends in a return.                      *)
SemaSuffices == JumpsHaveLoops /\ EndsAsDeclared

(* A function without while and for ends: for-in takes each element once.   *)
OnlyForIns(b) == \A n \in 1 .. Len(b) : b[n].kind \notin {"while", "for"}

ForInEnds == OnlyForIns(body) => <>(phase = "rejected" \/ c = Ended)
================================================================================
