-------------------------------- MODULE Scopes ---------------------------------
(***************************************************************************)
(* Names, twice: sema.c resolves every name of a program in its own scopes *)
(* (globals, parameters, blocks) and codegen.c writes the name as it is    *)
(* into C, where gcc resolves it again in the scopes of C.  The module     *)
(* goes through a program statement by statement, as check_stmt and        *)
(* emit_stmt do, and keeps both; it is the program that is chosen freely.  *)
(*                                                                         *)
(* A declaration is a number, a scope a function from names to the         *)
(* declaration they have there, 0 for none.                                *)
(***************************************************************************)
EXTENDS Integers, Sequences

CONSTANTS
  Names,      \* the identifiers of programs
  Library,    \* those that C knows already: printf, fy_concat, fy_f, ...
  None,       \* no name
  MaxDecls,   \* bound on the declarations of a program
  MaxDepth,   \* bound on its nesting
  Rules       \* what programs keep to and sema does not ask for, some of
              \*   "library"    no variable has the name of a C one,
              \*   "self"       none is in its own initializer,
              \*   "parameter"  none of a function's block, and no second
              \*                parameter, has the name of a parameter

VARIABLES
  sema,       \* the scopes of sema.c, innermost last
  c,          \* the scopes of the C text
  blocks,     \* what is open: "globals" at first, "function", "block", "for", "foreach"
  decls,      \* the declarations so far
  fixed,      \* those made with `fixed`
  bindings,   \* <<what sema found, what C finds>> for each name of the last step
  target,     \* the C declaration the last step assigns to, 0 for none
  verdict     \* "accepted" so far, "rejected" by sema, "gcc error"

vars == <<sema, c, blocks, decls, fixed, bindings, target, verdict>>

Lib == -1
NoScope == [x \in Names |-> 0]

ASSUME ScopesAssumption ==
  /\ Library \subseteq Names /\ None \notin Names
  /\ MaxDecls \in Nat /\ MaxDepth \in Nat
  /\ Rules \subseteq {"library", "self", "parameter"}

-------------------------------------------------------------------------------
(* scope_find, and C's own rule: the innermost scope that has the name *)
Lookup(scopes, x) ==
  LET with == {i \in 1 .. Len(scopes) : scopes[i][x] # 0}
  IN IF with = {} THEN 0 ELSE scopes[CHOOSE i \in with : \A j \in with : j <= i][x]

(* Mutant: the search goes from the outermost scope in. *)
SemaOutermost(x) ==
  LET with == {i \in 1 .. Len(sema) : sema[i][x] # 0}
  IN IF with = {} THEN 0 ELSE sema[CHOOSE i \in with : \A j \in with : i <= j][x]

SemaFind(x) == Lookup(sema, x)

Top(scopes) == scopes[Len(scopes)]
Declare(scopes, x, d) == [scopes EXCEPT ![Len(scopes)][x] = d]
Pop(scopes, n) == SubSeq(scopes, 1, Len(scopes) - n)

Accepted == verdict = "accepted"
InFunction == blocks \notin {<<>>, <<"globals">>}

Reject ==
  /\ verdict' = "rejected"
  /\ bindings' = {} /\ target' = 0
  /\ UNCHANGED <<sema, c, decls, fixed>>

(* An expression with the name y, or with none. *)
Known(y) == y = None \/ SemaFind(y) # 0
Binding(scopes, y) == IF y = None THEN {} ELSE {<<SemaFind(y), Lookup(scopes, y)>>}

NotLibrary(x) == "library" \in Rules => x \notin Library
NotSelf(x, y) == "self" \in Rules => x # y
NotParameter(x) == "parameter" \in Rules /\ blocks = <<"function">> => sema[2][x] = 0

-------------------------------------------------------------------------------
Init ==
  /\ sema = <<NoScope>>
  /\ c = <<[x \in Names |-> IF x \in Library THEN Lib ELSE 0]>>
  /\ blocks = <<"globals">>
  /\ decls = 0 /\ fixed = {}
  /\ bindings = {} /\ target = 0
  /\ verdict = "accepted"

(* Mutant: a second declaration in the same scope is not refused. *)
DeclareAgain(s, t, x, y, isFixed, body) ==
  /\ decls < MaxDecls
  /\ IF ~Known(y) THEN Reject
     ELSE /\ sema' = Declare(s, x, decls + 1) \o body
          /\ c' = Declare(t, x, decls + 1) \o body
          /\ bindings' = Binding(Declare(t, x, decls + 1), y)
          /\ verdict' = IF Top(t)[x] # 0 THEN "gcc error" ELSE verdict
          /\ decls' = decls + 1
          /\ fixed' = IF isFixed THEN fixed \cup {decls + 1} ELSE fixed
          /\ target' = 0

(* The declaration of x in the innermost scopes of s and t: sema refuses a *)
(* second one in the same scope of its own, gcc in the same scope of C.    *)
(* The initializer is checked before x is declared, and in C it is in the  *)
(* scope of x.  The statement then opens the scopes of body.               *)
DeclareVar(s, t, x, y, isFixed, body) ==
  /\ decls < MaxDecls
  /\ IF ~Known(y) \/ Top(s)[x] # 0 THEN Reject
     ELSE /\ sema' = Declare(s, x, decls + 1) \o body
          /\ c' = Declare(t, x, decls + 1) \o body
          /\ bindings' = Binding(Declare(t, x, decls + 1), y)
          /\ verdict' = IF Top(t)[x] # 0 THEN "gcc error" ELSE verdict
          /\ decls' = decls + 1
          /\ fixed' = IF isFixed THEN fixed \cup {decls + 1} ELSE fixed
          /\ target' = 0

(* let x = y; or fixed x = y;  The globals come first, with literals.  *)
Let(x, y, isFixed) ==
  /\ Accepted /\ NotLibrary(x) /\ NotSelf(x, y) /\ NotParameter(x)
  /\ InFunction \/ (blocks = <<"globals">> /\ y = None)
  /\ DeclareVar(sema, c, x, y, isFixed, <<>>)
  /\ UNCHANGED blocks

(* Mutant: whether x is fixed is asked of the scope it is assigned in. *)
AssignInBlock(x, y) ==
  /\ Accepted /\ InFunction
  /\ IF SemaFind(x) = 0 \/ Top(sema)[x] \in fixed \/ ~Known(y) THEN Reject /\ UNCHANGED blocks
     ELSE /\ bindings' = Binding(c, x) \cup Binding(c, y)
          /\ target' = Lookup(c, x)
          /\ UNCHANGED <<sema, c, blocks, decls, fixed, verdict>>

(* x = y; and what the parser makes of x += y; and x++; *)
Assign(x, y) ==
  /\ Accepted /\ InFunction
  /\ IF SemaFind(x) = 0 \/ SemaFind(x) \in fixed \/ ~Known(y) THEN Reject /\ UNCHANGED blocks
     ELSE /\ bindings' = Binding(c, x) \cup Binding(c, y)
          /\ target' = Lookup(c, x)
          /\ UNCHANGED <<sema, c, blocks, decls, fixed, verdict>>

(* push(x, y), x[y] = y, x.f = y, sort(x), reverse(x) and remove(x, y)     *)
(* change the variable x and ask the same of it.                           *)
ChangeInPlace(x, y) == Assign(x, y)

(* An expression of which C makes a call of f: + on strings is fy_concat, *)
(* == is strcmp, output is printf, and g() is fy_g.                       *)
CallLibrary(f) ==
  /\ Accepted /\ InFunction
  /\ bindings' = {<<Lib, Lookup(c, f)>>}
  /\ target' = 0
  /\ UNCHANGED <<sema, c, blocks, decls, fixed, verdict>>

(* fr f(p, q) {: sema has a scope for the parameters and one for the       *)
(* block; in C they are one.  Parameters are not compared with each other. *)
Function(p, q) ==
  LET n == IF p = None THEN 0 ELSE IF q = None THEN 1 ELSE 2
      params == [x \in Names |-> IF x = p THEN decls + 1 ELSE IF x = q THEN decls + 2 ELSE 0]
  IN
  /\ Accepted /\ ~InFunction
  /\ p = None => q = None
  /\ decls + n <= MaxDecls
  /\ NotLibrary(p) /\ NotLibrary(q)
  /\ "parameter" \in Rules => p # q \/ p = None
  /\ sema' = sema \o <<params, NoScope>>
  /\ c' = Append(c, params)
  /\ blocks' = <<"function">>
  /\ decls' = decls + n
  /\ verdict' = IF p = q /\ p # None THEN "gcc error" ELSE verdict
  /\ bindings' = {} /\ target' = 0 /\ UNCHANGED fixed

(* {, or if (y) {, while (y) { and the arms of a branch over y *)
Block(y) ==
  /\ Accepted /\ InFunction /\ Len(blocks) < MaxDepth
  /\ IF ~Known(y) THEN Reject /\ UNCHANGED blocks
     ELSE /\ bindings' = Binding(c, y)
          /\ sema' = Append(sema, NoScope) /\ c' = Append(c, NoScope)
          /\ blocks' = Append(blocks, "block")
          /\ target' = 0 /\ UNCHANGED <<decls, fixed, verdict>>

(* for (let x = y; ...) {: a scope for x, and in it one for the block.     *)
(* (for (x = y; ...) { is Assign, Block and, at the end, Assign.)          *)
For(x, y) ==
  /\ Accepted /\ InFunction /\ Len(blocks) < MaxDepth
  /\ NotLibrary(x) /\ NotSelf(x, y)
  /\ DeclareVar(Append(sema, NoScope), Append(c, NoScope), x, y, FALSE, <<NoScope>>)
  /\ blocks' = IF verdict' = "rejected" THEN blocks ELSE Append(blocks, "for")

(* for (let x in y) {, as parse_foreach writes it: a block with the hidden *)
(* copy of y, a for with the hidden index, and x in the block of that.     *)
Foreach(x, y) ==
  /\ Accepted /\ InFunction /\ Len(blocks) < MaxDepth /\ decls < MaxDecls
  /\ NotLibrary(x)
  /\ IF ~Known(y) THEN Reject /\ UNCHANGED blocks
     ELSE /\ bindings' = Binding(c, y)
          /\ sema' = Declare(sema \o <<NoScope, NoScope, NoScope>>, x, decls + 1)
          /\ c' = Declare(c \o <<NoScope, NoScope, NoScope>>, x, decls + 1)
          /\ blocks' = Append(blocks, "foreach")
          /\ decls' = decls + 1
          /\ target' = 0 /\ UNCHANGED <<fixed, verdict>>

(* } of a for: its step, z = ... or z++, is checked outside the block. *)
CloseFor(z) ==
  LET found == Lookup(Pop(sema, 1), z) IN
  /\ Accepted /\ InFunction /\ Top(blocks) = "for"
  /\ IF found = 0 \/ found \in fixed THEN Reject /\ UNCHANGED blocks
     ELSE /\ target' = Lookup(Pop(c, 1), z)
          /\ bindings' = {<<found, target'>>}
          /\ sema' = Pop(sema, 2) /\ c' = Pop(c, 2)
          /\ blocks' = Pop(blocks, 1)
          /\ UNCHANGED <<decls, fixed, verdict>>

(* Mutant: the scope of the parameters is left open. *)
CloseBody ==
  LET b == Top(blocks)
      n == IF b = "foreach" THEN 3 ELSE 1
  IN
  /\ Accepted /\ InFunction /\ b # "for"
  /\ sema' = Pop(sema, n) /\ c' = Pop(c, n)
  /\ blocks' = Pop(blocks, 1)
  /\ bindings' = {} /\ target' = 0
  /\ UNCHANGED <<decls, fixed, verdict>>

(* } of a block, of a for-in and of a function *)
Close ==
  LET b == Top(blocks) IN
  /\ Accepted /\ InFunction /\ b # "for"
  /\ sema' = Pop(sema, IF b = "foreach" THEN 3 ELSE IF b = "function" THEN 2 ELSE 1)
  /\ c' = Pop(c, IF b = "foreach" THEN 3 ELSE 1)
  /\ blocks' = Pop(blocks, 1)
  /\ bindings' = {} /\ target' = 0
  /\ UNCHANGED <<decls, fixed, verdict>>

Next ==
  \/ \E x \in Names, y \in Names \cup {None} :
       \/ \E isFixed \in BOOLEAN : Let(x, y, isFixed)
       \/ Assign(x, y) \/ ChangeInPlace(x, y) \/ For(x, y)
  \/ \E x, y \in Names : Foreach(x, y)
  \/ \E y \in Names \cup {None} : Block(y)
  \/ \E p, q \in Names \cup {None} : Function(p, q)
  \/ \E f \in Library : CallLibrary(f)
  \/ \E z \in Names : CloseFor(z)
  \/ Close

Spec == Init /\ [][Next]_vars

-------------------------------------------------------------------------------
(* Properties *)

Decl == 0 .. MaxDecls
Kinds == {"globals", "function", "block", "for", "foreach"}

(* The shape of the two sets of scopes, and how deep each is in what. *)
TypeOK ==
  /\ sema \in Seq([Names -> Decl])
  /\ c \in Seq([Names -> Decl \cup {Lib}])
  /\ blocks \in Seq(Kinds)
  /\ Len(sema) = IF InFunction THEN Len(c) + 1 ELSE 1
  /\ ~InFunction => Len(c) = 1
  /\ decls \in Decl /\ fixed \subseteq Decl
  /\ bindings \subseteq (Decl \cup {Lib}) \X (Decl \cup {Lib})
  /\ target \in Decl
  /\ verdict \in {"accepted", "rejected", "gcc error"}

(* A name means to gcc the variable whose type and fixedness sema checked, *)
(* and a call the function codegen.c had in mind.                          *)
SameBinding == \A b \in bindings : b[1] = b[2]

(* What sema.c accepts, gcc does not refuse for a name declared twice. *)
GccAccepts == verdict # "gcc error"

(* A variable made with fixed is not assigned to, whatever is declared     *)
(* with its name around it or inside: "the binding itself can never change *)
(* again".                                                                 *)
FixedKept == target \notin fixed
===============================================================================
