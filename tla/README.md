# Verification of Fractyne

TLA+ models of the Fractyne compiler (`src/src/*.c`) and of the runtime it
writes into every program it compiles, the TLC runs that check them, and TLAPS
proofs about all of them but the parser of
statements and expressions. Paths below are relative to the workspace: the
repository is `src/`, so `codegen.c` is `src/src/codegen.c` and the language
reference is `src/README.md`.

1. [The system](#the-system): components, state, interaction, what is hard
2. [Modules and the code they model](#modules-and-the-code-they-model)
3. [Runs](#runs): what each checks, its bounds, symmetry and fairness
4. [Where the code and its documents disagree](#where-the-code-and-its-documents-disagree)
5. [Proofs](#proofs)
6. [Not modelled](#not-modelled)
7. [Plan](#plan)

To repeat the checks, in this directory:

    tlc -workers 2 -config ListValues.cfg MCListRuntime.tla     # any run
    tlapm ListRuntimeProofs.tla                                 # any proof module

## The system

`fractyne build x.fy` and `fractyne run x.fy` are one sequential C program:

    main.c      load_program   involve.c   read, lex, follow involve, collect
                                           struct and enum names, parse all files
                               lexer.c, parser.c, ast.c, diag.c
                sema_check     sema.c      scopes, types, fixed, builtins.c
                codegen_emit   codegen.c   C text: list and map runtimes, structs,
                                           builtins, functions
                run_gcc        gcc         a binary
                run_binary                 (run) executes it, then cleans up

The phases hand each other one `Program` (`ast.h`), whose types are plain
integers: a few primitives and ranges for structs, lists of structs and enums,
in which the offset is the index of the declaration. Errors go into one `Diag`
that keeps the first one and makes every caller return. What remains after
compilation is the *generated program*: C text whose lists, maps, strings and
windows are implemented by helpers that `codegen.c` prints with it.

| Component | State | Operations | With whom | What is hard | What makes it correct |
| --- | --- | --- | --- | --- | --- |
| Loader (`involve.c`, declarations in `parser.c`, `diag.c`) | visited files, token lists, recursion of `discover`, collected names, program, `current_file`, first error | `discover`, `collect_*_names`, `parse_file_into_program`, duplicate checks | fills the `Program` sema and codegen index into | cycles and aliases of files; two scans that must agree on indices; the file an error is attributed to | each reachable file read once; a type means its declaration; the place an error names is at fault; loading ends |
| Names (`sema.c` scopes; `codegen.c`, the scopes of C) | chain of scopes, loop depth, `fixed` flags | every declaration, use, assignment and block | names go into C unchanged | two scope systems resolve each name independently | same variable in both; gcc accepts; `fixed` holds |
| Types (`sema.c`, `codegen.c`, `builtins.c`) | a type on each expression | `check_expr`, `check_stmt`, `emit_expr`, `emit_stmt` | sema's types choose the C text; gcc types it again | two type systems, two tables of builtins; C converts silently | gcc accepts; the C value has the type that stands for its own |
| Struct layout (`codegen.c`, `ast.c`) | `emitted` flags, pass state | `emit_struct_typedefs` | type numbers of the loader; list runtime for each struct | dependency order over arbitrary declarations, cycles | C's order; only cycles left out; passes end |
| Driver (`main.c`) | C file, binary, scratch directory, child process, exit status | `cmd_build`, `cmd_run`, `run_gcc`, `run_binary` | shares a file system with other invocations and the user | concurrent invocations, any step failing, interrupts | runs and leaves its own program; cleans up; ends |
| List runtime (text in `codegen.c`) | heap blocks, handles `{data, len, cap}` | new, push, set, get, remove, slice, sort, reverse, contains, len, for-in, launch_args | every list statement of a program; parser's rewriting of for-in | handles are copied, blocks are not; realloc moves blocks | lists are values; no access outside of a list's memory |
| Map runtime (text in `codegen.c`) | heap blocks of entries, handles `{entries, len, cap}` | literal, set, get, contains, keys, len | as lists; `keys` makes a list | repeated keys, copies of the handle, a loop over keys whose body changes the map | maps are functions from keys; no access outside of a map's memory |
| Control flow (`parser.c`, `sema.c`, `codegen.c`) | loop depth, hidden variables | if, while, for, for-in, branch, break, continue, return | for-in and branch become other statements in the parser | a jump out of or around what the parser put in | the C does what the source says; jumps and returns are what C asks for |
| Text and numbers at run time (text in `codegen.c`) | C values, state of `rand` | substring, trim, index, `+`, random_int, conversions | - | order of clamps, overflow of `long` | as `src/README.md` describes them |
| Files and input at run time | FILE streams | read, write, append, `input` | the disk | each C call may fail | a true result can be believed |
| Window at run time | three globals; SDL's windows and events | open, close, poll, should_close, drawing, keys | SDL, the user | `window_open` failing half-way; events in any order | no pointer to what is gone; a click on close is seen |
| Parser of statements and expressions (`parser.c`) | place in the tokens, tree, first error | thirteen functions, one for each level of precedence; primaries, postfixes, statements | names from the loader's prescan; a tree for sema | precedence is which function calls which; forms are told apart by a token or two ahead | the tree C's precedences give; the first token that cannot be is the error |
| Lexer, AST memory | token list, tree | text processing | loader | - | partly, see below |

The compiler itself has no threads. What is concurrent is several invocations
over one file system, and what is nondeterministic is the program it is given,
the content of the disk, the addresses `malloc` and `realloc` return, the
outcome of every system call, and interrupts. `PROJECT.json` lists every hazard
at its line, with the properties that cover it or the reason none does.

## Modules and the code they model

A definition keeps the name of the C function where there is one; the map in
`PROJECT.json` gives the lines of each. `MC...` modules only hold small
instances. In several modules a definition is preceded by a `Mutant:`, the same
operator with a plausible bug, used to show that a property can be broken; no
specification uses it.

### ValueLists and ListRuntime: lists

`ValueLists` is the promise of the language reference (`src/README.md:147-164`):
each list variable holds a sequence of its own and a statement changes one.
`ListRuntime` is what `codegen.c:86-234` prints, with its memory:

- `heap` maps an address to the cells of its block, `Free` if there is none.
  `handle` maps a C variable to its struct `{data, len, cap}`. Besides the
  variables of the program there are `Cli`, the global `fy_cli_args`, and
  `Iter`, the hidden `__fy_feN_src` of a for-in loop, with its index `pos`.
- `Copy` is every place C copies the struct: let, assignment, argument,
  `launch_args()`. `Drop` is the end of a C block: the block of cells stays.
- `ListPush` is `PushInPlace` or `PushGrow`; the latter is `realloc`, which
  keeps the address or frees the block and chooses another address.
- `ListSlice`, `ListRemove`, `ListSort`, `ListReverse`, `ListGet`, `ListSet`,
  `ListContains`, `ListLen` and `OutOfBounds` (message and `exit(1)`) are one
  function each. `call` and `result` record the statement and its value, so that
  a refinement is about the same calls with the same arguments and results.
- A step that reads a freed block, an unwritten cell, or a cell outside a block
  has no meaning in C. It leads to status `"undefined"`, where the model stops.

Nothing in C frees a block but realloc. The model forgets a block no handle
names (`Reached`), which no later step can tell from keeping it, and which lets
four addresses stand for any heap: at most four handles exist at once (two
variables, `Cli` and `Iter`). When each of them has a block of its own no
address is left for malloc; what a new list in v would lead to there is
reached by dropping v first. Elements are integers compared by `<=`, which stands
for each of the four comparison functions (`long`, `double`, `int`, `strcmp`). `malloc` does not fail, as
the generated code assumes.

`Discipline` states what a *program* keeps to, since the compiler asks for
nothing: `"pushes"`: push only through the sole handle of a block; `"writes"`:
make every change that way; `"none"`. The first makes the runtime memory safe,
the second makes it implement `ValueLists` as well; without them both fail, of
which a violation run shows the first. With the first, an empty `launch_args()`
(capacity 0) never grows, since the global always names its block too; that
branch of push (`cap == 0 ? 4 : ...`) is exercised by the others.

### Loader

One action for each turn of the code's loops: `Involve` and `Return` are the
body and the end of `discover`'s loop, with the C recursion as an explicit
`stack` of [file, position]; `CollectItem` is one item of the prescan of
struct and enum names, `CollectEnd` the end of a file in it; `ParseItem` is one declaration, `ParseEnd` the end of a file, and
`Check` sema's duplicate check. `Discover` keeps the order of the code: realpath,
visited, mark, read, lex; each failure reports under the `current_file` of that
moment. A file's content is a sequence of items that tells outcomes apart; an
item stands for the tokens of one declaration, its index for the line. The
`broken` item, a struct without a body, is where the prescan and the parser
disagree about what a declaration is. `Realpath` is a constant function of the
involving file and the path as written, so two spellings may name one file.

### StructLayout and DependencyOrder

`StructLayout` is `emit_struct_typedefs` (`codegen.c:456-486`), turn by turn
(`Visit`, `EndPass`), on the type numbers of `ast.h` and the predicates of
`ast.c`. `DependencyOrder` says only what C asks: write a struct whose needs are
written, stop when there is none. The refinement maps the passes to it; turns
that write nothing stutter. `LayoutAssumption` states what `ast.h` takes for
granted, that the structs fit between two bases; nothing in the compiler
counts them.

### Driver

Each invocation goes through the labels of `cmd_build` or `cmd_run`; `Step` is
one system call or one call of a phase, and any of them may fail. `OpenC` and
`CloseC` are apart since another gcc may read between them; `Gcc` reads the C
and `Link` writes the binary for the same reason. Names are sequences of
dot-separated parts, because `derive_output_paths` makes the C file of `x.fy`
the binary of `x.c.fy`. `Edit` is the user saving a source, `Interrupt` is
Ctrl-C or any other fatal signal to fractyne and its children. `ProgramEnds` is
the end of the executed program, with any status.

### Scopes

A program is walked statement by statement. `sema` and `c` are the two chains of
scopes, functions from names to the number of a declaration. `DeclareVar` gives
both their due: sema checks the initializer and then declares; in C the
initializer is already in the new variable's scope. `Function`, `Block`, `For`,
`Foreach`, `Close` and `CloseFor` open and close scopes as `check_stmt` and
`emit_stmt` do, which is not the same number of scopes on both sides (sema has
one more for parameters); `Foreach` opens the three that `parse_foreach` builds.
`bindings` holds, for each name used in the last step, the two declarations
found. `Rules` are the restrictions under which the two agree: no variable named
like a C identifier, none in its own initializer, none of the function's outer
block named like a parameter.

### Typing

Expressions are built bottom up on a stack, the order in which `check_expr` and
`emit_expr` return; an operand is a pair of its type in sema and the C type of
its text. Each kind of expression and statement is an action: the `Check...`
operator is sema's case, the action itself is codegen's text with the C places
it puts values into (`moves`) and the C type that results. The rules of C that
matter (conversions of assignment, usual arithmetic conversions, constraints of
operators) are external definitions. `BuiltinRows` is the table of `builtins.c`,
`CBuiltinRows` the signatures of the C functions `codegen.c` prints; they are
written down apart, as the code has them apart, so that the runs and the proof
compare them. `Before` is the order of the lookup: a function of the program is
found before a builtin of its name. The types that are neither structs nor enums
are the constants of `ast.h` (`TYPE_INT`, ...).
`Rules` are: no float literal is a whole number, `%` is not applied to floats,
`==` not to calls of void functions. Each is needed: sema accepts `5.0 % 2.5`
and `v() == v()`, and gcc refuses the text; `1.0` is written `1`.

### ValueMaps and MapRuntime: maps

`ValueMaps` is the promise, a function from keys to values in each variable and
a list of keys of its own; `MapRuntime` is `codegen.c:236-330` with its memory, in
the way of `ListRuntime`. Every operation begins with the same scan for the key
(`Matches`, `Found`, `Place`); `MapSet` is the scan, then `Overwrite`, `AddInPlace`
or `AddGrow`, which is `realloc`. `MapKeys` fills a block of its own, `listed`,
from which `KeyAt` reads between any other steps: a loop over the keys whose body
changes the map. The refinement maps a handle to the function its entries stand
for. What programs keep to is `Discipline`: `"adds"`: add a new key only through the
sole handle of a block, which is what memory needs; `"writes"`: set any key so, which
is what maps as values need. The run has `"writes"`, and literals in which no key is
repeated (`MCMapRuntime`); `fy_map_T_from` would keep both entries.

### Control: the flow of control of a function

A body is a table of its statements in which those of a statement's blocks come
before it, as the parser is done with them before. Sema goes through it, and then
two machines execute it: the C machine what the parser made of it, with loops, ifs
and hidden variables for for-in and branch; the source machine the body as it is
written. An *event* is a statement executed, or a condition, list, element, subject
or case value evaluated, with what it gave. `CStep` may leave an event owed, which
`Follow` has to match before C goes on.

What a machine has still to execute is a sequence of frames, each a statement of the
table or a part of what the parser makes for one: `ForInLoop` has the let, the
step and the body of a for-in's loop, `Case(n, i, j)` is the if of case `i` before its
`j`-th comparison and `CaseElse` what follows an unequal one. A loop's `turn` frame marks
where break and continue go (`Innermost`). `CoreMoves` are the rules both machines
share, those of C; `HiddenMoves` are the parser's statements, and `SourceMoves` what
for-in and branch mean.

`CheckStmt` is one call of sema's `check_stmt`: `walk` is what the calls that are open
have still to check, a loop puts a `loop_depth--` frame after its body, and
`sm->loop_depth` counts. `Rule` `"returns"` keeps to functions with a value that
end in a return (`EndsInReturn`), which sema does not ask for. Recursion over nested
bodies is in the frames and not in operators, so that the module can be proved about.

### Text, Files, Window and Services

- `Text`: one string variable takes the result of every call. `SubstringPart`,
  `Trim` and `RandomInts` are the functions of `codegen.c:600-690` as operators;
  longs go from `-MaxLong - 1` to `MaxLong`, and `start + length` in substring or
  `hi - lo + 1` in random_int beyond that is undefined. `RandomChar` is a call of
  random_int, whose number is used as an index.
- `Files`: `Input` with the growth of its buffer (`Capacity(n)` is its size after n
  characters, `Fits` that each is written inside it), `ReadFile`, `WriteFile`,
  `AppendFile`. `Endings` are the ways a write can end, what `fwrite` counted
  apart from what is on the disk after `fclose`. `promised` is what the true
  results told the program of a file, `Unknown` after a false one.
- `Window`: the globals `window`, `renderer`, `should_close` beside SDL's
  windows, their renderers and its queue. `WindowOpen` is the three ways
  `fy_window_open` can end after `SDL_Init`; `ClickClose` and `OtherEvent` are the
  user. SDL itself is external, from how the code uses it.
- `Services` composes the three in one program: any order of calls, user steps
  at any time, and an index error that ends the program wherever it is.

`Rules` are what the program and its surroundings keep to: `"sums fit"` (start +
length of substring is a long), `"ranges fit"` (so is hi - lo + 1 of random_int),
`"disk has room"` (what is buffered is written at `fclose`), `"only files"`
(`read_file` is not given a directory). `src/README.md` asks for none of them, and
without any one of them a property of the run fails (see
[below](#where-the-code-and-its-documents-disagree)).
`SubstringClamps` and `RandomInRange` speak of the longs that the rules allow, and of
all without them. `RandomInRange` asks that every number of a range can come
only while `rand()` has as many values.
`OneWindow`: the program closes a window before it opens another.

### Expressions and Grammar

`Expressions` is the recursive descent of `parser.c` for expressions and for the
statements made of them. A C function that starts at token `i` is an operator of
`i` (`Primary`, `Postfix`, `Unary`, `Expr`, `Let`, `Statement`, ...; the ten
functions from `parse_factor` to `parse_or` are `Binary` and `Rest` with a level)
whose result is a tree and the next place, or the place of the first error, which
every caller passes on as the code's returns of NULL do. The only variable is
`tokens`: while the parser stops at the end of what there is, one more token
comes, so that every statement and every shortest wrong beginning of one is a
state, and nothing after an error is. A node keeps the place of its token, so
that trees with equal operands differ.

`Grammar` says independently what a statement is, with the parser's sets of tokens
but none of its functions: `Group` finds the root of an expression first, by the
precedences and associativity of C, and then its operands; `Reading` goes through
the tokens once, with what is wanted and what is open, and builds nothing. Both
modules have RECURSIVE operators, so nothing is proved about them.

`Reading` is the grammar of `src/README.md:194-210`, where `recv.name(args)` is a call wherever
it stands. The parser takes less: `Strays` tells the statements that begin with a field
or an element of a name and are no assignment, and `StopsWhereItMust` says that these
are all that is refused against the document, each at the token where it strays.

## Runs

| Run | Distinct states | Shows |
| --- | --- | --- |
| `list_values` | 49 762 | Under `"writes"`: `MemorySound`, which is that every handle names a live, large enough, written block (`HandlesSound`) and nothing is undefined (`NeverUndefined`); each statement changes at most one list (`OneListPerStep`); the runtime implements `ValueLists` (`ImplementsValueLists`), so slice's clamps, remove's shift, sort, bounds errors and for-in give what they would give on values |
| `list_dangling` | violation | `NeverUndefined` fails with no discipline |
| `maps` | 22 185 | Under `"writes"`: `MemorySafe`; the runtime implements `ValueMaps` (`ImplementsValueMaps`) whatever the order of insertions, growth, copies and reads of a list of keys |
| `control` | 2 450 523 | The C does what the source does (`SameEvents`); what sema checks of jumps and returns is enough for C (`SemaSuffices`); a for-in ends (`ForInEnds`) |
| `services` | 241 920 | Under the four rules and `OneWindow`: the calls on strings and numbers do what `src/README.md` says (`TextAsDocumented`, in four parts, `CallsReturn` among them); a true result of a write can be believed (`PromisesKept`); the window's pointers are good whatever fails (`WindowSound`); a click on the close button is seen (`ClickIsSeen`) |
| `loader` | 114 851 | Files loaded once (`LoadedOnce`) and exactly the reachable ones (`LoadsWhatIsReached`); a type's index is its declaration's (`TypesMeanTheirDeclaration`); the place an error names is at fault (`ErrorIsWhereItSays`); loading ends (`Ends`) |
| `struct_layout` | 30 941 | C's order (`DeclaredBeforeUse`), only cycles left out (`LeftOutOnlyInCycles`), `ImplementsOrder`, passes end (`Ends`) |
| `driver` | 489 248 | For two invocations at once: each executes, or leaves as its output, what its own source says (`KeepsItsOwn`, in two parts `RunsItsOwn` and `BuildsItsOwn`); `NothingLeft`; `Finishes` |
| `scopes` | 137 491 | Under the three rules: `SameBinding`, `GccAccepts`, `FixedKept` |
| `typing` | 137 562 | Under the three rules: gcc refuses nothing sema accepts (`AcceptedBuilds`), each value has its C type (`ValuesHaveTheirTypes`), no silent conversion (`NothingConverted`) |
| `typing_float` | violation | `FloatArithmetic` fails without the rule on literals |
| `expressions` | 824 553 | Trees are those of C's precedences (`GroupsAsC`); the parser accepts what is a statement, `x.f();` and the like excepted, and stops at the first token that cannot be (`StopsWhereItMust`) |

Every passing run but `services` and `expressions` checks its `TypeOK` too; in
`services` the four properties say more of each variable than its type, and the
only variable of `expressions` is the sequence of tokens.

**Bounds.** The invariants, action properties and refinements of every passing run
but `expressions` are also proved for any values of the constants,
that is without these bounds; see [Proofs](#proofs).
- Lists: two variables besides `Cli` and `Iter` give the shapes that matter, a
  sole handle, two and more on one block, and a loop's copy. Length 2 with two
  different elements gives growth from 1 to 2 and push into spare room after a
  remove, and sort and reverse elements to tell apart. Indices go from -1 to the
  bound, one beyond each end.
- Maps: two variables (a copy needs two), four keys, two values with the zero
  value among them, so that a key with that value is told from a missing one;
  literals of one and two pairs and four entries in all, so that a literal is
  grown twice, written in place and overwritten. Three addresses: two maps and
  the list of keys.
- Control: every construct around every jump, conditional or not, up to three
  deep, two in a row, and the same followed by a return. Three deep has a jump
  in a branch in a loop in a loop. Lists have up to two elements, so that a
  repeated or skipped one shows; two case values make one match and one fail.
- Services: strings of up to two characters, longs from -4 to 3, so that every
  clamp happens, and without the rules sums and ranges that overflow; a `rand()` of two values, fewer than
  most ranges have; a buffer that starts with
  two characters and lines of up to three, which it must grow for; one file,
  since no call has two; two windows, the second of which a program gets only
  after closing the first; a queue of two, for a click before and after another event.
- Loader: three files with at most three items, 11 718 disks: mutual and self
  involvement, two spellings, a path that resolves only from one directory, missing
  and unreadable files, garbage, uses before and across declarations, duplicates.
- StructLayout: three structs with up to two fields (4 913 programs) contain
  chains against the declaration order, cycles of one, two and three, and
  structs behind a cycle.
- Driver: two invocations, one edit per source and two directories make every
  pair of build and run on the same and on clashing output names.
- Scopes: four declarations, three levels and two names that are the user's with
  one that is C's: shadowing needs two declarations of one name, a parameter or
  a for-in variable takes one or two of their own.
- Typing: a value is no more than a pair of types, so an operand on the stack
  stands for any expression that has them, however deep; four operands are as
  many as the widest construct takes except a map literal of three pairs and a
  list or call of five, whose elements are treated one like the other. Two
  structs, an enum and three functions give each kind of type to each position.

- Expressions: up to seven tokens out of eighteen, from nothing and from the
  beginning of each form, which gives every wrong token at every place of every
  form; all rows of three binary operators (one of each level, two of the level
  of `+`), with signs between, after a compound assignment and around a
  conditional; and conditionals, brackets and postfixes in one another. A
  grouping is decided by two operators at a time, so three in a row suffice.

**Symmetry and view.** Addresses are only compared for equality and no property
of the list runs is a liveness property, so permuting them is sound; the same
holds of the user's names in `scopes`. The view `State` hides `call`: no guard
reads it, so states that differ in it alone have the same successors, and TLC
checks action properties on every step it generates, not only on those to new states.

**Deadlock.** `CHECK_DEADLOCK FALSE` in every run since every component is a
program that ends: loaded or failed, done, exited, rejected.

**Fairness.** Loader and StructLayout are one sequential program, which takes
its next step as long as it has one: `WF_vars(Next)`; so is the function of
Control, whose conditions are left to chance, and so `ForInEnds` speaks of
functions without while and for. In Driver each invocation's own `Step` is
weakly fair: the operating system schedules it, and its calls, gcc included,
return. The executed program is not in `Step`: nothing makes a user's program
end, and `Finishes` only says that an invocation comes to it. Edits and
interrupts are not fair. In Services only the poll of events is fair, which
`src/README.md` tells programs to call once per frame; no call is, and no user
action. No other specification needs fairness.

## Where the code and its documents disagree

The first two are counterexamples of violation runs and entries of "findings".

- **A pushed copy leaves the other handle dangling** (`list_dangling`). `let b = a;
  push(b, x);` reallocs the block that `a` still names; `a[0]` passes the bounds
  check and reads freed memory. `src/README.md:147-149` promises an error "rather than
  reading or corrupting memory silently".
- **Float literals lose their point** (`typing_float`): `1.0 / 2.0` becomes
  `(1 / 2)`, which is 0.

The models also show these, each when the rule named is taken out of the run's cfg:

- `OneListPerStep` fails with `Discipline = "none"` or `"pushes"`: lists are not
  passed by value (`src/README.md:163-164`); `xs[i] = v`, sort, reverse and remove on
  a copy change the original. `launch_args()` is such a copy of the global
  itself (`codegen.c:764`). Maps are shared in the same
  way: `ImplementsValueMaps` fails with `"adds"`, and `MemorySafe` with `"none"`.
- `SameBinding` fails without `"self"`: in `let x = x + 1;` sema's x is the outer one
  and C's is the new uninitialized one, since a let is written as a declaration
  with that initializer (`codegen.c:1282`).
- `SemaSuffices` fails with `Rule = "none"`: a function that returns a value may
  end without one, and its caller uses whatever the register holds.
- `TextAsDocumented` fails, by its part `CallsReturn`, without each of three rules.
  Without `"sums fit"`: `substring("hello", 1, 9223372036854775807)`, which
  `src/README.md:245` says is clamped, adds the two in
  long (`codegen.c:611`), is not clamped and crashes.
  Without `"ranges fit"`: `hi - lo + 1` of random_int is a long
  (`codegen.c:679`); where C wraps, the full range divides by 0. `src/README.md:252-253`
  has both ends inclusive for any two numbers. (A range wider than `RAND_MAX`, which
  fits, does not reach `hi` either; `RandomInRange` leaves that open.)
  Without `"only files"`: `read_file` of a directory crashes, where `src/README.md:256-258`
  says it gives "": `ftell` gives LONG_MAX, `malloc` NULL, and `buf[n]` is written.
- `PromisesKept` fails without `"disk has room"`: `write_file` to a full device gives
  true (`src/README.md:258`), since only `fwrite` is asked and not `fclose`.
- `WindowSound` and `ClickIsSeen` fail with `OneWindow = FALSE`.

**A method call is no statement.** `p.show();` is refused with "expected '=' after field
but found '('": `parse_statement` (`parser.c:848-873`, and `889-900` for `xs[0].show();`)
takes a name with a point or a bracket after it for an assignment, although
`src/README.md:194-195` says that `recv.name(args)` is sugar for `name(recv, args)` and
`:209` that it always means a call. As part of an expression it does, and as a statement
too when something else than a name begins it, as in `f(x).show();`.
`StopsWhereItMust` names this as the one exception (`Strays`) and fails without it.

And some that the models only leave room for: an interrupted `run` leaves its
scratch directory (`NothingLeft` says "done" and not "killed"), against "removes
it afterward, regardless of outcome" (`main.c:160-162`); a map literal with a
repeated key keeps both entries; gcc refuses `%` on floats, `==` on two void calls
and a call of `main` from a program that uses `launch_args`, all of which sema
accepts; a window opened after the user closed another one should close at once,
since `fy_sdl_should_close` is never reset. A directory given to
fractyne as a source crashes it as it crashes `read_file` (`involve.c:35`).

## Proofs

18 761 obligations in eight modules, for every component but Expressions, and no
step without proof. `CodegenProofs` is about StructLayout and Control, the others
about one component each. A theorem holds for every value of the
constants that satisfies the named assumption of its module, which says what the
code takes for granted: numbers are numbers, and the marks for "none" are none of
what they stand beside. Where it also has a hypothesis on `Discipline`, `Rules` or
`OneWindow`, that is what programs have to keep to, and the code is known to fail
without it ([above](#where-the-code-and-its-documents-disagree)); what needs no such
hypothesis has none.

| Module | Theorems | Of programs or surroundings it asks |
| --- | --- | --- |
| `ListRuntimeProofs` | `TypeCorrect` | nothing |
| | `MemorySafe` (`MemorySound`) | `Discipline # "none"` |
| | `ListsByValue` (`ImplementsValueLists`), `OneListAStep` (`OneListPerStep`) | `"writes"` |
| `MapRuntimeProofs` | `TypeCorrect` | nothing |
| | `MapMemorySafe` (`MemorySafe`) | `Discipline # "none"` |
| | `MapsByValue` (`ImplementsValueMaps`) | `"writes"`; no literal repeats a key |
| `CodegenProofs` | `LayoutTypeCorrect`, `Ordered` (`DeclaredBeforeUse`), `OnlyCyclesLeftOut` (`LeftOutOnlyInCycles`), `Implements` (`ImplementsOrder`), `PassesDescend` | nothing |
| | `ElementsInBounds` (Control's `TypeOK`), `CDoesWhatIsWritten` (`SameEvents`), `JumpsAccepted` (`JumpsHaveLoops`, a part of `SemaSuffices`) | nothing |
| | `SemaIsEnough` (`SemaSuffices`) | `Rule = "returns"` |
| `LoaderProofs` | `TypeCorrect`, `EachFileOnce` (`LoadedOnce`), `ReachesTheProgram` (`LoadsWhatIsReached`), `IndicesMeanTheirNames` (`TypesMeanTheirDeclaration`), `ErrorsAreWhereTheySay` (`ErrorIsWhereItSays`), `LoadingDescends` | nothing |
| `DriverProofs` | `TypeCorrect`, `WhatIsReadIsKept` (`KeepsItsOwn`), `RunCleansUp` (`NothingLeft`) | nothing |
| `ScopesProofs` | `TypeCorrect`, `FixedIsKept` (`FixedKept`) | nothing |
| | `NothingRefused` (`GccAccepts`) | `"library"`, `"parameter"` |
| | `NamesMeanTheSame` (`SameBinding`) | `"library"`, `"self"` |
| `TypingProofs` | `TypeCorrect`, `BuildsWhatIsAccepted` (`AcceptedBuilds`) | `"remainder"`, `"void"` |
| | `ValuesKeepTheirTypes` (`ValuesHaveTheirTypes`), `ConvertsNothing` (`NothingConverted`), `FloatsStayFloats` (`FloatArithmetic`) | these and `"fraction"` |
| `ServicesProofs` | `CallsAsDocumented` (`TextAsDocumented`) | `"sums fit"`, `"ranges fit"`, `"only files"` |
| | `TrueResultsHold` (`PromisesKept`) | `"disk has room"` |
| | `WindowIsSound` (`WindowSound`) | `OneWindow` |

The hypotheses are sharper than the runs, which keep to all rules at once: the
proofs show which rule each property needs.

**ListRuntimeProofs.** `TypeCorrect` has one lemma per action; the work is in showing
that what is stored is a sequence of cells whichever branch was taken (`Tabulated`,
`StoreType`, `RewriteType`, `ReachedType`). For `MemorySafe` the invariant is
`IInv == TypeOK /\ HandlesSound /\ NeverUndefined`. `HandlesSound` makes it inductive:
a statement is defined because its handle is sound (`StatementDefined` and the
lemmas about expressions), and handles stay sound because a step either changes a
block nobody else names (new blocks by `FreshUnnamed`, growth by the discipline's
`Sole`) or rewrites a shared block without shrinking it or unwriting a cell
(`RewriteSound`, `MovesSound`). For the refinement a changed block has one handle, so
that the list of every other handle stays what it was (`ContentsOf`, `StoreLists`,
`RewriteLists`); then each statement has a lemma `...Promised` that it is the
statement of that name of `ValueLists`, with its arguments and its result.

**MapRuntimeProofs.** `IInv == TypeOK /\ HasEntries /\ MapsSound /\ ListedSound /\
status # "undefined"`, in which `ListedSound` says that the list of keys has a block of
its own: that is why a loop over the keys stands a body that changes the map. Under
`"adds"` a key that is there is overwritten in blocks that several maps name, which keeps
them sound as it neither moves a block nor leaves a cell unwritten (`OverwriteSound`). The
refinement adds `EntriesOnce`, that the keys of a block are distinct. Without it the
entries stand for no function that a scan from the front could update; the only
step that can break it is a literal with a repeated key.

**CodegenProofs, the layout.** `LayoutInv == LayoutTypeOK /\ Consistent /\
DeclaredBeforeUse /\ Stuck /\ NothingReady` adds what the loop knows: the flags are the output (`Consistent`); in a
pass that has written nothing yet no struct already passed is ready (`Stuck`), whence
none is at the end (`NothingReady`). `DepIsNamed` and `NamedIsDep` connect the
arithmetic of type numbers to the structs declared. `PassesDescend` is that each step writes
a struct, or starts the pass after one that wrote, or goes on in its pass.

**CodegenProofs, control.** `Inv` relates the machines and sema's walk:
- `Matched`: what the C machine has to execute corresponds to what the source machine
  has, frame by frame (`Aligned`), once the source machine has made the silent moves it
  is behind (`Lag`). A frame is the same in both, or the `turn` of a for-in, whose
  element number is then the hidden index; at the top they may be inside of a for-in
  (`InForIn`) or of the comparisons of a branch (`InBranch`), where a lemma `...Reply`
  per state gives the source's answer to each move of C. `AlignedStep` puts them
  together. A silent move is the only one its machine has (`SilentDecides`), so the source
  cannot take a wrong one while an event is owed. Break and continue find
  corresponding turns (`InnermostDeep`). This gives `SameEvents`, and with the range of
  the hidden variables that elements are taken in the list (`ElementInList`).
- `Walking`, while sema checks: some set of depths is kept for every statement, of
  those it has been or will be checked at; where a depth is in the set the statement
  is allowed, and its children's are in theirs or soon in the walk (`Soon`). At the end
  nothing is left in the walk, and the set is closed (`SemaOK`).
- `Sound`, when it runs: C's frames are covered by that set, each at a depth that is above
  0 only if a turn is below it (`Covered`), and the parts of a loop stand above its
  turn (`Layered`). So a break that C comes to has a turn to find.

`Declared` adds, under the rule `"returns"`, that the last frame of a function with a
value always leads to a return (`Floored`): breaks and continues drop frames only down
to a turn, and a loop is never the last frame. Induction over the nesting, which
the provers cannot do, is not needed: a set of depths, and the set of `EndsInReturn`, are
chosen once for the whole table and checked one statement at a time.

**LoaderProofs.** `IInv == TypeOK /\ Search /\ Declarations /\ ErrorIsWhereItSays`.
- `Search` is the depth-first search: the files read are distinct and are those
  visited (`Read`), the open calls of `discover` are for distinct files among them
  (`Open`), an involve that a call has passed leads to a visited file (`Followed`),
  and what is visited is in every set of files that has the entry and is closed
  under involve (`Within`). The last two meet when no call is open: what is visited is
  the least closed set. Stating reachability by closed sets spares the induction
  over paths, which the provers at hand cannot do.
- `Declarations` relates the two scans. The prescan's lists and the program's are the
  names of the same declarations in the same order, for which some function counts,
  from place to place, the declarations of a kind before it (`Counted`, `Parsed`); that
  such a function exists is what is kept, in the place of a recursive count. `Typed`
  says that an index taken so far is that of its name in the prescan's list.
- A search through the tokens for the first of something is shown to find it by the
  least element of a set of naturals (`LeastIn`).

`LoadingDescends` is the safety half of `Ends`: a later phase, a file more, a call of
`discover` fewer, a later place.

**DriverProofs.** `IInv == TypeOK /\ Separate /\ NothingLeft /\ \A p \in Invocations :
Each(p)`. `Each` says of an invocation what it has done by the label it is at (`Stage`),
what is in its outputs if no other writes them (`Owned`), and that the directory of a
`run` has nothing but its outputs (`Held`). `Separate` lets the invocations be looked at
one at a time: runs that have not ended are in different scratch directories and
none is in the user's, so that a step of one leaves the outputs of the others alone.

**ScopesProofs.** The two chains need not have the same number of scopes, so the
invariant says how they match (`Matched`): C's are sema's, with a function's
parameters and its outer block in one scope, and the library under the globals.
`Shape` relates the open blocks to the number of scopes, so that what a block opened
is what its end closes. That a name then means the same follows from the innermost
scope that has it, which `Matched` puts at the same place of both chains.

**TypingProofs.** An operand of the stack is `Good`: its C type is the one `c_type_name`
writes for its type in sema, or an int that stands for an enum, or, without the rule
`"fraction"`, an int that stands for a float. Every expression and statement has a lemma
that makes good operands from good operands and moves only what C can move. Calls of builtins
are compared row by row (`BuiltinsAgree`), calls of the program's functions for any
`Functions`.

**ServicesProofs.** Text, files and window share no variable but the text and the status,
so there are two invariants: `WindowInv`, and `DataInv` with `CallsReturn` for the first
theorem and with `Believed` for the second, that what the program was told of a file
is on the disk. The positions substring copies are those there are (`PartIsThere`) and random_int
keeps to its range (`RandomGives`) for every width of a long, but only where the sum and
the range are longs, which two of the three rules ask; TLC refutes `TextAsDocumented` without any one of the
three. `CapacitiesExist` shows that the recursive function of the buffer's
sizes has a value everywhere, again by a least element, and `Fits` that `input()` never
writes beyond it, for any first size and any line.

**Only model-checked.** Liveness (`Ends`, `Finishes`, `ForInEnds`, `ClickIsSeen`): the
rules for fairness need ENABLED, which the provers do not have. Of the two `Ends` it is
proved that each step goes down an order in which nothing goes down for ever, given finitely many
files (`LoadingDescends`, `PassesDescend`); that a step can be taken until the end is left to TLC. Expressions with Grammar
(`GroupsAsC`, `StopsWhereItMust`): their RECURSIVE operators, over tokens and trees, take
the SMT solver away, and what they compute for every input would need an induction
over data.


## Not modelled

- Lists and maps inside structs and lists, which a copied struct shares as a
  copied list does; more than one element type at a time.
- Conversions between text and numbers, `to_upper`, `to_lower`, `index_of` and the
  math functions: one expression or one C library call each. The state of `rand`
  and its seed. Integer overflow and division by zero in programs, which go to C as
  they are.
- `file_exists`, which changes nothing; drawing, color, mouse and key state, which
  are copied from or to SDL.
- The order in which C evaluates the operands of one expression.
- The text of tokens (`lexer.c` beyond where it refuses a file), and the tokens that
  frame the blocks of if, while, for and branch, whose trees are where Control
  begins. What a whole declaration parses to enters Loader as an item's kind.
- A directory in the place of a source file: the files of the Loader are read, or cannot be.
- `ast.c` beyond the type numbers: constructors and destructors of a tree.
- Scripts, examples and editor support.

## Plan

Done, in this order: ListRuntime with ValueLists; Loader; Driver; StructLayout with
DependencyOrder; Scopes; Typing; proofs about ListRuntime and StructLayout;
MapRuntime with ValueMaps; Control; Text, Files, Window and Services; Expressions
with Grammar; the refinement of ValueLists; proofs about MapRuntime, Scopes, Driver,
Loader, Services and Typing; Control anew, over tables of statements in the place of
nested bodies, and proofs about it.

Next modules, for what is left: lists and maps inside structs, in ListRuntime; the
statements with blocks, token by token, in Expressions.

Next theorems: what `Grammar` and the parser compute for every row of tokens, once they
are written without RECURSIVE operators.
