-------------------------------- MODULE Loader ---------------------------------
(***************************************************************************)
(* How fractyne turns an entry file into one program (involve.c, the       *)
(* declaration level of parser.c, the duplicate checks of sema.c and the   *)
(* diagnostic of diag.c):                                                  *)
(*   discover   depth first over involve, one read and lex of each file;   *)
(*   collect    the names of all structs and enums, file by file;          *)
(*   parse      all declarations, file by file, with those names;          *)
(*   check      that no struct and no enum is declared twice.              *)
(* A type is an index: the parser takes it from the collected names, and   *)
(* everything later looks it up in the program's declarations.             *)
(***************************************************************************)
EXTENDS Integers, SequencesExt

CONSTANTS
  Files,       \* the canonical paths realpath can return
  Entry,       \* the path on the command line
  Paths,       \* the paths an involve can be written with
  Names,       \* the names of structs and enums
  None,        \* no file, no name
  Unreadable,  \* a file that is there and cannot be read
  Realpath,    \* <<the involving file or None, a path>> -> its file or None
  Disks        \* what the files may hold: a set of functions on Files

VARIABLES
  disk,        \* what each file holds: a sequence of items, or Unreadable
  phase,
  visited,     \* the canonical paths discover has seen
  files,       \* the files read, in the order they were
  stack,       \* the calls of discover: [file, at], at the next item
  structNames, enumNames,       \* collected
  structs, enums,               \* declared in the program
  types,       \* the types the functions name: [name, kind, index]
  cursor,      \* [file, at]: the next file and item of collect or parse
  currentFile, \* diag->current_file
  diag         \* the first error: [file, line], or None

vars == <<disk, phase, visited, files, stack, structNames, enumNames, structs, enums, types,
          cursor, currentFile, diag>>
scan == <<visited, files, stack>>
names == <<structNames, enumNames>>
program == <<structs, enums, types>>

(* What a file holds, down to what tells one outcome from another:         *)
(*   involve   involve "name";          fr      fr f(x: name) { ... }      *)
(*   struct    struct name { ... }      broken  struct name, then no body  *)
(*   enum      enum name { ... }        stray   no declaration             *)
(*   garbage   what the lexer refuses                                      *)
Item == [kind : {"involve"}, name : Paths]
        \cup [kind : {"struct", "enum", "fr", "broken"}, name : Names]
        \cup [kind : {"stray", "garbage"}, name : {None}]

ASSUME LoaderAssumption ==
  /\ None \notin Files /\ None \notin Paths /\ None \notin Names
  /\ Entry \in Paths
  /\ Realpath \in [(Files \cup {None}) \X Paths -> Files \cup {None}]
  /\ Disks \subseteq [Files -> Seq(Item) \cup {Unreadable}]
  /\ Unreadable \notin Seq(Item)

-------------------------------------------------------------------------------
(* diag_set: the error is in the file the loader says it is working on. *)
Report(line) ==
  /\ diag' = [file |-> currentFile', line |-> line]
  /\ phase' = "failed"

(* Mutant: a ref is looked for only before the first declaration. *)
LeadingRef(f, k) ==
  IF k <= Len(disk[f]) /\ disk[f][k].kind = "involve" THEN k ELSE Len(disk[f]) + 1

(* The next involve of f at or after item k; Len + 1 when there is none. *)
NextRef(f, k) ==
  CHOOSE i \in k .. Len(disk[f]) + 1 :
    /\ i = Len(disk[f]) + 1 \/ disk[f][i].kind = "involve"
    /\ \A j \in k .. i - 1 : disk[f][j].kind # "involve"

Lexes(f) == \A k \in 1 .. Len(disk[f]) : disk[f][k].kind # "garbage"

FirstGarbage(f) ==
  CHOOSE k \in 1 .. Len(disk[f]) :
    /\ disk[f][k].kind = "garbage"
    /\ \A j \in 1 .. k - 1 : disk[f][j].kind # "garbage"

(* Mutant: the files read before are not looked up. *)
DiscoverAgain(from, line, path, rest) ==
  LET f == Realpath[<<from, path>>] IN
  /\ f # None /\ disk[f] # Unreadable /\ Lexes(f)
  /\ visited' = visited \cup {f}
  /\ files' = Append(files, f)
  /\ stack' = Append(rest, [file |-> f, at |-> 1])
  /\ currentFile' = f
  /\ phase' = "discover" /\ UNCHANGED diag

(* Mutant: a file that is not found is reported without naming `from`. *)
DiscoverUnnamed(from, line, path, rest) ==
  LET f == Realpath[<<from, path>>] IN
  \/ /\ f = None
     /\ UNCHANGED <<currentFile, scan>> /\ Report(line)
  \/ /\ f # None /\ f \in visited
     /\ stack' = rest
     /\ UNCHANGED <<visited, files, currentFile, phase, diag>>
  \/ /\ f # None /\ f \notin visited /\ disk[f] # Unreadable /\ Lexes(f)
     /\ visited' = visited \cup {f}
     /\ files' = Append(files, f)
     /\ stack' = Append(rest, [file |-> f, at |-> 1])
     /\ currentFile' = f
     /\ phase' = "discover" /\ UNCHANGED diag

(* The call of discover from item `line` of file `from`, whose frames are  *)
(* `rest` once the call is counted as made.                                *)
Discover(from, line, path, rest) ==
  LET f == Realpath[<<from, path>>] IN
  \/ /\ f = None
     /\ currentFile' = from /\ Report(line)
     /\ UNCHANGED scan
  \/ /\ f # None /\ f \in visited
     /\ stack' = rest
     /\ UNCHANGED <<visited, files, currentFile, phase, diag>>
  \/ /\ f # None /\ f \notin visited /\ disk[f] = Unreadable
     /\ visited' = visited \cup {f}
     /\ currentFile' = from /\ Report(line)
     /\ UNCHANGED <<files, stack>>
  \/ /\ f # None /\ f \notin visited /\ disk[f] # Unreadable /\ ~Lexes(f)
     /\ visited' = visited \cup {f}
     /\ currentFile' = f /\ Report(FirstGarbage(f))
     /\ UNCHANGED <<files, stack>>
  \/ /\ f # None /\ f \notin visited /\ disk[f] # Unreadable /\ Lexes(f)
     /\ visited' = visited \cup {f}
     /\ files' = Append(files, f)
     /\ stack' = Append(rest, [file |-> f, at |-> 1])
     /\ currentFile' = f
     /\ phase' = "discover" /\ UNCHANGED diag

Init ==
  /\ disk \in Disks
  /\ phase = "start"
  /\ visited = {} /\ files = <<>> /\ stack = <<>>
  /\ structNames = <<>> /\ enumNames = <<>>
  /\ structs = <<>> /\ enums = <<>> /\ types = <<>>
  /\ cursor = [file |-> 1, at |-> 1]
  /\ currentFile = None
  /\ diag = None

(* load_program's own call of discover *)
Start ==
  /\ phase = "start"
  /\ Discover(None, 0, Entry, <<>>)
  /\ UNCHANGED <<disk, names, program, cursor>>

(* Mutant: the loop does not go on to the next ref. *)
InvolveStuck ==
  LET top == Last(stack)
      k == NextRef(top.file, top.at)
  IN
  /\ phase = "discover" /\ stack # <<>>
  /\ k <= Len(disk[top.file])
  /\ Discover(top.file, k, disk[top.file][k].name, stack)
  /\ UNCHANGED <<disk, names, program, cursor>>

(* One turn of discover's loop over the refs of the file on top; an error  *)
(* makes every open call return.                                           *)
Involve ==
  LET top == Last(stack)
      k == NextRef(top.file, top.at)
  IN
  /\ phase = "discover" /\ stack # <<>>
  /\ k <= Len(disk[top.file])
  /\ Discover(top.file, k, disk[top.file][k].name,
              Append(Front(stack), [file |-> top.file, at |-> k + 1]))
  /\ UNCHANGED <<disk, names, program, cursor>>

Return ==
  LET top == Last(stack) IN
  /\ phase = "discover" /\ stack # <<>>
  /\ NextRef(top.file, top.at) = Len(disk[top.file]) + 1
  /\ stack' = Front(stack)
  /\ phase' = IF Len(stack) = 1 THEN "collect" ELSE phase
  /\ UNCHANGED <<disk, visited, files, names, program, cursor, currentFile, diag>>

(* A list of names after an item, of one of the kinds the list is for.     *)
WithName(list, item, kinds) == IF item.kind \in kinds THEN Append(list, item.name) ELSE list

(* Mutant: a name goes before those collected earlier. *)
CollectItemReversed ==
  LET f == files[cursor.file]
      item == disk[f][cursor.at]
  IN
  /\ phase = "collect" /\ cursor.file <= Len(files) /\ cursor.at <= Len(disk[f])
  /\ structNames' = IF item.kind \in {"struct", "broken"} THEN <<item.name>> \o structNames ELSE structNames
  /\ enumNames' = IF item.kind = "enum" THEN <<item.name>> \o enumNames ELSE enumNames
  /\ cursor' = [cursor EXCEPT !.at = @ + 1]
  /\ UNCHANGED <<disk, phase, scan, program, currentFile, diag>>

(* collect_struct_names and collect_enum_names, an item a step: a name     *)
(* after the keyword, whatever follows it.                                 *)
CollectItem ==
  LET f == files[cursor.file]
      item == disk[f][cursor.at]
  IN
  /\ phase = "collect" /\ cursor.file <= Len(files) /\ cursor.at <= Len(disk[f])
  /\ structNames' = WithName(structNames, item, {"struct", "broken"})
  /\ enumNames' = WithName(enumNames, item, {"enum"})
  /\ cursor' = [cursor EXCEPT !.at = @ + 1]
  /\ UNCHANGED <<disk, phase, scan, program, currentFile, diag>>

CollectEnd ==
  /\ phase = "collect" /\ cursor.file <= Len(files) /\ cursor.at = Len(disk[files[cursor.file]]) + 1
  /\ IF cursor.file = Len(files)
     THEN phase' = "parse" /\ cursor' = [file |-> 1, at |-> 1]
     ELSE phase' = phase /\ cursor' = [file |-> cursor.file + 1, at |-> 1]
  /\ UNCHANGED <<disk, scan, names, program, currentFile, diag>>

-------------------------------------------------------------------------------
(* parse_file_into_program, one declaration a step *)

(* struct_index_of, and the same search among the enums: the first match *)
IndexIn(list, n) ==
  CHOOSE i \in 1 .. Len(list) : list[i] = n /\ \A j \in 1 .. i - 1 : list[j] # n

(* Mutant: a name is a struct's, found or not. *)
StructTypeOf(n) ==
  [name |-> n, kind |-> "struct",
   index |-> IF n \in Range(structNames) THEN IndexIn(structNames, n) ELSE -1]

(* parse_type_token on a name: a struct before an enum *)
TypeOf(n) ==
  IF n \in Range(structNames)
  THEN [name |-> n, kind |-> "struct", index |-> IndexIn(structNames, n)]
  ELSE [name |-> n, kind |-> "enum", index |-> IndexIn(enumNames, n)]

Known(n) == n \in Range(structNames) \cup Range(enumNames)

ParseItem ==
  LET f == files[cursor.file]
      item == disk[f][cursor.at]
  IN
  /\ phase = "parse" /\ cursor.file <= Len(files) /\ cursor.at <= Len(disk[f])
  /\ currentFile' = f
  /\ IF item.kind \in {"broken", "stray"} \/ (item.kind = "fr" /\ ~Known(item.name))
     THEN Report(cursor.at) /\ UNCHANGED <<program, cursor>>
     ELSE /\ structs' = WithName(structs, item, {"struct"})
          /\ enums' = WithName(enums, item, {"enum"})
          /\ types' = IF item.kind = "fr" THEN Append(types, TypeOf(item.name)) ELSE types
          /\ cursor' = [cursor EXCEPT !.at = @ + 1]
          /\ UNCHANGED <<phase, diag>>
  /\ UNCHANGED <<disk, scan, names>>

(* At the end of the last file load_program clears current_file. *)
ParseEnd ==
  LET f == files[cursor.file] IN
  /\ phase = "parse" /\ cursor.file <= Len(files) /\ cursor.at = Len(disk[f]) + 1
  /\ IF cursor.file = Len(files)
     THEN phase' = "check" /\ currentFile' = None /\ UNCHANGED cursor
     ELSE phase' = phase /\ currentFile' = f /\ cursor' = [file |-> cursor.file + 1, at |-> 1]
  /\ UNCHANGED <<disk, scan, names, program, diag>>

(* The declarations sema_check looks at before any other. *)
Check ==
  /\ phase = "check"
  /\ UNCHANGED currentFile
  /\ IF IsInjective(structs) /\ IsInjective(enums)
     THEN phase' = "loaded" /\ UNCHANGED diag
     ELSE Report(0)
  /\ UNCHANGED <<disk, scan, names, program, cursor>>

Next ==
  \/ Start \/ Involve \/ Return
  \/ CollectItem \/ CollectEnd
  \/ ParseItem \/ ParseEnd \/ Check

(* One sequential program: it takes its next step as long as there is one. *)
Spec == Init /\ [][Next]_vars /\ WF_vars(Next)

-------------------------------------------------------------------------------
(* Properties *)

Phases == {"start", "discover", "collect", "parse", "check", "loaded", "failed"}
Position == [file : Nat, at : Nat]

(* The shape of the loader's state. *)
TypeOK ==
  /\ disk \in [Files -> Seq(Item) \cup {Unreadable}]
  /\ phase \in Phases
  /\ visited \subseteq Files
  /\ files \in Seq(Files)
  /\ stack \in Seq([file : Files, at : Nat])
  /\ structNames \in Seq(Names) /\ enumNames \in Seq(Names)
  /\ structs \in Seq(Names) /\ enums \in Seq(Names)
  /\ types \in Seq([name : Names, kind : {"struct", "enum"}, index : Nat])
  /\ cursor \in Position
  /\ currentFile \in Files \cup {None}
  /\ diag \in [file : Files \cup {None}, line : Nat] \cup {None}

(* However files involve each other - twice, by two spellings, in a cycle  *)
(* - each is read once and no two open calls of discover are for the same  *)
(* file, which bounds the recursion.                                       *)
LoadedOnce ==
  /\ IsInjective(files)
  /\ \A i, j \in 1 .. Len(stack) : stack[i].file = stack[j].file => i = j

(* The files a program is made of, said without the search: the least set  *)
(* with the entry file that is closed under involve.                       *)
Targets(f) ==
  IF disk[f] = Unreadable THEN {}
  ELSE {Realpath[<<f, disk[f][k].name>>] : k \in {i \in 1 .. Len(disk[f]) : disk[f][i].kind = "involve"}}
Closed(S) == Realpath[<<None, Entry>>] \in S /\ \A f \in S \ {None} : Targets(f) \subseteq S
Reachable == {f \in Files \cup {None} : \A S \in SUBSET (Files \cup {None}) : Closed(S) => f \in S}

(* What is loaded is what involve reaches, no file more or less, and every *)
(* one of them was found.                                                  *)
LoadsWhatIsReached ==
  phase \in {"collect", "parse", "check", "loaded"} => Range(files) = Reachable

(* The index the parser gave a type is where the program declares it,      *)
(* though it was taken from a scan of all files that is not the parser: a  *)
(* struct may be used before its declaration and across files.             *)
TypesMeanTheirDeclaration ==
  phase = "loaded" =>
    /\ structs = structNames /\ enums = enumNames
    /\ \A k \in 1 .. Len(types) :
         LET t == types[k]
             declared == IF t.kind = "struct" THEN structs ELSE enums
         IN t.index \in 1 .. Len(declared) /\ declared[t.index] = t.name

(* The place the diagnostic names is the place of an error: an involve     *)
(* whose file cannot be found or read, what the lexer or the parser        *)
(* refuses, or a name no file declares; no place at all means the entry    *)
(* file is missing or a name is declared twice.                            *)
NoFile(from, path) ==
  LET f == Realpath[<<from, path>>] IN f = None \/ disk[f] = Unreadable
Declared(n) ==
  \E f \in Range(files) : \E k \in 1 .. Len(disk[f]) :
    disk[f][k].name = n /\ disk[f][k].kind \in {"struct", "broken", "enum"}
Wrong(f, k) ==
  LET item == disk[f][k] IN
  \/ item.kind \in {"garbage", "stray", "broken"}
  \/ item.kind = "involve" /\ NoFile(f, item.name)
  \/ item.kind = "fr" /\ ~Declared(item.name)

ErrorIsWhereItSays ==
  phase = "failed" =>
    IF diag.file = None
    THEN /\ diag.line = 0
         /\ NoFile(None, Entry) \/ ~IsInjective(structs) \/ ~IsInjective(enums)
    ELSE /\ disk[diag.file] # Unreadable /\ diag.line \in 1 .. Len(disk[diag.file])
         /\ Wrong(diag.file, diag.line)

(* Loading ends, also when files involve each other in a cycle. *)
Ends == <>(phase \in {"loaded", "failed"})
===============================================================================
