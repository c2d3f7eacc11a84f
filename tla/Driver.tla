-------------------------------- MODULE Driver ---------------------------------
(***************************************************************************)
(* The fractyne command (main.c): invocations of `build` and `run` that    *)
(* share a file system with each other and with the user who edits the     *)
(* sources.  Each one loads its source, writes the generated C, has gcc    *)
(* make a binary of it, and `run` executes that and removes what it made.  *)
(* `build` works next to the source, `run` in a directory of mkdtemp.      *)
(*                                                                         *)
(* A file name is its dot-separated parts: <<"x", "fy">> is x.fy.          *)
(***************************************************************************)
EXTENDS Integers, SequencesExt

CONSTANTS
  Invocations,  \* the fractyne processes
  Sources,      \* the names of the source files, all in one directory
  Here,         \* that directory
  Scratch,      \* the directory names mkdtemp chooses from
  MaxEdits,     \* bound on the edits of a source
  Statuses,     \* how a program can end: exit codes and 128 + signal
  None

VARIABLES
  file,     \* place -> what is there, or None
  dirs,     \* the scratch directories that exist
  pc,       \* where each invocation is
  call,     \* [cmd, src, dir] of each invocation, or None
  loaded,   \* the code each invocation read from its source, or None
  object,   \* the code gcc read for it, or None
  ran,      \* the code of the binary it executed, or None
  exit      \* its exit status, or None

vars == <<file, dirs, pc, call, loaded, object, ran, exit>>

(* derive_output_paths: a final .fy is dropped *)
Stem(name) == IF Len(name) > 1 /\ Last(name) = "fy" THEN Front(name) ELSE name
CName(name) == Append(Stem(name), "c")

FileNames == Sources \cup {Stem(s) : s \in Sources} \cup {CName(s) : s \in Sources}
Places == [dir : Scratch \cup {Here}, name : FileNames]
Code == Sources \X (0 .. MaxEdits)
Content == [is : {"source", "c", "partial", "binary"}, code : Code]
Call == [cmd : {"build", "run"}, src : Sources, dir : Scratch \cup {Here}]

ASSUME DriverAssumption ==
  /\ Here \notin Scratch
  /\ Sources \subseteq Seq(STRING)
  /\ MaxEdits \in Nat
  /\ 0 \in Statuses /\ Statuses \subseteq 0 .. 255
  /\ None \notin Content /\ None \notin Code /\ None \notin Call /\ None \notin Statuses

CPath(p) == [dir |-> call[p].dir, name |-> CName(call[p].src)]
BinPath(p) == [dir |-> call[p].dir, name |-> Stem(call[p].src)]
SourcePath(p) == [dir |-> Here, name |-> call[p].src]
Outputs(p) == {CPath(p), BinPath(p)}

(* Another invocation, past or present, that writes what p writes. *)
Contended(p) ==
  \E q \in Invocations \ {p} : call[q] # None /\ Outputs(q) \cap Outputs(p) # {}

-------------------------------------------------------------------------------
Init ==
  /\ file = [at \in Places |->
               IF at.dir = Here /\ at.name \in Sources
               THEN [is |-> "source", code |-> <<at.name, 0>>] ELSE None]
  /\ dirs = {}
  /\ pc = [p \in Invocations |-> "idle"]
  /\ call = [p \in Invocations |-> None]
  /\ loaded = [p \in Invocations |-> None]
  /\ object = [p \in Invocations |-> None]
  /\ ran = [p \in Invocations |-> None]
  /\ exit = [p \in Invocations |-> None]

(* The user saves another version of a source. *)
Edit(s) ==
  LET at == [dir |-> Here, name |-> s] IN
  /\ file[at] # None /\ file[at].is = "source" /\ file[at].code[2] < MaxEdits
  /\ file' = [file EXCEPT ![at].code[2] = @ + 1]
  /\ UNCHANGED <<dirs, pc, call, loaded, object, ran, exit>>

Goto(p, l) == pc' = [pc EXCEPT ![p] = l]
End(p, status) == Goto(p, "done") /\ exit' = [exit EXCEPT ![p] = status]

(* compile_program or run_binary gives up: `run` cleans up, `build` ends. *)
Fail(p) ==
  /\ exit' = [exit EXCEPT ![p] = 1]
  /\ Goto(p, IF call[p].cmd = "run" THEN "removeC" ELSE "done")

StartBuild(p, s) ==
  /\ pc[p] = "idle"
  /\ call' = [call EXCEPT ![p] = [cmd |-> "build", src |-> s, dir |-> Here]]
  /\ Goto(p, "load")
  /\ UNCHANGED <<file, dirs, loaded, object, ran, exit>>

(* Mutant: `run` takes a directory of a fixed name. *)
StartRunFixed(p, s) ==
  /\ pc[p] = "idle"
  /\ \E d \in Scratch :
       /\ \A e \in dirs : d = e
       /\ dirs' = dirs \cup {d}
       /\ call' = [call EXCEPT ![p] = [cmd |-> "run", src |-> s, dir |-> d]]
  /\ Goto(p, "load")
  /\ UNCHANGED <<file, loaded, object, ran, exit>>

(* mkdtemp makes a directory that was not there, or fails *)
StartRun(p, s) ==
  /\ pc[p] = "idle"
  /\ \/ \E d \in Scratch \ dirs :
          /\ dirs' = dirs \cup {d}
          /\ call' = [call EXCEPT ![p] = [cmd |-> "run", src |-> s, dir |-> d]]
          /\ Goto(p, "load") /\ UNCHANGED exit
     \/ End(p, 1) /\ UNCHANGED <<dirs, call>>
  /\ UNCHANGED <<file, loaded, object, ran>>

(* load_program and sema_check: the source is read, and accepted or not *)
Load(p) ==
  LET f == file[SourcePath(p)] IN
  /\ pc[p] = "load"
  /\ \/ /\ f # None /\ f.is = "source"
        /\ loaded' = [loaded EXCEPT ![p] = f.code]
        /\ Goto(p, "open") /\ UNCHANGED exit
     \/ Fail(p) /\ UNCHANGED loaded
  /\ UNCHANGED <<file, dirs, call, object, ran>>

(* codegen_emit: fopen for writing empties the file, fclose completes it.  *)
(* A file another invocation writes too may be left with a mixture.        *)
OpenC(p) ==
  /\ pc[p] = "open"
  /\ \/ /\ file' = [file EXCEPT ![CPath(p)] = [is |-> "partial", code |-> loaded[p]]]
        /\ Goto(p, "write") /\ UNCHANGED exit
     \/ Fail(p) /\ UNCHANGED file
  /\ UNCHANGED <<dirs, call, loaded, object, ran>>

CloseC(p) ==
  /\ pc[p] = "write"
  /\ \E is \in IF Contended(p) THEN {"c", "partial"} ELSE {"c"} :
       file' = [file EXCEPT ![CPath(p)] = [is |-> is, code |-> loaded[p]]]
  /\ Goto(p, "gcc")
  /\ UNCHANGED <<dirs, call, loaded, object, ran, exit>>

(* Mutant: gcc waits for the generated C to be complete. *)
GccWaits(p) ==
  LET f == file[CPath(p)] IN
  /\ pc[p] = "gcc" /\ f # None /\ f.is = "c"
  /\ object' = [object EXCEPT ![p] = f.code]
  /\ Goto(p, "link") /\ UNCHANGED <<file, dirs, call, loaded, ran, exit>>

(* run_gcc: gcc reads the C and then writes the binary; either may fail, *)
(* and so may fork and exec                                              *)
Gcc(p) ==
  LET f == file[CPath(p)] IN
  /\ pc[p] = "gcc"
  /\ \/ /\ f # None /\ f.is = "c"
        /\ object' = [object EXCEPT ![p] = f.code]
        /\ Goto(p, "link") /\ UNCHANGED exit
     \/ Fail(p) /\ UNCHANGED object
  /\ UNCHANGED <<file, dirs, call, loaded, ran>>

Link(p) ==
  /\ pc[p] = "link"
  /\ \/ /\ file' = [file EXCEPT ![BinPath(p)] = [is |-> "binary", code |-> object[p]]]
        /\ IF call[p].cmd = "run" THEN Goto(p, "exec") /\ UNCHANGED exit ELSE End(p, 0)
     \/ Fail(p) /\ UNCHANGED file
  /\ UNCHANGED <<dirs, call, loaded, object, ran>>

(* run_binary: the child executes the binary, or does not come to it *)
Exec(p) ==
  LET f == file[BinPath(p)] IN
  /\ pc[p] = "exec"
  /\ \/ /\ f # None /\ f.is = "binary"
        /\ ran' = [ran EXCEPT ![p] = f.code]
        /\ Goto(p, "running") /\ UNCHANGED exit
     \/ \E status \in Statuses \cap {1, 127} :
          /\ exit' = [exit EXCEPT ![p] = status]
          /\ Goto(p, "removeC") /\ UNCHANGED ran
  /\ UNCHANGED <<file, dirs, call, loaded, object>>

(* Mutant: the status is the one waitpid stores, exit code times 256. *)
ProgramEndsRaw(p) ==
  /\ pc[p] = "running"
  /\ \E status \in Statuses : exit' = [exit EXCEPT ![p] = 256 * status]
  /\ Goto(p, "removeC")
  /\ UNCHANGED <<file, dirs, call, loaded, object, ran>>

ProgramEnds(p) ==
  /\ pc[p] = "running"
  /\ \E status \in Statuses : exit' = [exit EXCEPT ![p] = status]
  /\ Goto(p, "removeC")
  /\ UNCHANGED <<file, dirs, call, loaded, object, ran>>

(* Mutant: the generated C is kept when the binary was not made. *)
RemoveCIfBuilt(p) ==
  /\ pc[p] = "removeC"
  /\ file' = IF file[BinPath(p)] # None THEN [file EXCEPT ![CPath(p)] = None] ELSE file
  /\ Goto(p, "removeBinary")
  /\ UNCHANGED <<dirs, call, loaded, object, ran, exit>>

(* The three calls at the end of cmd_run; rmdir wants the directory empty. *)
RemoveC(p) ==
  /\ pc[p] = "removeC"
  /\ file' = [file EXCEPT ![CPath(p)] = None]
  /\ Goto(p, "removeBinary")
  /\ UNCHANGED <<dirs, call, loaded, object, ran, exit>>

RemoveBinary(p) ==
  /\ pc[p] = "removeBinary"
  /\ file' = [file EXCEPT ![BinPath(p)] = None]
  /\ Goto(p, "rmdir")
  /\ UNCHANGED <<dirs, call, loaded, object, ran, exit>>

RemoveDir(p) ==
  /\ pc[p] = "rmdir"
  /\ dirs' = IF \A at \in Places : at.dir = call[p].dir => file[at] = None
             THEN dirs \ {call[p].dir} ELSE dirs
  /\ Goto(p, "done")
  /\ UNCHANGED <<file, call, loaded, object, ran, exit>>

Step(p) ==
  \/ Load(p) \/ OpenC(p) \/ CloseC(p) \/ Gcc(p) \/ Link(p) \/ Exec(p)
  \/ RemoveC(p) \/ RemoveBinary(p) \/ RemoveDir(p)

(* Ctrl-C: fractyne handles no signal, and goes with whatever it started. *)
Interrupt(p) ==
  /\ pc[p] \notin {"idle", "done", "killed"}
  /\ Goto(p, "killed")
  /\ UNCHANGED <<file, dirs, call, loaded, object, ran, exit>>

Next ==
  \/ \E s \in Sources : Edit(s)
  \/ \E p \in Invocations, s \in Sources : StartBuild(p, s) \/ StartRun(p, s)
  \/ \E p \in Invocations : Step(p) \/ ProgramEnds(p) \/ Interrupt(p)

(* An invocation goes on, and gcc ends; a program need not. *)
Fairness == \A p \in Invocations : WF_vars(Step(p))
Spec == Init /\ [][Next]_vars /\ Fairness

-------------------------------------------------------------------------------
(* Properties *)

Labels == {"idle", "load", "open", "write", "gcc", "link", "exec", "running",
           "removeC", "removeBinary", "rmdir", "done", "killed"}

(* The shape of the file system and of the invocations. *)
TypeOK ==
  /\ file \in [Places -> Content \cup {None}]
  /\ dirs \subseteq Scratch
  /\ pc \in [Invocations -> Labels]
  /\ call \in [Invocations -> Call \cup {None}]
  /\ loaded \in [Invocations -> Code \cup {None}]
  /\ object \in [Invocations -> Code \cup {None}]
  /\ ran \in [Invocations -> Code \cup {None}]
  /\ exit \in [Invocations -> Statuses \cup {1, None}]

(* `run` executes the program it read, whatever is built, run or edited at *)
(* the same time, and reports success only of a program that ran.          *)
RunsItsOwn ==
  \A p \in Invocations :
    /\ ran[p] # None => ran[p] = loaded[p]
    /\ call[p] # None /\ call[p].cmd = "run" /\ exit[p] = 0 => ran[p] # None

(* A `build` that succeeds leaves a binary of the source it read, if no    *)
(* other invocation has written to the same places: main.c has no lock.    *)
BuildsItsOwn ==
  \A p \in Invocations :
    pc[p] = "done" /\ call[p] # None /\ call[p].cmd = "build" /\ exit[p] = 0 /\ ~Contended(p)
      => file[BinPath(p)] = [is |-> "binary", code |-> loaded[p]]

(* What an invocation that succeeds has run or left is what it read.       *)
KeepsItsOwn == RunsItsOwn /\ BuildsItsOwn

(* `run` leaves nothing when it ends, whichever step failed: a scratch     *)
(* directory, and anything in one, belongs to an invocation that has not   *)
(* ended by itself.  An interrupted one does leave its directory.          *)
NothingLeft ==
  /\ \A d \in dirs : \E p \in Invocations :
       call[p] # None /\ call[p].dir = d /\ pc[p] # "done"
  /\ \A at \in Places : at.dir # Here /\ file[at] # None => at.dir \in dirs

(* Every invocation comes to its end, or to the program it runs. *)
Finishes ==
  \A p \in Invocations : pc[p] = "load" ~> pc[p] \in {"running", "done", "killed"}
===============================================================================
