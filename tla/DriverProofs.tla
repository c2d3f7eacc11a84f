----------------------------- MODULE DriverProofs ------------------------------
(***************************************************************************)
(* Proofs about Driver, for any number of invocations of any sources with  *)
(* any edits between them: the types, that what succeeds is what was read, *)
(* and that `run` leaves nothing.  Everything rests on whose files are     *)
(* whose: a `run` that has not ended is alone in its directory, and an     *)
(* invocation that nobody contends with is alone with its outputs.         *)
(***************************************************************************)
EXTENDS Driver, SequenceTheorems, TLAPS

-------------------------------------------------------------------------------
(* The invariant *)

(* A `run` that has not ended; and what has its outputs to itself.         *)
Live(p) == call[p] # None /\ call[p].cmd = "run" /\ pc[p] # "done"
Mine(p) == call[p] # None /\ (Live(p) \/ (call[p].cmd = "build" /\ ~Contended(p)))

(* What an invocation has done by the time it is where it is.              *)
Stage(p) ==
  /\ pc[p] \notin {"idle", "done"} => call[p] # None
  /\ pc[p] = "idle" => call[p] = None /\ exit[p] = None
  /\ pc[p] \in {"exec", "running", "removeC", "removeBinary", "rmdir"} => call[p].cmd = "run"
  /\ pc[p] \in {"idle", "load", "open", "write", "gcc", "link", "exec"} => ran[p] = None
  /\ pc[p] \in {"open", "write", "gcc", "link", "exec"} => loaded[p] # None
  /\ pc[p] = "link" => object[p] # None
  /\ pc[p] = "running" => ran[p] # None
  /\ ran[p] # None => ran[p] = loaded[p]
  /\ call[p] # None /\ call[p].cmd = "run" /\ exit[p] = 0 => ran[p] # None

(* The outputs of one that has them to itself.                             *)
Owned(p) ==
  /\ pc[p] = "gcc" => /\ file[CPath(p)] # None /\ file[CPath(p)].is # "source"
                      /\ file[CPath(p)].code = loaded[p]
  /\ pc[p] = "link" => object[p] = loaded[p]
  /\ pc[p] = "exec" => file[BinPath(p)] = [is |-> "binary", code |-> loaded[p]]
  /\ pc[p] = "done" /\ exit[p] = 0 => file[BinPath(p)] = [is |-> "binary", code |-> loaded[p]]

(* The directory of a `run`.                                               *)
Held(p) ==
  /\ \A at \in Places : at.dir = call[p].dir /\ file[at] # None => at \in Outputs(p)
  /\ pc[p] \in {"removeBinary", "rmdir"} => file[CPath(p)] = None
  /\ pc[p] = "rmdir" => file[BinPath(p)] = None

(* `build` works here and every `run` in a directory of its own.           *)
Separate ==
  /\ \A p \in Invocations : call[p] # None =>
       IF call[p].cmd = "build" THEN call[p].dir = Here ELSE call[p].dir \in Scratch
  /\ \A p \in Invocations : Live(p) => call[p].dir \in dirs
  /\ \A p, q \in Invocations : p # q /\ Live(p) /\ Live(q) => call[p].dir # call[q].dir

Each(p) == Stage(p) /\ (Mine(p) => Owned(p)) /\ (Live(p) => Held(p))

IInv == TypeOK /\ Separate /\ NothingLeft /\ \A p \in Invocations : Each(p)

-------------------------------------------------------------------------------
(* Paths *)

LEMMA StemType ==
  ASSUME NEW s \in Sources
  PROVE  Stem(s) \in Seq(STRING) /\ CName(s) # Stem(s)
<1>1. s \in Seq(STRING) /\ Len(s) \in Nat
  BY DriverAssumption, LenProperties
<1>2. Stem(s) \in Seq(STRING)
  <2>1. CASE Len(s) > 1
    <3>1. Front(s) \in Seq(STRING)
      BY <1>1, <2>1, SubSeqProperties DEF Front
    <3>2. QED
      BY <1>1, <3>1 DEF Stem
  <2>2. CASE ~(Len(s) > 1)
    BY <1>1, <2>2 DEF Stem
  <2>3. QED
    BY <2>1, <2>2
<1>3. \A t \in Seq(STRING) : Append(t, "c") # t
  <2>1. SUFFICES ASSUME NEW t \in Seq(STRING) PROVE Len(Append(t, "c")) # Len(t)
    OBVIOUS
  <2>2. Len(t) \in Nat /\ Len(Append(t, "c")) = Len(t) + 1
    BY LenProperties, AppendProperties
  <2>3. \A n \in Nat : n + 1 # n
    OBVIOUS
  <2>4. QED
    BY <2>2, <2>3
<1>4. QED
  BY <1>2, <1>3 DEF CName

LEMMA Paths ==
  ASSUME TypeOK, NEW p \in Invocations, call[p] # None
  PROVE  /\ call[p] \in Call
         /\ CPath(p) \in Places /\ CPath(p).dir = call[p].dir
         /\ BinPath(p) \in Places /\ BinPath(p).dir = call[p].dir
         /\ SourcePath(p) \in Places
         /\ CPath(p) # BinPath(p) /\ CPath(p) \in Outputs(p) /\ BinPath(p) \in Outputs(p)
         /\ \A at \in Outputs(p) : at.dir = call[p].dir
<1>1. call[p] \in Call
  BY DEF TypeOK
<1>2. call[p].src \in Sources /\ call[p].dir \in Scratch \cup {Here}
  BY <1>1 DEF Call
<1>3. Stem(call[p].src) \in FileNames /\ CName(call[p].src) \in FileNames /\ call[p].src \in FileNames
  BY <1>2 DEF FileNames
<1>4. CName(call[p].src) # Stem(call[p].src)
  BY <1>2, StemType
<1>5. QED
  BY <1>1, <1>2, <1>3, <1>4 DEF CPath, BinPath, SourcePath, Outputs, Places

LEMMA CallIs ==
  ASSUME NEW k \in Call
  PROVE  k.cmd \in {"build", "run"} /\ k # None
BY DriverAssumption DEF Call

-------------------------------------------------------------------------------
(* A step of one invocation *)

(* p is what changes: itself, and its outputs.                             *)
OnlyOf(p) ==
  /\ call' = call /\ dirs' = dirs
  /\ \A q \in Invocations \ {p} :
       /\ pc'[q] = pc[q] /\ loaded'[q] = loaded[q] /\ object'[q] = object[q]
       /\ ran'[q] = ran[q] /\ exit'[q] = exit[q]
  /\ \A at \in Places \ Outputs(p) : file'[at] = file[at]

(* Nobody else writes to the directory of a `run`, or to outputs that      *)
(* nobody contends for.                                                    *)
LEMMA OutputsApart ==
  ASSUME IInv, NEW p \in Invocations, pc[p] \notin {"idle", "done"}, NEW q \in Invocations \ {p}
  PROVE  /\ Live(q) => \A at \in Outputs(p) : at.dir # call[q].dir
         /\ Mine(q) => Outputs(p) \cap Outputs(q) = {}
<1>1. call[p] # None /\ call[p] \in Call
  BY Paths DEF IInv, Each, Stage
<1>2. \A at \in Outputs(p) : at.dir = call[p].dir
  BY <1>1, Paths DEF IInv
<1>3. ASSUME Live(q) PROVE call[p].dir # call[q].dir
  <2>1. call[q] # None /\ call[q].cmd = "run" /\ call[q].dir \in Scratch
    BY <1>3 DEF Live, IInv, Separate
  <2>2. CASE call[p].cmd = "build"
    BY <1>1, <2>1, <2>2, DriverAssumption DEF IInv, Separate
  <2>3. CASE call[p].cmd = "run"
    <3>1. Live(p)
      BY <1>1, <2>3 DEF Live
    <3>2. QED
      BY <1>3, <3>1 DEF IInv, Separate
  <2>4. QED
    BY <1>1, <2>2, <2>3, CallIs
<1>4. ASSUME Live(q) PROVE Outputs(p) \cap Outputs(q) = {}
  <2>1. \A at \in Outputs(q) : at.dir = call[q].dir
    BY <1>4, Paths DEF Live, IInv
  <2>2. QED
    BY <1>2, <1>3, <1>4, <2>1
<1>5. ASSUME ~Contended(q) PROVE Outputs(p) \cap Outputs(q) = {}
  BY <1>1, <1>5 DEF Contended
<1>6. QED
  BY <1>2, <1>3, <1>4, <1>5 DEF Mine

LEMMA OthersKeep ==
  ASSUME IInv, NEW p \in Invocations, pc[p] \notin {"idle", "done"}, OnlyOf(p),
         NEW q \in Invocations \ {p}
  PROVE  Each(q)'
<1>1. /\ call' = call /\ pc'[q] = pc[q] /\ loaded'[q] = loaded[q] /\ object'[q] = object[q]
      /\ ran'[q] = ran[q] /\ exit'[q] = exit[q]
  BY DEF OnlyOf
<1>2. Stage(q)'
  BY <1>1 DEF IInv, Each, Stage
<1>3. /\ CPath(q)' = CPath(q) /\ BinPath(q)' = BinPath(q) /\ Outputs(q)' = Outputs(q)
      /\ (Live(q)' <=> Live(q)) /\ (Mine(q)' <=> Mine(q))
  BY <1>1 DEF CPath, BinPath, Outputs, Live, Mine, Contended
<1>4. ASSUME Mine(q) PROVE Owned(q)'
  <2>1. call[q] # None
    BY <1>4 DEF Mine
  <2>2. CPath(q) \in Places \ Outputs(p) /\ BinPath(q) \in Places \ Outputs(p)
    BY <1>4, <2>1, OutputsApart, Paths DEF IInv
  <2>3. file'[CPath(q)] = file[CPath(q)] /\ file'[BinPath(q)] = file[BinPath(q)]
    BY <2>2 DEF OnlyOf
  <2>4. Owned(q)
    BY <1>4 DEF IInv, Each
  <2>5. QED
    BY <1>1, <1>3, <2>3, <2>4 DEF Owned
<1>5. ASSUME Live(q) PROVE Held(q)'
  <2>1. call[q] # None /\ Held(q)
    BY <1>5 DEF Live, IInv, Each
  <2>2. \A at \in Places : at.dir = call[q].dir => file'[at] = file[at]
    BY <1>5, OutputsApart DEF OnlyOf
  <2>3. file'[CPath(q)] = file[CPath(q)] /\ file'[BinPath(q)] = file[BinPath(q)]
    BY <2>1, <2>2, Paths DEF IInv
  <2>4. QED
    BY <1>1, <1>3, <2>1, <2>2, <2>3 DEF Held
<1>6. QED
  BY <1>2, <1>3, <1>4, <1>5 DEF Each

(* What is left to show of a step of p.                                    *)
LEMMA StepKeeps ==
  ASSUME IInv, NEW p \in Invocations, pc[p] \notin {"idle", "done"}, OnlyOf(p), TypeOK', Each(p)',
         pc'[p] = "done" => call[p].cmd = "build"
  PROVE  IInv'
<1>1. call[p] # None /\ call[p] \in Call
  BY Paths DEF IInv, Each, Stage
<1>2. call' = call /\ dirs' = dirs /\ \A q \in Invocations \ {p} : pc'[q] = pc[q]
  BY DEF OnlyOf
<1>3. \A q \in Invocations : Each(q)'
  BY OthersKeep
<1>4. \A q \in Invocations : Live(q)' => Live(q)
  BY <1>2 DEF Live
<1>5. Separate'
  BY <1>2, <1>4 DEF IInv, Separate
<1>6. ASSUME NEW d \in dirs' PROVE \E q \in Invocations : call'[q] # None /\ call'[q].dir = d /\ pc'[q] # "done"
  <2>1. PICK q \in Invocations : call[q] # None /\ call[q].dir = d /\ pc[q] # "done"
    BY <1>2 DEF IInv, NothingLeft
  <2>2. pc'[q] # "done"
    <3>1. CASE q = p /\ pc'[p] = "done"
      <4>1. d = Here
        BY <1>1, <2>1, <3>1 DEF IInv, Separate
      <4>2. QED
        BY <1>2, <4>1, DriverAssumption DEF IInv, TypeOK
    <3>2. CASE ~(q = p /\ pc'[p] = "done")
      BY <1>2, <2>1, <3>2
    <3>3. QED
      BY <3>1, <3>2
  <2>3. QED
    BY <1>2, <2>1, <2>2
<1>7. ASSUME NEW at \in Places, at.dir # Here, file'[at] # None PROVE at.dir \in dirs'
  <2>1. CASE at \notin Outputs(p)
    BY <1>2, <1>7, <2>1 DEF OnlyOf, IInv, NothingLeft
  <2>2. CASE at \in Outputs(p)
    <3>1. at.dir = call[p].dir
      BY <1>1, <2>2, Paths DEF IInv
    <3>2. call[p].cmd = "run"
      BY <1>1, <1>7, <3>1, CallIs DEF IInv, Separate
    <3>3. Live(p)
      BY <1>1, <3>2 DEF Live
    <3>4. QED
      BY <1>2, <3>1, <3>3 DEF IInv, Separate
  <2>3. QED
    BY <2>1, <2>2
<1>8. NothingLeft'
  BY <1>6, <1>7 DEF NothingLeft
<1>9. QED
  BY <1>3, <1>5, <1>8 DEF IInv

-------------------------------------------------------------------------------
(* The steps of an invocation *)

LEMMA Active ==
  ASSUME IInv, NEW p \in Invocations, pc[p] \notin {"idle", "done"}
  PROVE  call[p] # None /\ call[p] \in Call /\ call[p].cmd \in {"build", "run"} /\ Stage(p)
BY Paths, CallIs DEF IInv, Each, Stage

LEMMA ContentIs ==
  /\ \A k \in Content : k.code \in Code /\ k.is \in {"source", "c", "partial", "binary"}
  /\ \A is \in {"source", "c", "partial", "binary"}, code \in Code : [is |-> is, code |-> code] \in Content
  /\ None \notin Content /\ None \notin Code
BY DriverAssumption DEF Content

LEMMA FailKeeps ==
  ASSUME IInv, NEW p \in Invocations, pc[p] \in {"load", "open", "gcc", "link"}, Fail(p),
         UNCHANGED <<file, dirs, call, loaded, object, ran>>
  PROVE  IInv'
<1>1. /\ call[p] # None /\ call[p].cmd \in {"build", "run"} /\ Stage(p)
  BY Active
<1>2. /\ exit' = [exit EXCEPT ![p] = 1]
      /\ pc' = [pc EXCEPT ![p] = IF call[p].cmd = "run" THEN "removeC" ELSE "done"]
      /\ file' = file /\ dirs' = dirs /\ call' = call /\ loaded' = loaded /\ object' = object /\ ran' = ran
  BY DEF Fail, Goto
<1>3. TypeOK'
  BY <1>2 DEF IInv, TypeOK, Labels
<1>4. pc'[p] = (IF call[p].cmd = "run" THEN "removeC" ELSE "done") /\ exit'[p] = 1
  BY <1>2 DEF IInv, TypeOK
<1>5. OnlyOf(p)
  BY <1>2 DEF OnlyOf, IInv, TypeOK
<1>6. Stage(p)'
  <2>1. ran[p] # None => ran[p] = loaded[p]
    BY <1>1 DEF Stage
  <2>2. QED
    BY <1>1, <1>2, <1>4, <2>1 DEF Stage
<1>7. Owned(p)'
  BY <1>2, <1>4 DEF Owned
<1>8. Live(p)' => Held(p)'
  <2>1. Live(p)' => Live(p) /\ pc'[p] = "removeC"
    BY <1>2, <1>4 DEF Live
  <2>2. Live(p) => Held(p)
    BY DEF IInv, Each
  <2>3. CPath(p)' = CPath(p) /\ BinPath(p)' = BinPath(p) /\ Outputs(p)' = Outputs(p)
    BY <1>2 DEF CPath, BinPath, Outputs
  <2>4. QED
    BY <1>2, <2>1, <2>2, <2>3 DEF Held
<1>9. pc'[p] = "done" => call[p].cmd = "build"
  BY <1>1, <1>4
<1>10. QED
  BY <1>3, <1>5, <1>6, <1>7, <1>8, <1>9, StepKeeps DEF Each

(* A step that leaves the files alone keeps what a directory holds.        *)
LEMMA HeldKeeps ==
  ASSUME IInv, NEW p \in Invocations, Live(p), UNCHANGED <<file, call>>,
         pc'[p] \notin {"removeBinary", "rmdir"}
  PROVE  Held(p)'
<1>1. Held(p)
  BY DEF IInv, Each
<1>2. CPath(p)' = CPath(p) /\ BinPath(p)' = BinPath(p) /\ Outputs(p)' = Outputs(p)
  BY DEF CPath, BinPath, Outputs
<1>3. QED
  BY <1>1, <1>2 DEF Held

LEMMA LoadKeeps ==
  ASSUME IInv, NEW p \in Invocations, Load(p)
  PROVE  IInv'
<1> DEFINE f == file[SourcePath(p)]
<1>1. pc[p] = "load" /\ UNCHANGED <<file, dirs, call, object, ran>>
  BY DEF Load
<1>2. call[p] # None /\ call[p].cmd \in {"build", "run"} /\ Stage(p)
  BY <1>1, Active
<1>3. CASE Fail(p) /\ UNCHANGED loaded
  BY <1>1, <1>3, FailKeeps
<1>4. CASE f # None /\ loaded' = [loaded EXCEPT ![p] = f.code] /\ Goto(p, "open") /\ UNCHANGED exit
  <2>1. f \in Content
    BY <1>2, <1>4, Paths DEF IInv, TypeOK
  <2>2. f.code \in Code /\ f.code # None
    BY <2>1, ContentIs
  <2>3. pc' = [pc EXCEPT ![p] = "open"]
    BY <1>4 DEF Goto
  <2> HIDE DEF f
  <2>4. TypeOK'
    BY <1>1, <1>4, <2>2, <2>3 DEF IInv, TypeOK, Labels
  <2>5. pc'[p] = "open" /\ loaded'[p] = f.code
    BY <1>4, <2>3 DEF IInv, TypeOK
  <2>6. OnlyOf(p)
    BY <1>1, <1>4, <2>3 DEF OnlyOf, IInv, TypeOK
  <2>7. Stage(p)'
    BY <1>1, <1>2, <1>4, <2>2, <2>5 DEF Stage
  <2>8. Owned(p)'
    BY <2>5 DEF Owned
  <2>9. Live(p)' => Held(p)'
    BY <1>1, <2>5, HeldKeeps DEF Live
  <2>10. QED
    BY <1>1, <2>4, <2>5, <2>6, <2>7, <2>8, <2>9, StepKeeps DEF Each
<1>5. QED
  BY <1>3, <1>4 DEF Load

(* A step that writes one of p's outputs.                                  *)
LEMMA WriteIs ==
  ASSUME IInv, NEW p \in Invocations, call[p] # None, NEW w \in Outputs(p), NEW v \in Content \cup {None},
         file' = [file EXCEPT ![w] = v], call' = call
  PROVE  /\ file' \in [Places -> Content \cup {None}] /\ file'[w] = v
         /\ \A at \in Places \ {w} : file'[at] = file[at]
         /\ CPath(p)' = CPath(p) /\ BinPath(p)' = BinPath(p) /\ Outputs(p)' = Outputs(p)
         /\ Live(p) => \A at \in Places : at.dir = call[p].dir /\ file'[at] # None => at \in Outputs(p)
<1>1. w \in Places
  BY Paths DEF IInv, Outputs
<1>2. /\ file' \in [Places -> Content \cup {None}] /\ file'[w] = v
      /\ \A at \in Places \ {w} : file'[at] = file[at]
  BY <1>1 DEF IInv, TypeOK
<1>3. CPath(p)' = CPath(p) /\ BinPath(p)' = BinPath(p) /\ Outputs(p)' = Outputs(p)
  BY DEF CPath, BinPath, Outputs
<1>4. Live(p) => \A at \in Places : at.dir = call[p].dir /\ file[at] # None => at \in Outputs(p)
  BY DEF IInv, Each, Held
<1>5. QED
  BY <1>2, <1>3, <1>4

LEMMA OpenCKeeps ==
  ASSUME IInv, NEW p \in Invocations, OpenC(p)
  PROVE  IInv'
<1>1. pc[p] = "open" /\ UNCHANGED <<dirs, call, loaded, object, ran>>
  BY DEF OpenC
<1>2. call[p] # None /\ call[p].cmd \in {"build", "run"} /\ Stage(p) /\ CPath(p) \in Outputs(p)
  BY <1>1, Active, Paths DEF IInv
<1>3. CASE Fail(p) /\ UNCHANGED file
  BY <1>1, <1>3, FailKeeps
<1>4. CASE /\ file' = [file EXCEPT ![CPath(p)] = [is |-> "partial", code |-> loaded[p]]]
           /\ Goto(p, "write") /\ UNCHANGED exit
  <2>1. [is |-> "partial", code |-> loaded[p]] \in Content
    BY <1>1, <1>2, ContentIs DEF Stage, IInv, TypeOK
  <2>2. /\ file' \in [Places -> Content \cup {None}]
        /\ \A at \in Places \ {CPath(p)} : file'[at] = file[at]
        /\ CPath(p)' = CPath(p) /\ BinPath(p)' = BinPath(p) /\ Outputs(p)' = Outputs(p)
        /\ Live(p) => \A at \in Places : at.dir = call[p].dir /\ file'[at] # None => at \in Outputs(p)
    BY <1>1, <1>2, <1>4, <2>1, WriteIs
  <2>3. pc' = [pc EXCEPT ![p] = "write"]
    BY <1>4 DEF Goto
  <2>4. TypeOK'
    BY <1>1, <1>4, <2>2, <2>3 DEF IInv, TypeOK, Labels
  <2>5. pc'[p] = "write"
    BY <2>3 DEF IInv, TypeOK
  <2>6. OnlyOf(p)
    BY <1>1, <1>2, <1>4, <2>2, <2>3 DEF OnlyOf, IInv, TypeOK
  <2>7. Stage(p)'
    BY <1>1, <1>2, <1>4, <2>5 DEF Stage
  <2>8. Owned(p)'
    BY <2>5 DEF Owned
  <2>9. Live(p)' => Held(p)'
    BY <1>1, <2>2, <2>5 DEF Live, Held
  <2>10. QED
    BY <1>1, <2>4, <2>5, <2>6, <2>7, <2>8, <2>9, StepKeeps DEF Each
<1>5. QED
  BY <1>3, <1>4 DEF OpenC

LEMMA CloseCKeeps ==
  ASSUME IInv, NEW p \in Invocations, CloseC(p)
  PROVE  IInv'
<1>1. pc[p] = "write" /\ UNCHANGED <<dirs, call, loaded, object, ran, exit>>
  BY DEF CloseC
<1>2. call[p] # None /\ call[p].cmd \in {"build", "run"} /\ Stage(p) /\ CPath(p) \in Outputs(p)
  BY <1>1, Active, Paths DEF IInv
<1>3. PICK is \in {"c", "partial"} : file' = [file EXCEPT ![CPath(p)] = [is |-> is, code |-> loaded[p]]]
  BY DEF CloseC
<1> DEFINE v == [is |-> is, code |-> loaded[p]]
<1>4. v \in Content /\ v # None /\ v.is # "source" /\ v.code = loaded[p]
  BY <1>1, <1>2, ContentIs DEF Stage, IInv, TypeOK
<1> HIDE DEF v
<1>5. /\ file' \in [Places -> Content \cup {None}] /\ file'[CPath(p)] = v
      /\ \A at \in Places \ {CPath(p)} : file'[at] = file[at]
      /\ CPath(p)' = CPath(p) /\ BinPath(p)' = BinPath(p) /\ Outputs(p)' = Outputs(p)
      /\ Live(p) => \A at \in Places : at.dir = call[p].dir /\ file'[at] # None => at \in Outputs(p)
  <2>1. file' = [file EXCEPT ![CPath(p)] = v]
    BY <1>3 DEF v
  <2>2. QED
    BY <1>1, <1>2, <1>4, <2>1, WriteIs
<1>6. pc' = [pc EXCEPT ![p] = "gcc"]
  BY DEF CloseC, Goto
<1>7. TypeOK'
  BY <1>1, <1>5, <1>6 DEF IInv, TypeOK, Labels
<1>8. pc'[p] = "gcc"
  BY <1>6 DEF IInv, TypeOK
<1>9. OnlyOf(p)
  BY <1>1, <1>2, <1>5, <1>6 DEF OnlyOf, IInv, TypeOK
<1>10. Stage(p)'
  BY <1>1, <1>2, <1>8 DEF Stage
<1>11. Owned(p)'
  BY <1>1, <1>4, <1>5, <1>8 DEF Owned
<1>12. Live(p)' => Held(p)'
  BY <1>1, <1>5, <1>8 DEF Live, Held
<1>13. QED
  BY <1>1, <1>7, <1>8, <1>9, <1>10, <1>11, <1>12, StepKeeps DEF Each

(* What belongs to p alone keeps belonging to it.                          *)
LEMMA MineBefore ==
  ASSUME NEW p, call' = call, pc[p] # "done", Mine(p)'
  PROVE  Mine(p)
BY DEF Mine, Live, Contended, Outputs, CPath, BinPath

LEMMA GccKeeps ==
  ASSUME IInv, NEW p \in Invocations, Gcc(p)
  PROVE  IInv'
<1> DEFINE f == file[CPath(p)]
<1>1. pc[p] = "gcc" /\ UNCHANGED <<file, dirs, call, loaded, ran>>
  BY DEF Gcc
<1>2. call[p] # None /\ call[p].cmd \in {"build", "run"} /\ Stage(p)
  BY <1>1, Active
<1>3. CASE Fail(p) /\ UNCHANGED object
  BY <1>1, <1>3, FailKeeps
<1>4. CASE f # None /\ object' = [object EXCEPT ![p] = f.code] /\ Goto(p, "link") /\ UNCHANGED exit
  <2>1. f \in Content
    BY <1>2, <1>4, Paths DEF IInv, TypeOK
  <2>2. f.code \in Code /\ f.code # None
    BY <2>1, ContentIs
  <2>3. Mine(p) => f.code = loaded[p]
    BY <1>1 DEF IInv, Each, Owned
  <2>4. pc' = [pc EXCEPT ![p] = "link"]
    BY <1>4 DEF Goto
  <2> HIDE DEF f
  <2>5. TypeOK'
    BY <1>1, <1>4, <2>2, <2>4 DEF IInv, TypeOK, Labels
  <2>6. pc'[p] = "link" /\ object'[p] = f.code
    BY <1>4, <2>4 DEF IInv, TypeOK
  <2>7. OnlyOf(p)
    BY <1>1, <1>4, <2>4 DEF OnlyOf, IInv, TypeOK
  <2>8. Stage(p)'
    BY <1>1, <1>2, <1>4, <2>2, <2>6 DEF Stage
  <2>9. Mine(p)' => Owned(p)'
    BY <1>1, <2>3, <2>6, MineBefore DEF Owned
  <2>10. Live(p)' => Held(p)'
    BY <1>1, <2>6, HeldKeeps DEF Live
  <2>11. QED
    BY <1>1, <2>5, <2>6, <2>7, <2>8, <2>9, <2>10, StepKeeps DEF Each
<1>5. QED
  BY <1>3, <1>4 DEF Gcc

LEMMA LinkKeeps ==
  ASSUME IInv, NEW p \in Invocations, Link(p)
  PROVE  IInv'
<1> DEFINE v == [is |-> "binary", code |-> object[p]]
           l == IF call[p].cmd = "run" THEN "exec" ELSE "done"
<1>1. pc[p] = "link" /\ UNCHANGED <<dirs, call, loaded, object, ran>>
  BY DEF Link
<1>2. call[p] # None /\ call[p].cmd \in {"build", "run"} /\ Stage(p) /\ BinPath(p) \in Outputs(p)
  BY <1>1, Active, Paths DEF IInv
<1>3. CASE Fail(p) /\ UNCHANGED file
  BY <1>1, <1>3, FailKeeps
<1>4. CASE /\ file' = [file EXCEPT ![BinPath(p)] = v]
           /\ IF call[p].cmd = "run" THEN Goto(p, "exec") /\ UNCHANGED exit ELSE End(p, 0)
  <2>1. v \in Content
    BY <1>1, <1>2, ContentIs DEF Stage, IInv, TypeOK
  <2>2. Mine(p) => v = [is |-> "binary", code |-> loaded[p]]
    BY <1>1 DEF IInv, Each, Owned
  <2>3. file' = [file EXCEPT ![BinPath(p)] = v]
    BY <1>4
  <2> HIDE DEF v
  <2>4. /\ file' \in [Places -> Content \cup {None}] /\ file'[BinPath(p)] = v
        /\ \A at \in Places \ {BinPath(p)} : file'[at] = file[at]
        /\ CPath(p)' = CPath(p) /\ BinPath(p)' = BinPath(p) /\ Outputs(p)' = Outputs(p)
        /\ Live(p) => \A at \in Places : at.dir = call[p].dir /\ file'[at] # None => at \in Outputs(p)
    BY <1>1, <1>2, <2>1, <2>3, WriteIs
  <2>5. pc' = [pc EXCEPT ![p] = l]
    BY <1>4 DEF Goto, End
  <2>6. exit' = IF call[p].cmd = "run" THEN exit ELSE [exit EXCEPT ![p] = 0]
    BY <1>4 DEF End
  <2>7. l \in {"exec", "done"} /\ (l = "exec" <=> call[p].cmd = "run")
    OBVIOUS
  <2> HIDE DEF l
  <2>8. exit' \in [Invocations -> Statuses \cup {1, None}]
    BY <2>6, DriverAssumption DEF IInv, TypeOK
  <2>9. TypeOK'
    BY <1>1, <2>4, <2>5, <2>7, <2>8 DEF IInv, TypeOK, Labels
  <2>10. pc'[p] = l
    BY <2>5 DEF IInv, TypeOK
  <2>11. OnlyOf(p)
    BY <1>1, <1>2, <2>4, <2>5, <2>6 DEF OnlyOf, IInv, TypeOK
  <2>12. Stage(p)'
    BY <1>1, <1>2, <2>6, <2>7, <2>10 DEF Stage
  <2>13. Mine(p)' => Owned(p)'
    <3>1. Mine(p)' => Mine(p)
      BY <1>1, MineBefore
    <3>2. QED
      BY <1>1, <2>2, <2>4, <2>7, <2>10, <3>1 DEF Owned
  <2>14. Live(p)' => Held(p)'
    BY <1>1, <2>4, <2>7, <2>10 DEF Live, Held
  <2>15. pc'[p] = "done" => call[p].cmd = "build"
    BY <1>2, <2>7, <2>10
  <2>16. QED
    BY <1>1, <2>9, <2>11, <2>12, <2>13, <2>14, <2>15, StepKeeps DEF Each
<1>5. QED
  BY <1>3, <1>4 DEF Link

LEMMA ExecKeeps ==
  ASSUME IInv, NEW p \in Invocations, Exec(p)
  PROVE  IInv'
<1> DEFINE f == file[BinPath(p)]
<1>1. pc[p] = "exec" /\ UNCHANGED <<file, dirs, call, loaded, object>>
  BY DEF Exec
<1>2. call[p] # None /\ call[p].cmd = "run" /\ Stage(p) /\ BinPath(p) \in Places
  BY <1>1, Active, Paths DEF IInv, Stage
<1>3. CASE f # None /\ ran' = [ran EXCEPT ![p] = f.code] /\ Goto(p, "running") /\ UNCHANGED exit
  <2>1. f \in Content
    BY <1>2, <1>3 DEF IInv, TypeOK
  <2>2. f.code \in Code /\ f.code # None
    BY <2>1, ContentIs
  <2>3. f.code = loaded[p]
    <3>1. Mine(p)
      BY <1>1, <1>2 DEF Mine, Live
    <3>2. f = [is |-> "binary", code |-> loaded[p]]
      BY <1>1, <3>1 DEF IInv, Each, Owned
    <3>3. QED
      BY <3>2
  <2>4. pc' = [pc EXCEPT ![p] = "running"]
    BY <1>3 DEF Goto
  <2> HIDE DEF f
  <2>5. TypeOK'
    BY <1>1, <1>3, <2>2, <2>4 DEF IInv, TypeOK, Labels
  <2>6. pc'[p] = "running" /\ ran'[p] = f.code
    BY <1>3, <2>4 DEF IInv, TypeOK
  <2>7. OnlyOf(p)
    BY <1>1, <1>3, <2>4 DEF OnlyOf, IInv, TypeOK
  <2>8. Stage(p)'
    BY <1>1, <1>2, <1>3, <2>2, <2>3, <2>6 DEF Stage
  <2>9. Owned(p)'
    BY <2>6 DEF Owned
  <2>10. Live(p)' => Held(p)'
    BY <1>1, <2>6, HeldKeeps DEF Live
  <2>11. QED
    BY <1>1, <2>5, <2>6, <2>7, <2>8, <2>9, <2>10, StepKeeps DEF Each
<1>4. ASSUME NEW status \in Statuses \cap {1, 127}, exit' = [exit EXCEPT ![p] = status],
             Goto(p, "removeC"), UNCHANGED ran
      PROVE  IInv'
  <2>1. pc' = [pc EXCEPT ![p] = "removeC"] /\ status # 0
    BY <1>4 DEF Goto
  <2>2. TypeOK'
    BY <1>1, <1>4, <2>1 DEF IInv, TypeOK, Labels
  <2>3. pc'[p] = "removeC" /\ exit'[p] = status
    BY <1>4, <2>1 DEF IInv, TypeOK
  <2>4. OnlyOf(p)
    BY <1>1, <1>4, <2>1 DEF OnlyOf, IInv, TypeOK
  <2>5. Stage(p)'
    BY <1>1, <1>2, <1>4, <2>1, <2>3 DEF Stage
  <2>6. Owned(p)'
    BY <2>3 DEF Owned
  <2>7. Live(p)' => Held(p)'
    BY <1>1, <2>3, HeldKeeps DEF Live
  <2>8. QED
    BY <1>1, <2>2, <2>3, <2>4, <2>5, <2>6, <2>7, StepKeeps DEF Each
<1>5. QED
  BY <1>3, <1>4 DEF Exec

LEMMA ProgramEndsKeeps ==
  ASSUME IInv, NEW p \in Invocations, ProgramEnds(p)
  PROVE  IInv'
<1>1. pc[p] = "running" /\ UNCHANGED <<file, dirs, call, loaded, object, ran>>
  BY DEF ProgramEnds
<1>2. call[p] # None /\ call[p].cmd = "run" /\ Stage(p)
  BY <1>1, Active DEF Stage
<1>3. PICK status \in Statuses : exit' = [exit EXCEPT ![p] = status]
  BY DEF ProgramEnds
<1>4. pc' = [pc EXCEPT ![p] = "removeC"]
  BY DEF ProgramEnds, Goto
<1>5. TypeOK'
  BY <1>1, <1>3, <1>4 DEF IInv, TypeOK, Labels
<1>6. pc'[p] = "removeC"
  BY <1>4 DEF IInv, TypeOK
<1>7. OnlyOf(p)
  BY <1>1, <1>3, <1>4 DEF OnlyOf, IInv, TypeOK
<1>8. Stage(p)'
  BY <1>1, <1>2, <1>6 DEF Stage
<1>9. Owned(p)'
  BY <1>6 DEF Owned
<1>10. Live(p)' => Held(p)'
  BY <1>1, <1>6, HeldKeeps DEF Live
<1>11. QED
  BY <1>1, <1>5, <1>6, <1>7, <1>8, <1>9, <1>10, StepKeeps DEF Each

LEMMA RemoveCKeeps ==
  ASSUME IInv, NEW p \in Invocations, RemoveC(p)
  PROVE  IInv'
<1>1. /\ pc[p] = "removeC" /\ UNCHANGED <<dirs, call, loaded, object, ran, exit>>
      /\ file' = [file EXCEPT ![CPath(p)] = None]
  BY DEF RemoveC
<1>2. call[p] # None /\ call[p].cmd = "run" /\ Stage(p) /\ CPath(p) \in Outputs(p)
  BY <1>1, Active, Paths DEF IInv, Stage
<1>3. /\ file' \in [Places -> Content \cup {None}] /\ file'[CPath(p)] = None
      /\ \A at \in Places \ {CPath(p)} : file'[at] = file[at]
      /\ CPath(p)' = CPath(p) /\ BinPath(p)' = BinPath(p) /\ Outputs(p)' = Outputs(p)
      /\ Live(p) => \A at \in Places : at.dir = call[p].dir /\ file'[at] # None => at \in Outputs(p)
  BY <1>1, <1>2, WriteIs
<1>4. pc' = [pc EXCEPT ![p] = "removeBinary"]
  BY DEF RemoveC, Goto
<1>5. TypeOK'
  BY <1>1, <1>3, <1>4 DEF IInv, TypeOK, Labels
<1>6. pc'[p] = "removeBinary"
  BY <1>4 DEF IInv, TypeOK
<1>7. OnlyOf(p)
  BY <1>1, <1>2, <1>3, <1>4 DEF OnlyOf, IInv, TypeOK
<1>8. Stage(p)'
  BY <1>1, <1>2, <1>6 DEF Stage
<1>9. Owned(p)'
  BY <1>6 DEF Owned
<1>10. Live(p)' => Held(p)'
  BY <1>1, <1>3, <1>6 DEF Live, Held
<1>11. QED
  BY <1>1, <1>5, <1>6, <1>7, <1>8, <1>9, <1>10, StepKeeps DEF Each

LEMMA RemoveBinaryKeeps ==
  ASSUME IInv, NEW p \in Invocations, RemoveBinary(p)
  PROVE  IInv'
<1>1. /\ pc[p] = "removeBinary" /\ UNCHANGED <<dirs, call, loaded, object, ran, exit>>
      /\ file' = [file EXCEPT ![BinPath(p)] = None]
  BY DEF RemoveBinary
<1>2. /\ call[p] # None /\ call[p].cmd = "run" /\ Stage(p) /\ BinPath(p) \in Outputs(p)
      /\ CPath(p) \in Places /\ CPath(p) # BinPath(p)
  BY <1>1, Active, Paths DEF IInv, Stage
<1>3. /\ file' \in [Places -> Content \cup {None}] /\ file'[BinPath(p)] = None
      /\ \A at \in Places \ {BinPath(p)} : file'[at] = file[at]
      /\ CPath(p)' = CPath(p) /\ BinPath(p)' = BinPath(p) /\ Outputs(p)' = Outputs(p)
      /\ Live(p) => \A at \in Places : at.dir = call[p].dir /\ file'[at] # None => at \in Outputs(p)
  BY <1>1, <1>2, WriteIs
<1>4. pc' = [pc EXCEPT ![p] = "rmdir"]
  BY DEF RemoveBinary, Goto
<1>5. TypeOK'
  BY <1>1, <1>3, <1>4 DEF IInv, TypeOK, Labels
<1>6. pc'[p] = "rmdir"
  BY <1>4 DEF IInv, TypeOK
<1>7. OnlyOf(p)
  BY <1>1, <1>2, <1>3, <1>4 DEF OnlyOf, IInv, TypeOK
<1>8. Stage(p)'
  BY <1>1, <1>2, <1>6 DEF Stage
<1>9. Owned(p)'
  BY <1>6 DEF Owned
<1>10. Live(p)' => Held(p)'
  <2>1. Live(p) => Held(p)
    BY DEF IInv, Each
  <2>2. Live(p) => file'[CPath(p)] = None
    BY <1>1, <1>2, <1>3, <2>1 DEF Held
  <2>3. QED
    BY <1>1, <1>3, <1>6, <2>2 DEF Live, Held
<1>11. QED
  BY <1>1, <1>5, <1>6, <1>7, <1>8, <1>9, <1>10, StepKeeps DEF Each

LEMMA InterruptKeeps ==
  ASSUME IInv, NEW p \in Invocations, Interrupt(p)
  PROVE  IInv'
<1>1. pc[p] \notin {"idle", "done"} /\ UNCHANGED <<file, dirs, call, loaded, object, ran, exit>>
  BY DEF Interrupt
<1>2. call[p] # None /\ Stage(p)
  BY <1>1, Active
<1>3. pc' = [pc EXCEPT ![p] = "killed"]
  BY DEF Interrupt, Goto
<1>4. TypeOK'
  BY <1>1, <1>3 DEF IInv, TypeOK, Labels
<1>5. pc'[p] = "killed"
  BY <1>3 DEF IInv, TypeOK
<1>6. OnlyOf(p)
  BY <1>1, <1>3 DEF OnlyOf, IInv, TypeOK
<1>7. Stage(p)'
  BY <1>1, <1>2, <1>5 DEF Stage
<1>8. Owned(p)'
  BY <1>5 DEF Owned
<1>9. Live(p)' => Held(p)'
  BY <1>1, <1>5, HeldKeeps DEF Live
<1>10. QED
  BY <1>1, <1>4, <1>5, <1>6, <1>7, <1>8, <1>9, StepKeeps DEF Each

LEMMA RemoveDirKeeps ==
  ASSUME IInv, NEW p \in Invocations, RemoveDir(p)
  PROVE  IInv'
<1>1. pc[p] = "rmdir" /\ UNCHANGED <<file, call, loaded, object, ran, exit>>
  BY DEF RemoveDir
<1>2. call[p] # None /\ call[p].cmd = "run" /\ Stage(p) /\ Live(p) /\ Held(p)
  BY <1>1, Active DEF Stage, Live, IInv, Each
<1>3. \A at \in Places : at.dir = call[p].dir => file[at] = None
  BY <1>1, <1>2 DEF Held, Outputs
<1>4. dirs' = dirs \ {call[p].dir} /\ pc' = [pc EXCEPT ![p] = "done"]
  BY <1>3 DEF RemoveDir, Goto
<1>5. TypeOK'
  BY <1>1, <1>4 DEF IInv, TypeOK, Labels
<1>6. pc'[p] = "done" /\ \A q \in Invocations \ {p} : pc'[q] = pc[q]
  BY <1>4 DEF IInv, TypeOK
<1>7. ~Live(p)' /\ \A q \in Invocations \ {p} : Live(q)' <=> Live(q)
  BY <1>1, <1>6 DEF Live
<1>8. \A q \in Invocations : /\ CPath(q)' = CPath(q) /\ BinPath(q)' = BinPath(q)
                             /\ Outputs(q)' = Outputs(q)
  BY <1>1 DEF CPath, BinPath, Outputs
<1>9. Separate'
  BY <1>1, <1>2, <1>4, <1>7 DEF IInv, Separate
<1>10. NothingLeft'
  <2>1. ASSUME NEW d \in dirs' PROVE \E q \in Invocations : call'[q] # None /\ call'[q].dir = d /\ pc'[q] # "done"
    <3>1. PICK q \in Invocations : call[q] # None /\ call[q].dir = d /\ pc[q] # "done"
      BY <1>4 DEF IInv, NothingLeft
    <3>2. q # p
      BY <1>4, <3>1
    <3>3. QED
      BY <1>1, <1>6, <3>1, <3>2
  <2>2. ASSUME NEW at \in Places, at.dir # Here, file'[at] # None PROVE at.dir \in dirs'
    BY <1>1, <1>3, <1>4, <2>2 DEF IInv, NothingLeft
  <2>3. QED
    BY <2>1, <2>2 DEF NothingLeft
<1>11. ASSUME NEW q \in Invocations PROVE Each(q)'
  <2>1. CASE q = p
    <3>1. Stage(p)'
      BY <1>1, <1>2, <1>6 DEF Stage
    <3>2. ~Mine(p)'
      BY <1>1, <1>2, <1>7 DEF Mine
    <3>3. QED
      BY <1>7, <2>1, <3>1, <3>2 DEF Each
  <2>2. CASE q # p
    <3>1. Each(q)
      BY DEF IInv
    <3>2. Stage(q)'
      BY <1>1, <1>6, <2>2, <3>1 DEF Each, Stage
    <3>3. Mine(q)' => Mine(q)
      BY <1>1, <1>7, <1>8, <2>2 DEF Mine, Contended
    <3>4. Owned(q) => Owned(q)'
      BY <1>1, <1>6, <1>8, <2>2 DEF Owned
    <3>5. Held(q) => Held(q)'
      BY <1>1, <1>6, <1>8, <2>2 DEF Held
    <3>6. QED
      BY <1>7, <2>2, <3>1, <3>2, <3>3, <3>4, <3>5 DEF Each
  <2>3. QED
    BY <2>1, <2>2
<1>12. QED
  BY <1>5, <1>9, <1>10, <1>11 DEF IInv

-------------------------------------------------------------------------------
(* The start of an invocation, and the user's edits *)

(* A new invocation works here, or in a directory nobody had.              *)
LEMMA StartKeeps ==
  ASSUME IInv, NEW p \in Invocations, pc[p] = "idle", NEW k \in Call,
         call' = [call EXCEPT ![p] = k], pc' = [pc EXCEPT ![p] = "load"],
         UNCHANGED <<file, loaded, object, ran, exit>>,
         \/ k.cmd = "build" /\ k.dir = Here /\ dirs' = dirs
         \/ k.cmd = "run" /\ k.dir \in Scratch \ dirs /\ dirs' = dirs \cup {k.dir}
  PROVE  IInv'
<1>1. k # None /\ (k.cmd = "build" => k.dir = Here) /\ (k.cmd = "run" => k.dir \in Scratch \ dirs)
  BY CallIs
<1>2. call[p] = None /\ exit[p] = None /\ ran[p] = None
  BY DEF IInv, Each, Stage
<1>3. /\ call'[p] = k /\ pc'[p] = "load"
      /\ \A q \in Invocations \ {p} : call'[q] = call[q] /\ pc'[q] = pc[q]
  BY DEF IInv, TypeOK
<1>4. dirs \subseteq dirs' /\ dirs' \subseteq dirs \cup {k.dir} /\ (k.cmd = "run" => k.dir \in dirs')
  BY <1>1
<1>5. TypeOK'
  BY <1>4, <1>1, DriverAssumption DEF IInv, TypeOK, Labels
<1>6. \A q \in Invocations \ {p} : Live(q)' <=> Live(q)
  BY <1>3 DEF Live
<1>7. ASSUME NEW q \in Invocations \ {p}
      PROVE  CPath(q)' = CPath(q) /\ BinPath(q)' = BinPath(q) /\ Outputs(q)' = Outputs(q)
  BY <1>3 DEF CPath, BinPath, Outputs
<1>8. Live(p)' => k.cmd = "run"
  BY <1>3 DEF Live
<1>9. Separate'
  <2>1. \A q \in Invocations : call'[q] # None =>
          IF call'[q].cmd = "build" THEN call'[q].dir = Here ELSE call'[q].dir \in Scratch
    BY <1>1, <1>3, CallIs DEF IInv, Separate
  <2>2. \A q \in Invocations : Live(q)' => call'[q].dir \in dirs'
    BY <1>3, <1>4, <1>6, <1>8 DEF IInv, Separate
  <2>3. \A q \in Invocations \ {p} : Live(p)' /\ Live(q)' => call'[p].dir # call'[q].dir
    BY <1>1, <1>3, <1>6, <1>8 DEF IInv, Separate
  <2>4. \A q, r \in Invocations \ {p} : q # r /\ Live(q)' /\ Live(r)' => call'[q].dir # call'[r].dir
    BY <1>3, <1>6 DEF IInv, Separate
  <2>5. QED
    BY <2>1, <2>2, <2>3, <2>4 DEF Separate
<1>10. NothingLeft'
  <2>1. ASSUME NEW d \in dirs' PROVE \E q \in Invocations : call'[q] # None /\ call'[q].dir = d /\ pc'[q] # "done"
    <3>1. CASE d = k.dir
      BY <1>1, <1>3, <3>1
    <3>2. CASE d # k.dir
      <4>1. PICK q \in Invocations : call[q] # None /\ call[q].dir = d /\ pc[q] # "done"
        BY <1>4, <3>2 DEF IInv, NothingLeft
      <4>2. QED
        BY <1>2, <1>3, <4>1
    <3>3. QED
      BY <3>1, <3>2
  <2>2. \A at \in Places : at.dir # Here /\ file'[at] # None => at.dir \in dirs'
    BY <1>4 DEF IInv, NothingLeft
  <2>3. QED
    BY <2>1, <2>2 DEF NothingLeft
<1>11. Each(p)'
  <2>1. Stage(p)'
    BY <1>1, <1>2, <1>3, DriverAssumption DEF Stage
  <2>2. Owned(p)'
    BY <1>3 DEF Owned
  <2>3. ASSUME Live(p)' PROVE Held(p)'
    <3>1. k.dir \in Scratch \ dirs /\ k.dir # Here
      BY <1>1, <1>8, <2>3, DriverAssumption
    <3>2. \A at \in Places : at.dir = k.dir => file[at] = None
      BY <3>1 DEF IInv, NothingLeft
    <3>3. QED
      BY <1>3, <3>2 DEF Held
  <2>4. QED
    BY <2>1, <2>2, <2>3 DEF Each
<1>12. ASSUME NEW q \in Invocations \ {p} PROVE Each(q)'
  <2>1. Each(q)
    BY DEF IInv
  <2>2. Stage(q)'
    BY <1>3, <2>1 DEF Each, Stage
  <2>3. ASSUME Mine(q)' PROVE Mine(q)
    <3>1. CASE Live(q)'
      BY <1>3, <1>6, <3>1 DEF Mine, Live
    <3>2. CASE call'[q] # None /\ call'[q].cmd = "build" /\ ~Contended(q)'
      <4>1. ~Contended(q)
        BY <1>2, <1>3, <1>7, <3>2 DEF Contended
      <4>2. QED
        BY <1>3, <3>2, <4>1 DEF Mine
    <3>3. QED
      BY <2>3, <3>1, <3>2 DEF Mine
  <2>4. Owned(q) => Owned(q)'
    BY <1>3, <1>7 DEF Owned
  <2>5. Held(q) => Held(q)'
    BY <1>3, <1>7 DEF Held
  <2>6. QED
    BY <1>6, <2>1, <2>2, <2>3, <2>4, <2>5 DEF Each
<1>13. QED
  BY <1>5, <1>9, <1>10, <1>11, <1>12 DEF IInv

LEMMA StartBuildKeeps ==
  ASSUME IInv, NEW p \in Invocations, NEW s \in Sources, StartBuild(p, s)
  PROVE  IInv'
<1> DEFINE k == [cmd |-> "build", src |-> s, dir |-> Here]
<1>1. /\ pc[p] = "idle" /\ call' = [call EXCEPT ![p] = k] /\ pc' = [pc EXCEPT ![p] = "load"]
      /\ UNCHANGED <<file, dirs, loaded, object, ran, exit>>
  BY DEF StartBuild, Goto
<1>2. k \in Call /\ k.cmd = "build" /\ k.dir = Here
  BY DEF Call
<1> HIDE DEF k
<1>3. QED
  BY <1>1, <1>2, StartKeeps

LEMMA StartRunKeeps ==
  ASSUME IInv, NEW p \in Invocations, NEW s \in Sources, StartRun(p, s)
  PROVE  IInv'
<1>1. pc[p] = "idle" /\ UNCHANGED <<file, loaded, object, ran>>
  BY DEF StartRun
<1>2. ASSUME NEW d \in Scratch \ dirs, dirs' = dirs \cup {d},
             call' = [call EXCEPT ![p] = [cmd |-> "run", src |-> s, dir |-> d]],
             Goto(p, "load"), UNCHANGED exit
      PROVE  IInv'
  <2> DEFINE k == [cmd |-> "run", src |-> s, dir |-> d]
  <2>1. call' = [call EXCEPT ![p] = k] /\ pc' = [pc EXCEPT ![p] = "load"]
    BY <1>2 DEF Goto
  <2>2. k \in Call /\ k.cmd = "run" /\ k.dir = d
    BY DEF Call
  <2> HIDE DEF k
  <2>3. QED
    BY <1>1, <1>2, <2>1, <2>2, StartKeeps
<1>3. ASSUME End(p, 1), UNCHANGED <<dirs, call>> PROVE IInv'
  <2>1. pc' = [pc EXCEPT ![p] = "done"] /\ exit' = [exit EXCEPT ![p] = 1]
    BY <1>3 DEF End, Goto
  <2>2. TypeOK'
    BY <1>1, <1>3, <2>1 DEF IInv, TypeOK, Labels
  <2>3. /\ pc'[p] = "done" /\ exit'[p] = 1
        /\ \A q \in Invocations \ {p} : pc'[q] = pc[q] /\ exit'[q] = exit[q]
    BY <2>1 DEF IInv, TypeOK
  <2>4. call[p] = None /\ ran[p] = None
    BY <1>1 DEF IInv, Each, Stage
  <2>5. ASSUME NEW q \in Invocations
        PROVE  /\ CPath(q)' = CPath(q) /\ BinPath(q)' = BinPath(q) /\ Outputs(q)' = Outputs(q)
               /\ (Live(q)' <=> Live(q)) /\ (Mine(q)' <=> Mine(q))
    BY <1>3, <2>3, <2>4 DEF CPath, BinPath, Outputs, Live, Mine, Contended
  <2>6. Separate'
    BY <1>3, <2>5 DEF IInv, Separate
  <2>7. NothingLeft'
    BY <1>1, <1>3, <2>3, <2>4 DEF IInv, NothingLeft
  <2>8. ASSUME NEW q \in Invocations PROVE Each(q)'
    <3>1. CASE q = p
      <4>1. Stage(p)' /\ ~Mine(p)' /\ ~Live(p)'
        BY <1>1, <1>3, <2>3, <2>4 DEF Stage, Mine, Live
      <4>2. QED
        BY <3>1, <4>1 DEF Each
    <3>2. CASE q # p
      <4>1. Stage(q)' /\ (Owned(q) => Owned(q)') /\ (Held(q) => Held(q)')
        BY <1>1, <1>3, <2>3, <2>5, <3>2 DEF IInv, Each, Stage, Owned, Held
      <4>2. QED
        BY <2>5, <4>1 DEF IInv, Each
    <3>3. QED
      BY <3>1, <3>2
  <2>9. QED
    BY <2>2, <2>6, <2>7, <2>8 DEF IInv
<1>4. QED
  BY <1>2, <1>3 DEF StartRun

(* A source changes, and no output is one.                                 *)
LEMMA EditKeeps ==
  ASSUME IInv, NEW s \in Sources, Edit(s)
  PROVE  IInv'
<1> DEFINE at == [dir |-> Here, name |-> s]
<1>1. /\ file[at] # None /\ file[at].is = "source" /\ file[at].code[2] < MaxEdits
      /\ file' = [file EXCEPT ![at].code[2] = @ + 1]
      /\ UNCHANGED <<dirs, pc, call, loaded, object, ran, exit>>
  BY DEF Edit
<1>2. at \in Places /\ at.dir = Here
  BY DEF Places, FileNames
<1>3. file[at] \in Content
  BY <1>1, <1>2 DEF IInv, TypeOK
<1> HIDE DEF at
<1> DEFINE v == [file[at] EXCEPT !.code[2] = @ + 1]
<1>4. v \in Content
  <2>1. PICK is \in {"source", "c", "partial", "binary"}, code \in Code : file[at] = [is |-> is, code |-> code]
    BY <1>3 DEF Content
  <2>2. PICK t \in Sources, n \in 0 .. MaxEdits : code = <<t, n>>
    BY DEF Code
  <2>3. v = [is |-> is, code |-> <<t, n + 1>>]
    BY <2>1, <2>2
  <2>4. n + 1 \in 0 .. MaxEdits
    BY <1>1, <2>1, <2>2, DriverAssumption
  <2>5. <<t, n + 1>> \in Code
    BY <2>4 DEF Code
  <2>6. QED
    BY <2>3, <2>5, ContentIs
<1>5. file' = [file EXCEPT ![at] = v]
  BY <1>1
<1> HIDE DEF v
<1>6. /\ file' \in [Places -> Content \cup {None}]
      /\ \A to \in Places : to # at => file'[to] = file[to]
  BY <1>2, <1>4, <1>5 DEF IInv, TypeOK
<1>7. TypeOK' /\ Separate'
  BY <1>1, <1>6 DEF IInv, TypeOK, Separate, Live
<1>8. NothingLeft'
  BY <1>1, <1>2, <1>6 DEF IInv, NothingLeft
<1>9. ASSUME NEW q \in Invocations PROVE Each(q)'
  <2>1. Each(q)
    BY DEF IInv
  <2>2. Stage(q)'
    BY <1>1, <2>1 DEF Each, Stage
  <2>3. /\ CPath(q)' = CPath(q) /\ BinPath(q)' = BinPath(q) /\ Outputs(q)' = Outputs(q)
        /\ (Live(q)' <=> Live(q)) /\ (Mine(q)' <=> Mine(q))
    BY <1>1 DEF CPath, BinPath, Outputs, Live, Mine, Contended
  <2>4. ASSUME Mine(q) PROVE Owned(q)'
    <3>1. Owned(q) /\ CPath(q) \in Places /\ BinPath(q) \in Places
      BY <2>1, <2>4, Paths DEF Each, Mine, IInv
    <3>2. pc[q] = "gcc" => file'[CPath(q)] = file[CPath(q)]
      BY <1>1, <1>6, <3>1 DEF Owned
    <3>3. pc[q] = "exec" => file'[BinPath(q)] = file[BinPath(q)]
      BY <1>1, <1>6, <3>1 DEF Owned
    <3>4. pc[q] = "done" /\ exit[q] = 0 => file'[BinPath(q)] = file[BinPath(q)]
      BY <1>1, <1>6, <3>1 DEF Owned
    <3>5. QED
      BY <1>1, <2>3, <3>1, <3>2, <3>3, <3>4 DEF Owned
  <2>5. ASSUME Live(q) PROVE Held(q)'
    <3>1. Held(q) /\ call[q].dir \in Scratch /\ call[q].dir # Here /\ call[q] # None
      BY <2>1, <2>5, DriverAssumption DEF Each, Live, IInv, Separate
    <3>2. \A to \in Places : to.dir = call[q].dir => file'[to] = file[to]
      BY <1>2, <1>6, <3>1
    <3>3. file'[CPath(q)] = file[CPath(q)] /\ file'[BinPath(q)] = file[BinPath(q)]
      BY <3>1, <3>2, Paths DEF IInv
    <3>4. QED
      BY <1>1, <2>3, <3>1, <3>2, <3>3 DEF Held
  <2>6. QED
    BY <2>2, <2>3, <2>4, <2>5 DEF Each
<1>10. QED
  BY <1>7, <1>8, <1>9 DEF IInv

-------------------------------------------------------------------------------
(* The invariant of the specification *)

LEMMA IInvInit == Init => IInv
<1> SUFFICES ASSUME Init PROVE IInv
  OBVIOUS
<1>1. /\ pc = [p \in Invocations |-> "idle"] /\ call = [p \in Invocations |-> None]
      /\ loaded = [p \in Invocations |-> None] /\ object = [p \in Invocations |-> None]
      /\ ran = [p \in Invocations |-> None] /\ exit = [p \in Invocations |-> None] /\ dirs = {}
  BY DEF Init
<1>2. file \in [Places -> Content \cup {None}]
  <2>1. ASSUME NEW s \in Sources PROVE [is |-> "source", code |-> <<s, 0>>] \in Content
    BY DriverAssumption, ContentIs DEF Code
  <2>2. QED
    BY <2>1 DEF Init
<1>3. TypeOK
  BY <1>1, <1>2 DEF TypeOK, Labels
<1>4. \A at \in Places : at.dir # Here => file[at] = None
  BY DEF Init
<1>5. Separate /\ NothingLeft
  BY <1>1, <1>4 DEF Separate, NothingLeft, Live
<1>6. \A p \in Invocations : Each(p)
  BY <1>1 DEF Each, Stage, Mine, Live
<1>7. QED
  BY <1>3, <1>5, <1>6 DEF IInv

LEMMA IInvNext == IInv /\ [Next]_vars => IInv'
<1> SUFFICES ASSUME IInv, [Next]_vars PROVE IInv'
  OBVIOUS
<1>1. ASSUME NEW s \in Sources, Edit(s) PROVE IInv'
  BY <1>1, EditKeeps
<1>2. ASSUME NEW p \in Invocations, NEW s \in Sources, StartBuild(p, s) \/ StartRun(p, s) PROVE IInv'
  BY <1>2, StartBuildKeeps, StartRunKeeps
<1>3. ASSUME NEW p \in Invocations, Step(p) PROVE IInv'
  BY <1>3, LoadKeeps, OpenCKeeps, CloseCKeeps, GccKeeps, LinkKeeps, ExecKeeps, RemoveCKeeps,
     RemoveBinaryKeeps, RemoveDirKeeps DEF Step
<1>4. ASSUME NEW p \in Invocations, ProgramEnds(p) \/ Interrupt(p) PROVE IInv'
  BY <1>4, ProgramEndsKeeps, InterruptKeeps
<1>5. CASE UNCHANGED vars
  BY <1>5 DEF vars, IInv, TypeOK, Separate, NothingLeft, Each, Stage, Mine, Live, Owned, Held,
     Contended, Outputs, CPath, BinPath
<1>6. QED
  BY <1>1, <1>2, <1>3, <1>4, <1>5 DEF Next

LEMMA Invariant == Spec => []IInv
BY IInvInit, IInvNext, PTL DEF Spec

-------------------------------------------------------------------------------
(* What the specification has *)

(* The shape of the file system and of the invocations (the state of       *)
(* main.c's build and run) holds of any number of them.                    *)
THEOREM TypeCorrect == Spec => []TypeOK
<1>1. IInv => TypeOK
  BY DEF IInv
<1>2. QED
  BY <1>1, Invariant, PTL

(* `run` executes the program it read, whoever edits, builds or runs what  *)
(* meanwhile, and succeeds only when that program ran; `build` leaves a    *)
(* binary of what it read unless another writes the same outputs.          *)
THEOREM WhatIsReadIsKept == Spec => []KeepsItsOwn
<1>1. ASSUME IInv PROVE RunsItsOwn
  BY <1>1 DEF IInv, Each, Stage, RunsItsOwn
<1>2. ASSUME IInv PROVE BuildsItsOwn
  BY <1>2 DEF IInv, Each, Mine, Owned, BuildsItsOwn
<1>3. IInv => KeepsItsOwn
  BY <1>1, <1>2 DEF KeepsItsOwn
<1>4. QED
  BY <1>3, Invariant, PTL

(* A scratch directory, and what is in one, belongs to a `run` that has    *)
(* not come to its end: cmd_run removes what it made on every path.        *)
THEOREM RunCleansUp == Spec => []NothingLeft
<1>1. IInv => NothingLeft
  BY DEF IInv
<1>2. QED
  BY <1>1, Invariant, PTL
===============================================================================
