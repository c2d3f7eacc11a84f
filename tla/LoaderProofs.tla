----------------------------- MODULE LoaderProofs ------------------------------
(***************************************************************************)
(* Proofs about Loader, for any files on the disk and any paths between    *)
(* them: the types, that each file is loaded once, that the files loaded   *)
(* are those that involve reaches, that the index the parser gives a type  *)
(* is where the program declares it, and that an error is where the        *)
(* diagnostic says.                                                        *)
(***************************************************************************)
EXTENDS Loader, SequenceTheorems, WellFoundedInduction, TLAPS

-------------------------------------------------------------------------------
(* The searches of the model *)

LEMMA LeastIn ==
  ASSUME NEW T \in SUBSET Nat, T # {}
  PROVE  \E n \in T : \A m \in T : n <= m
<1>1. IsWellFoundedOn(OpToRel(<, Nat), Nat)
  BY NatLessThanWellFounded
<1>2. PICK n \in T : \A m \in T : ~(<<m, n>> \in OpToRel(<, Nat))
  BY <1>1, WFMin
<1>3. \A m \in T : ~(m < n)
  BY <1>2 DEF OpToRel
<1>4. QED
  BY <1>3

LEMMA ItemIs ==
  ASSUME NEW item \in Item
  PROVE  /\ item.kind = "involve" => item.name \in Paths
         /\ item.kind \in {"struct", "enum", "fr", "broken"} => item.name \in Names
BY DEF Item

(* The next involve is one, and there is none before it.                   *)
LEMMA NextRefIs ==
  ASSUME NEW f, NEW n \in Nat, n = Len(disk[f]), NEW k \in 1 .. n + 1
  PROVE  /\ NextRef(f, k) \in k .. n + 1
         /\ NextRef(f, k) <= n => disk[f][NextRef(f, k)].kind = "involve"
         /\ \A j \in k .. NextRef(f, k) - 1 : disk[f][j].kind # "involve"
<1> DEFINE Ref(i) == i = n + 1 \/ disk[f][i].kind = "involve"
           T == {i \in k .. n + 1 : Ref(i)}
           First(i) == /\ i = n + 1 \/ disk[f][i].kind = "involve"
                       /\ \A j \in k .. i - 1 : disk[f][j].kind # "involve"
<1>1. T \in SUBSET Nat /\ n + 1 \in T
  OBVIOUS
<1> HIDE DEF T
<1>2. PICK i \in T : \A m \in T : i <= m
  <2>1. T # {}
    BY <1>1
  <2>2. QED
    BY <1>1, <2>1, LeastIn
<1>3. i \in k .. n + 1 /\ First(i)
  <2>1. i \in k .. n + 1 /\ Ref(i)
    BY <1>2 DEF T
  <2>2. ASSUME NEW j \in k .. i - 1 PROVE disk[f][j].kind # "involve"
    <3>1. j \notin T
      BY <1>2, <2>1
    <3>2. j \in k .. n + 1
      BY <2>1
    <3>3. QED
      BY <3>1, <3>2 DEF T
  <2>3. QED
    BY <2>1, <2>2
<1>4. NextRef(f, k) = CHOOSE m \in k .. n + 1 : First(m)
  BY DEF NextRef
<1> HIDE DEF First
<1>5. NextRef(f, k) \in k .. n + 1 /\ First(NextRef(f, k))
  BY <1>3, <1>4
<1>6. QED
  BY <1>5 DEF First

LEMMA FirstGarbageIs ==
  ASSUME NEW f, NEW n \in Nat, n = Len(disk[f]), ~Lexes(f)
  PROVE  FirstGarbage(f) \in 1 .. n /\ disk[f][FirstGarbage(f)].kind = "garbage"
<1> DEFINE T == {i \in 1 .. n : disk[f][i].kind = "garbage"}
           First(i) == /\ disk[f][i].kind = "garbage"
                       /\ \A j \in 1 .. i - 1 : disk[f][j].kind # "garbage"
<1>1. T \in SUBSET Nat /\ T # {}
  BY DEF Lexes
<1> HIDE DEF T
<1>2. PICK i \in T : \A m \in T : i <= m
  BY <1>1, LeastIn
<1>3. i \in 1 .. n /\ First(i)
  <2>1. i \in 1 .. n /\ disk[f][i].kind = "garbage"
    BY <1>2 DEF T
  <2>2. ASSUME NEW j \in 1 .. i - 1 PROVE disk[f][j].kind # "garbage"
    <3>1. j \notin T
      BY <1>2, <2>1
    <3>2. j \in 1 .. n
      BY <2>1
    <3>3. QED
      BY <3>1, <3>2 DEF T
  <2>3. QED
    BY <2>1, <2>2
<1>4. FirstGarbage(f) = CHOOSE m \in 1 .. n : First(m)
  BY DEF FirstGarbage
<1> HIDE DEF First
<1>5. FirstGarbage(f) \in 1 .. n /\ First(FirstGarbage(f))
  BY <1>3, <1>4
<1>6. QED
  BY <1>5 DEF First

(* The first place of a name in a list is a place of it.                   *)
LEMMA IndexInIs ==
  ASSUME NEW list \in Seq(Names), NEW n \in Range(list)
  PROVE  IndexIn(list, n) \in 1 .. Len(list) /\ list[IndexIn(list, n)] = n
<1> DEFINE T == {i \in 1 .. Len(list) : list[i] = n}
           First(i) == list[i] = n /\ \A j \in 1 .. i - 1 : list[j] # n
<1>1. T \in SUBSET Nat /\ T # {}
  BY DEF Range
<1> HIDE DEF T
<1>2. PICK i \in T : \A m \in T : i <= m
  BY <1>1, LeastIn
<1>3. i \in 1 .. Len(list) /\ First(i)
  <2>1. i \in 1 .. Len(list) /\ list[i] = n
    BY <1>2 DEF T
  <2>2. ASSUME NEW j \in 1 .. i - 1 PROVE list[j] # n
    <3>1. j \notin T
      BY <1>2, <2>1
    <3>2. j \in 1 .. Len(list)
      BY <2>1
    <3>3. QED
      BY <3>1, <3>2 DEF T
  <2>3. QED
    BY <2>1, <2>2
<1>4. IndexIn(list, n) = CHOOSE m \in 1 .. Len(list) : First(m)
  BY DEF IndexIn
<1> HIDE DEF First
<1>5. IndexIn(list, n) \in 1 .. Len(list) /\ First(IndexIn(list, n))
  BY <1>3, <1>4
<1>6. QED
  BY <1>5 DEF First

-------------------------------------------------------------------------------
(* The invariant of the search *)

InvolveAt(f, k) == k \in 1 .. Len(disk[f]) /\ disk[f][k].kind = "involve"
Target(f, k) == Realpath[<<f, disk[f][k].name>>]
EntryFile == Realpath[<<None, Entry>>]

(* What has been read is what was visited, each file once.                 *)
Read(fs, vis) ==
  /\ \A i \in 1 .. Len(fs) : fs[i] \in vis /\ disk[fs[i]] # Unreadable
  /\ \A i, j \in 1 .. Len(fs) : fs[i] = fs[j] => i = j

(* The open calls are for different files of those read.                   *)
Open(fs, st) ==
  /\ \A i \in 1 .. Len(st) : /\ \E j \in 1 .. Len(fs) : fs[j] = st[i].file
                             /\ st[i].at \in 1 .. Len(disk[st[i].file]) + 1
  /\ \A i, j \in 1 .. Len(st) : st[i].file = st[j].file => i = j

(* Of the files read, every involve that no open call has yet to come to   *)
(* has been followed.                                                      *)
Followed(fs, st, vis) ==
  \A i \in 1 .. Len(fs), k \in Nat :
    InvolveAt(fs[i], k) /\ (\A j \in 1 .. Len(st) : st[j].file = fs[i] => k < st[j].at)
      => Target(fs[i], k) \in vis

(* Nothing is visited but what any closed set of files has.                *)
Within(vis) == \A Z \in SUBSET (Files \cup {None}) : Closed(Z) => vis \subseteq Z

Begun ==
  /\ phase = "start" => files = <<>> /\ stack = <<>>
  /\ phase \notin {"start", "failed"} =>
       /\ EntryFile \in visited
       /\ \A f \in visited : \E i \in 1 .. Len(files) : files[i] = f
  /\ phase = "start" => visited = {}
  /\ phase \notin {"start", "discover", "failed"} => stack = <<>>

Search ==
  /\ Read(files, visited) /\ Open(files, stack) /\ Followed(files, stack, visited)
  /\ Within(visited) /\ Begun

-------------------------------------------------------------------------------
(* A call of discover *)

LEMMA DiscoverTypes ==
  ASSUME TypeOK, NEW from \in Files \cup {None}, NEW line \in Nat, NEW path \in Paths,
         NEW rest \in Seq([file : Files, at : Nat]),
         Discover(from, line, path, rest), disk' = disk
  PROVE  /\ phase' \in Phases /\ visited' \subseteq Files /\ files' \in Seq(Files)
         /\ stack' \in Seq([file : Files, at : Nat])
         /\ currentFile' \in Files \cup {None}
         /\ diag' \in [file : Files \cup {None}, line : Nat] \cup {None}
<1> DEFINE f == Realpath[<<from, path>>]
<1>1. f \in Files \cup {None}
  BY LoaderAssumption
<1>2. CASE f = None
  BY <1>2 DEF Discover, TypeOK, Report, scan, Phases
<1>3. CASE f # None /\ f \in visited
  BY <1>3 DEF Discover, TypeOK, Report, scan, Phases
<1>4. CASE f # None /\ f \notin visited /\ disk[f] = Unreadable
  <2>1. /\ visited' = visited \cup {f} /\ files' = files /\ stack' = stack
        /\ currentFile' = from /\ phase' = "failed" /\ diag' = [file |-> from, line |-> line]
    BY <1>4 DEF Discover, Report
  <2>2. f \in Files
    BY <1>1, <1>4
  <2> HIDE DEF f
  <2>3. QED
    BY <2>1, <2>2 DEF TypeOK, Phases
<1>5. CASE f # None /\ f \notin visited /\ disk[f] # Unreadable /\ ~Lexes(f)
  <2>1. f \in Files
    BY <1>1, <1>5
  <2>2. disk[f] \in Seq(Item)
    BY <1>5, <2>1 DEF TypeOK
  <2>3. Len(disk[f]) \in Nat
    BY <2>2, LenProperties
  <2>4. FirstGarbage(f) \in Nat
    BY <1>5, <2>3, FirstGarbageIs
  <2>5. /\ visited' = visited \cup {f} /\ files' = files /\ stack' = stack
        /\ currentFile' = f /\ phase' = "failed" /\ diag' = [file |-> f, line |-> FirstGarbage(f)]
    BY <1>5 DEF Discover, Report
  <2> HIDE DEF f
  <2>6. QED
    BY <2>1, <2>4, <2>5 DEF TypeOK, Phases
<1>6. CASE f # None /\ f \notin visited /\ disk[f] # Unreadable /\ Lexes(f)
  <2>1. f \in Files
    BY <1>1, <1>6
  <2>2. [file |-> f, at |-> 1] \in [file : Files, at : Nat]
    BY <2>1
  <2>3. /\ visited' = visited \cup {f} /\ files' = Append(files, f)
        /\ stack' = Append(rest, [file |-> f, at |-> 1])
        /\ currentFile' = f /\ phase' = "discover" /\ diag' = diag
    BY <1>6 DEF Discover
  <2>4. files' \in Seq(Files) /\ stack' \in Seq([file : Files, at : Nat])
    BY <2>1, <2>2, <2>3, AppendProperties DEF TypeOK
  <2>5. QED
    BY <2>1, <2>3, <2>4 DEF TypeOK, Phases
<1>7. QED
  BY <1>2, <1>3, <1>4, <1>5, <1>6

(* A new file is read, and its call is opened.                             *)
LEMMA ReadMore ==
  ASSUME NEW fs \in Seq(Files), NEW st \in Seq([file : Files, at : Nat]), NEW vis \in SUBSET Files,
         NEW f \in Files, f \notin vis, disk[f] # Unreadable,
         disk \in [Files -> Seq(Item) \cup {Unreadable}],
         Read(fs, vis), Open(fs, st), Followed(fs, st, vis \cup {f})
  PROVE  /\ Read(Append(fs, f), vis \cup {f})
         /\ Open(Append(fs, f), Append(st, [file |-> f, at |-> 1]))
         /\ Followed(Append(fs, f), Append(st, [file |-> f, at |-> 1]), vis \cup {f})
<1> DEFINE gs == Append(fs, f)
           frame == [file |-> f, at |-> 1]
           tt == Append(st, frame)
           n == Len(fs)
           m == Len(st)
<1>1. /\ n \in Nat /\ Len(gs) = n + 1 /\ gs[n + 1] = f
      /\ \A i \in 1 .. n : gs[i] = fs[i]
  BY LenProperties, AppendProperties
<1>2. frame \in [file : Files, at : Nat] /\ frame.file = f /\ frame.at = 1
  OBVIOUS
<1> HIDE DEF gs, frame
<1>3. /\ m \in Nat /\ Len(tt) = m + 1 /\ tt[m + 1] = frame
      /\ \A i \in 1 .. m : tt[i] = st[i]
  BY <1>2, LenProperties, AppendProperties
<1>4. Len(disk[f]) \in Nat
  <2>1. disk[f] \in Seq(Item)
    OBVIOUS
  <2>2. QED
    BY <2>1, LenProperties
<1> HIDE DEF tt, n, m
<1>5. \A i \in 1 .. n : fs[i] \in vis /\ fs[i] # f
  BY DEF Read, n
<1>6. \A i \in 1 .. m : st[i].file # f
  <2>1. ASSUME NEW i \in 1 .. m PROVE st[i].file # f
    <3>1. PICK j \in 1 .. n : fs[j] = st[i].file
      BY DEF Open, m, n
    <3>2. QED
      BY <1>5, <3>1
  <2>2. QED
    BY <2>1
<1>7. Read(gs, vis \cup {f})
  <2>1. ASSUME NEW i \in 1 .. n + 1 PROVE gs[i] \in vis \cup {f} /\ disk[gs[i]] # Unreadable
    <3>1. i \in 1 .. n \/ i = n + 1
      BY <1>1
    <3>2. QED
      BY <1>1, <3>1 DEF Read, n
  <2>2. ASSUME NEW i \in 1 .. n + 1, NEW j \in 1 .. n + 1, gs[i] = gs[j] PROVE i = j
    <3>1. (i \in 1 .. n \/ i = n + 1) /\ (j \in 1 .. n \/ j = n + 1)
      BY <1>1
    <3>2. QED
      BY <1>1, <1>5, <2>2, <3>1 DEF Read, n
  <2>3. QED
    BY <1>1, <2>1, <2>2 DEF Read
<1>8. Open(gs, tt)
  <2>1. ASSUME NEW i \in 1 .. m + 1
        PROVE  /\ \E j \in 1 .. n + 1 : gs[j] = tt[i].file
               /\ tt[i].at \in 1 .. Len(disk[tt[i].file]) + 1
    <3>1. CASE i \in 1 .. m
      <4>1. PICK j \in 1 .. n : fs[j] = st[i].file
        BY <3>1 DEF Open, m, n
      <4>2. j \in 1 .. n + 1 /\ gs[j] = tt[i].file
        BY <1>1, <1>3, <3>1, <4>1
      <4>3. st[i].at \in 1 .. Len(disk[st[i].file]) + 1
        BY <3>1 DEF Open, m
      <4>4. QED
        BY <1>3, <3>1, <4>2, <4>3
    <3>2. CASE i = m + 1
      BY <1>1, <1>2, <1>3, <1>4, <3>2
    <3>3. QED
      BY <1>3, <3>1, <3>2
  <2>2. ASSUME NEW i \in 1 .. m + 1, NEW j \in 1 .. m + 1, tt[i].file = tt[j].file PROVE i = j
    <3>1. (i \in 1 .. m \/ i = m + 1) /\ (j \in 1 .. m \/ j = m + 1)
      BY <1>3
    <3>2. QED
      BY <1>2, <1>3, <1>6, <2>2, <3>1 DEF Open, m
  <2>3. QED
    BY <1>1, <1>3, <2>1, <2>2 DEF Open
<1>9. Followed(gs, tt, vis \cup {f})
  <2>1. SUFFICES ASSUME NEW i \in 1 .. n + 1, NEW k \in Nat, InvolveAt(gs[i], k),
                        \A j \in 1 .. m + 1 : tt[j].file = gs[i] => k < tt[j].at
                 PROVE  Target(gs[i], k) \in vis \cup {f}
    BY <1>1, <1>3 DEF Followed
  <2>2. i # n + 1
    <3>1. SUFFICES ASSUME i = n + 1 PROVE FALSE
      OBVIOUS
    <3>2. k < 1
      BY <1>1, <1>2, <1>3, <2>1, <3>1
    <3>3. k >= 1
      BY <2>1 DEF InvolveAt
    <3>4. QED
      BY <3>2, <3>3
  <2>3. i \in 1 .. n /\ gs[i] = fs[i]
    BY <1>1, <2>2
  <2>4. ASSUME NEW j \in 1 .. m, st[j].file = fs[i] PROVE k < st[j].at
    <3>1. j \in 1 .. m + 1 /\ tt[j] = st[j]
      BY <1>3
    <3>2. QED
      BY <2>1, <2>3, <2>4, <3>1
  <2>5. QED
    BY <2>1, <2>3, <2>4 DEF Followed, n, m
<1>10. QED
  BY <1>7, <1>8, <1>9 DEF gs, tt, frame

LEMMA DiscoverSearches ==
  ASSUME TypeOK, Search, NEW from \in Files \cup {None}, NEW line \in Nat, NEW path \in Paths,
         NEW rest \in Seq([file : Files, at : Nat]),
         Discover(from, line, path, rest), disk' = disk,
         Open(files, rest), Followed(files, rest, visited \cup {Realpath[<<from, path>>]}),
         Within({Realpath[<<from, path>>]}),
         phase = "discover" \/ (phase = "start" /\ Realpath[<<from, path>>] = EntryFile)
  PROVE  Search'
<1> DEFINE f == Realpath[<<from, path>>]
<1>1. f \in Files \cup {None}
  BY LoaderAssumption
<1>2. /\ Read(files, visited)' <=> Read(files', visited')
      /\ Open(files, stack)' <=> Open(files', stack')
      /\ Followed(files, stack, visited)' <=> Followed(files', stack', visited')
      /\ Within(visited)' <=> Within(visited')
  BY DEF Read, Open, Followed, Within, Closed, Targets, InvolveAt, Target
<1>3. /\ Read(files, visited) /\ Open(files, stack) /\ Followed(files, stack, visited)
      /\ Within(visited) /\ Begun
  BY DEF Search
<1>4. CASE f = None \/ (f # None /\ f \notin visited /\ (disk[f] = Unreadable \/ ~Lexes(f)))
  <2>1. /\ files' = files /\ stack' = stack /\ phase' = "failed"
        /\ (visited' = visited \/ visited' = visited \cup {f})
    BY <1>4 DEF Discover, Report, scan
  <2>2. Read(files', visited') /\ Open(files', stack') /\ Followed(files', stack', visited')
    BY <1>3, <2>1 DEF Read, Open, Followed
  <2>3. Within(visited')
    BY <1>3, <2>1 DEF Within
  <2>4. Begun'
    BY <2>1 DEF Begun
  <2>5. QED
    BY <1>2, <2>2, <2>3, <2>4 DEF Search
<1>5. CASE f # None /\ f \in visited
  <2>1. /\ files' = files /\ stack' = rest /\ phase' = phase /\ visited' = visited
    BY <1>5 DEF Discover
  <2>2. visited \cup {f} = visited
    BY <1>5
  <2>3. Open(files', stack') /\ Followed(files', stack', visited')
    BY <2>1, <2>2
  <2>4. phase = "discover"
    BY <1>3, <1>5 DEF Begun
  <2>5. Begun'
    BY <1>3, <2>1, <2>4 DEF Begun, EntryFile
  <2>6. QED
    BY <1>2, <1>3, <2>1, <2>3, <2>5 DEF Search
<1>6. CASE f # None /\ f \notin visited /\ disk[f] # Unreadable /\ Lexes(f)
  <2>1. /\ visited' = visited \cup {f} /\ files' = Append(files, f)
        /\ stack' = Append(rest, [file |-> f, at |-> 1]) /\ phase' = "discover"
    BY <1>6 DEF Discover
  <2>2. f \in Files /\ visited \in SUBSET Files /\ files \in Seq(Files)
    BY <1>1, <1>6 DEF TypeOK
  <2>3. disk \in [Files -> Seq(Item) \cup {Unreadable}]
    BY DEF TypeOK
  <2> HIDE DEF f
  <2>4. Open(files, rest) /\ Followed(files, rest, visited \cup {f})
    BY DEF f
  <2>5. Read(files', visited') /\ Open(files', stack') /\ Followed(files', stack', visited')
    BY <1>3, <1>6, <2>1, <2>2, <2>3, <2>4, ReadMore
  <2>6. Within(visited')
    BY <1>3, <2>1 DEF Within, f
  <2>7. EntryFile \in visited'
    BY <1>3, <2>1 DEF Begun, f
  <2>8. \A g \in visited' : \E i \in 1 .. Len(files') : files'[i] = g
    <3>1. /\ Len(files) \in Nat /\ Len(files') = Len(files) + 1 /\ files'[Len(files) + 1] = f
          /\ \A i \in 1 .. Len(files) : files'[i] = files[i]
      BY <2>1, <2>2, LenProperties, AppendProperties
    <3>2. \A g \in visited : \E i \in 1 .. Len(files) : files[i] = g
      BY <1>3 DEF Begun
    <3>3. ASSUME NEW g \in visited PROVE \E i \in 1 .. Len(files') : files'[i] = g
      <4>1. PICK i \in 1 .. Len(files) : files[i] = g
        BY <3>2
      <4>2. i \in 1 .. Len(files') /\ files'[i] = g
        BY <3>1, <4>1
      <4>3. QED
        BY <4>2
    <3>4. Len(files) + 1 \in 1 .. Len(files')
      BY <3>1
    <3>5. QED
      BY <2>1, <3>1, <3>3, <3>4
  <2>9. Begun'
    BY <2>1, <2>7, <2>8 DEF Begun, EntryFile
  <2>10. QED
    BY <1>2, <2>5, <2>6, <2>9 DEF Search
<1>7. QED
  BY <1>4, <1>5, <1>6

LEMMA DiscoverDiagnoses ==
  ASSUME TypeOK, NEW from \in Files \cup {None}, NEW line \in Nat, NEW path \in Paths, NEW rest,
         Discover(from, line, path, rest), disk' = disk, phase # "failed",
         from = None => line = 0 /\ path = Entry,
         from # None => /\ disk[from] # Unreadable /\ line \in 1 .. Len(disk[from])
                        /\ disk[from][line].kind = "involve" /\ disk[from][line].name = path
  PROVE  ErrorIsWhereItSays'
<1> DEFINE f == Realpath[<<from, path>>]
<1>1. f \in Files \cup {None}
  BY LoaderAssumption
<1>2. CASE f = None \/ (f # None /\ f \notin visited /\ disk[f] = Unreadable)
  <2>1. phase' = "failed" /\ diag' = [file |-> from, line |-> line] /\ NoFile(from, path)
    BY <1>2 DEF Discover, Report, NoFile
  <2>2. from = None => NoFile(None, Entry)' /\ diag'.file = None /\ diag'.line = 0
    BY <2>1 DEF NoFile
  <2>3. from # None => /\ Wrong(from, line)' /\ diag'.file = from /\ diag'.line = line
    BY <2>1 DEF NoFile, Wrong
  <2>4. QED
    BY <2>1, <2>2, <2>3 DEF ErrorIsWhereItSays
<1>3. CASE f # None /\ f \notin visited /\ disk[f] # Unreadable /\ ~Lexes(f)
  <2>1. phase' = "failed" /\ diag' = [file |-> f, line |-> FirstGarbage(f)]
    BY <1>3 DEF Discover, Report
  <2>2. disk[f] \in Seq(Item)
    BY <1>1, <1>3 DEF TypeOK
  <2>3. Len(disk[f]) \in Nat
    BY <2>2, LenProperties
  <2>4. FirstGarbage(f) \in 1 .. Len(disk[f]) /\ disk[f][FirstGarbage(f)].kind = "garbage"
    BY <1>3, <2>3, FirstGarbageIs
  <2>5. PICK g \in Files, k \in Nat :
          /\ disk[g] # Unreadable /\ k \in 1 .. Len(disk[g]) /\ disk[g][k].kind = "garbage"
          /\ diag' = [file |-> g, line |-> k]
    BY <1>1, <1>3, <2>1, <2>4
  <2>6. Wrong(g, k)'
    BY <2>5 DEF Wrong
  <2>7. diag'.file = g /\ diag'.line = k /\ g # None
    BY <2>5, LoaderAssumption
  <2>8. QED
    BY <2>1, <2>5, <2>6, <2>7 DEF ErrorIsWhereItSays
<1>4. CASE f # None /\ (f \in visited \/ (disk[f] # Unreadable /\ Lexes(f)))
  <2>1. phase' # "failed"
    BY <1>4 DEF Discover
  <2>2. QED
    BY <2>1 DEF ErrorIsWhereItSays
<1>5. QED
  BY <1>2, <1>3, <1>4

-------------------------------------------------------------------------------
(* The steps of the search *)

LEMMA FrontIs ==
  ASSUME NEW A, NEW st \in Seq(A), st # <<>>
  PROVE  /\ Len(st) \in Nat /\ Len(st) >= 1
         /\ Last(st) = st[Len(st)] /\ Last(st) \in A
         /\ Front(st) \in Seq(A) /\ Len(Front(st)) = Len(st) - 1
         /\ \A i \in 1 .. Len(st) - 1 : Front(st)[i] = st[i]
<1>1. Len(st) \in Nat /\ Len(st) # 0
  BY LenProperties, EmptySeq
<1>2. Last(st) = st[Len(st)] /\ Last(st) \in A
  BY <1>1, ElementOfSeq DEF Last
<1>3. Front(st) = SubSeq(st, 1, Len(st) - 1)
  BY DEF Front
<1>4. Front(st) \in Seq(A) /\ Len(Front(st)) = Len(st) - 1 /\ \A i \in 1 .. Len(st) - 1 : Front(st)[i] = st[i]
  <2>1. PICK n \in Nat : n = Len(st) /\ n >= 1
    BY <1>1
  <2>2. \A i \in 1 .. n - 1 : st[i] \in A
    BY <2>1, ElementOfSeq
  <2>3. /\ SubSeq(st, 1, n - 1) \in Seq(A)
        /\ Len(SubSeq(st, 1, n - 1)) = (IF 1 <= n - 1 THEN (n - 1) - 1 + 1 ELSE 0)
        /\ \A i \in 1 .. (n - 1) - 1 + 1 : SubSeq(st, 1, n - 1)[i] = st[1 + i - 1]
    BY <2>1, <2>2, SubSeqProperties
  <2>4. Len(SubSeq(st, 1, n - 1)) = n - 1
    BY <2>1, <2>3
  <2>5. ASSUME NEW i \in 1 .. n - 1 PROVE i \in 1 .. (n - 1) - 1 + 1 /\ 1 + i - 1 = i
    BY <2>1
  <2>6. QED
    BY <1>3, <2>1, <2>3, <2>4, <2>5
<1>5. QED
  BY <1>1, <1>2, <1>4

(* The file whose involves are being followed.                             *)
LEMMA TopIs ==
  ASSUME TypeOK, Search, stack # <<>>
  PROVE  /\ Last(stack).file \in Files /\ Last(stack).file \in visited
         /\ disk[Last(stack).file] \in Seq(Item) /\ disk[Last(stack).file] # Unreadable
         /\ Len(disk[Last(stack).file]) \in Nat
         /\ Last(stack).at \in 1 .. Len(disk[Last(stack).file]) + 1
<1>1. /\ Len(stack) \in Nat /\ Len(stack) >= 1
      /\ Last(stack) = stack[Len(stack)] /\ Last(stack) \in [file : Files, at : Nat]
  BY FrontIs DEF TypeOK
<1>2. Len(stack) \in 1 .. Len(stack)
  BY <1>1
<1>3. /\ \E j \in 1 .. Len(files) : files[j] = Last(stack).file
      /\ Last(stack).at \in 1 .. Len(disk[Last(stack).file]) + 1
  BY <1>1, <1>2 DEF Search, Open
<1>4. Last(stack).file \in visited /\ disk[Last(stack).file] # Unreadable
  BY <1>3 DEF Search, Read
<1>5. Last(stack).file \in Files
  BY <1>1
<1>6. disk[Last(stack).file] \in Seq(Item)
  BY <1>4, <1>5 DEF TypeOK
<1>7. Len(disk[Last(stack).file]) \in Nat
  BY <1>6, LenProperties
<1>8. QED
  BY <1>3, <1>4, <1>5, <1>6, <1>7

LEMMA StartKeeps ==
  ASSUME TypeOK, Search, Start
  PROVE  TypeOK' /\ Search' /\ ErrorIsWhereItSays'
<1>1. /\ phase = "start" /\ Discover(None, 0, Entry, <<>>)
      /\ disk' = disk /\ UNCHANGED <<names, program, cursor>>
  BY DEF Start
<1>2. Entry \in Paths /\ <<>> \in Seq([file : Files, at : Nat]) /\ EntryFile = Realpath[<<None, Entry>>]
  BY LoaderAssumption, EmptySeq DEF EntryFile
<1>3. TypeOK'
  <2>1. /\ phase' \in Phases /\ visited' \subseteq Files /\ files' \in Seq(Files)
        /\ stack' \in Seq([file : Files, at : Nat])
        /\ currentFile' \in Files \cup {None}
        /\ diag' \in [file : Files \cup {None}, line : Nat] \cup {None}
    BY <1>1, <1>2, DiscoverTypes
  <2>2. QED
    BY <1>1, <2>1 DEF TypeOK, names, program
<1>4. files = <<>> /\ stack = <<>> /\ Len(files) = 0 /\ Len(stack) = 0
  BY <1>1, EmptySeq DEF Search, Begun
<1>5. Open(files, <<>>)
  BY <1>4 DEF Open
<1>6. Followed(files, <<>>, visited \cup {EntryFile})
  BY <1>4 DEF Followed
<1>7. Within({EntryFile})
  BY DEF Within, Closed, EntryFile
<1>8. Search'
  BY <1>1, <1>2, <1>5, <1>6, <1>7, DiscoverSearches
<1>9. ErrorIsWhereItSays'
  BY <1>1, <1>2, DiscoverDiagnoses
<1>10. QED
  BY <1>3, <1>8, <1>9

LEMMA InvolveKeeps ==
  ASSUME TypeOK, Search, Involve
  PROVE  TypeOK' /\ Search' /\ ErrorIsWhereItSays'
<1> DEFINE top == Last(stack)
           from == top.file
           k == NextRef(top.file, top.at)
           frame == [file |-> from, at |-> k + 1]
           rest == Append(Front(stack), frame)
           path == disk[from][k].name
           n == Len(stack)
<1>1. /\ phase = "discover" /\ stack # <<>> /\ k <= Len(disk[from])
      /\ Discover(from, k, path, rest)
      /\ disk' = disk /\ UNCHANGED <<names, program, cursor>>
  BY DEF Involve
<1>2. /\ from \in Files /\ from \in visited /\ disk[from] \in Seq(Item) /\ disk[from] # Unreadable
      /\ Len(disk[from]) \in Nat /\ top.at \in 1 .. Len(disk[from]) + 1
  BY <1>1, TopIs
<1>3. k \in top.at .. Len(disk[from]) + 1 /\ disk[from][k].kind = "involve"
  BY <1>1, <1>2, NextRefIs
<1>4. \A j \in top.at .. k - 1 : disk[from][j].kind # "involve"
  BY <1>2, NextRefIs
<1>5. /\ n \in Nat /\ n >= 1 /\ top = stack[n] /\ Front(stack) \in Seq([file : Files, at : Nat])
      /\ Len(Front(stack)) = n - 1 /\ \A i \in 1 .. n - 1 : Front(stack)[i] = stack[i]
  BY <1>1, FrontIs DEF TypeOK
<1>6. k \in 1 .. Len(disk[from]) /\ k \in Nat
  BY <1>1, <1>2, <1>3
<1>7. path \in Paths
  <2>1. disk[from][k] \in Item
    BY <1>2, <1>6, ElementOfSeq
  <2>2. QED
    BY <1>3, <2>1, ItemIs
<1>8. frame \in [file : Files, at : Nat] /\ frame.file = from /\ frame.at = k + 1
  BY <1>2, <1>6
<1> HIDE DEF n, k, path, frame
<1>9. /\ rest \in Seq([file : Files, at : Nat]) /\ Len(rest) = n /\ rest[n] = frame
      /\ \A i \in 1 .. n - 1 : rest[i] = stack[i]
  <2>1. Len(Front(stack)) \in Nat /\ Len(Front(stack)) + 1 = n
    BY <1>5
  <2>2. QED
    BY <1>5, <1>8, <2>1, AppendProperties
<1> HIDE DEF top, from, rest
<1>10. \A i \in 1 .. n : i \in 1 .. n - 1 \/ i = n
  BY <1>5
<1>11. Open(files, stack) /\ Followed(files, stack, visited) /\ n = Len(stack)
  BY DEF Search, n
<1>12. \A i \in 1 .. n : rest[i].file = stack[i].file
  BY <1>5, <1>8, <1>9, <1>10 DEF from
<1>13. Open(files, rest)
  <2>1. ASSUME NEW i \in 1 .. n
        PROVE  /\ \E j \in 1 .. Len(files) : files[j] = rest[i].file
               /\ rest[i].at \in 1 .. Len(disk[rest[i].file]) + 1
    <3>1. \E j \in 1 .. Len(files) : files[j] = rest[i].file
      BY <1>11, <1>12 DEF Open
    <3>2. CASE i = n
      <4>1. k + 1 \in 1 .. Len(disk[from]) + 1
        BY <1>2, <1>6
      <4>2. QED
        BY <1>8, <1>9, <3>1, <3>2, <4>1
    <3>3. CASE i \in 1 .. n - 1
      BY <1>9, <1>11, <3>1, <3>3 DEF Open
    <3>4. QED
      BY <1>10, <3>2, <3>3
  <2>2. \A i, j \in 1 .. n : rest[i].file = rest[j].file => i = j
    BY <1>11, <1>12 DEF Open
  <2>3. QED
    BY <1>9, <2>1, <2>2 DEF Open
<1>14. Followed(files, rest, visited \cup {Realpath[<<from, path>>]})
  <2>1. SUFFICES ASSUME NEW i \in 1 .. Len(files), NEW m \in Nat, InvolveAt(files[i], m),
                        \A j \in 1 .. n : rest[j].file = files[i] => m < rest[j].at
                 PROVE  Target(files[i], m) \in visited \cup {Realpath[<<from, path>>]}
    BY <1>9 DEF Followed
  <2>2. CASE files[i] = from /\ m = k
    BY <2>2 DEF Target, path
  <2>3. CASE ~(files[i] = from /\ m = k)
    <3>1. ASSUME NEW j \in 1 .. n, stack[j].file = files[i] PROVE m < stack[j].at
      <4>1. m < rest[j].at
        BY <1>12, <2>1, <3>1
      <4>2. CASE j \in 1 .. n - 1
        BY <1>9, <4>1, <4>2
      <4>3. CASE j = n
        <5>1. files[i] = from /\ m < k + 1
          BY <1>5, <1>8, <1>9, <3>1, <4>1, <4>3 DEF from
        <5>2. m < k
          BY <1>6, <2>3, <5>1
        <5>3. m \notin top.at .. k - 1
          BY <1>4, <2>1, <5>1 DEF InvolveAt
        <5>4. m < top.at
          BY <1>2, <1>6, <5>2, <5>3
        <5>5. QED
          BY <1>5, <4>3, <5>4
      <4>4. QED
        BY <1>10, <4>2, <4>3
    <3>2. QED
      BY <1>11, <2>1, <3>1 DEF Followed
  <2>4. QED
    BY <2>2, <2>3
<1>15. Within({Realpath[<<from, path>>]})
  <2>1. SUFFICES ASSUME NEW Z \in SUBSET (Files \cup {None}), Closed(Z)
                 PROVE  Realpath[<<from, path>>] \in Z
    BY DEF Within
  <2>2. from \in Z \ {None}
    BY <1>2, <2>1, LoaderAssumption DEF Search, Within
  <2>3. Targets(from) \subseteq Z
    BY <2>1, <2>2 DEF Closed
  <2>4. Realpath[<<from, path>>] \in Targets(from)
    BY <1>2, <1>3, <1>6 DEF Targets, path
  <2>5. QED
    BY <2>3, <2>4
<1>16. Discover(from, k, path, rest) /\ from \in Files \cup {None} /\ phase = "discover" /\ disk' = disk
  BY <1>1, <1>2
<1>17. Search'
  BY <1>6, <1>7, <1>9, <1>13, <1>14, <1>15, <1>16, DiscoverSearches
<1>18. TypeOK'
  <2>1. /\ phase' \in Phases /\ visited' \subseteq Files /\ files' \in Seq(Files)
        /\ stack' \in Seq([file : Files, at : Nat])
        /\ currentFile' \in Files \cup {None}
        /\ diag' \in [file : Files \cup {None}, line : Nat] \cup {None}
    BY <1>6, <1>7, <1>9, <1>16, DiscoverTypes
  <2>2. QED
    BY <1>1, <2>1 DEF TypeOK, names, program
<1>19. ErrorIsWhereItSays'
  <2>1. from # None /\ disk[from][k].name = path
    BY <1>2, LoaderAssumption DEF path
  <2>2. QED
    BY <1>2, <1>3, <1>6, <1>7, <1>16, <2>1, DiscoverDiagnoses
<1>20. QED
  BY <1>17, <1>18, <1>19

LEMMA ReturnKeeps ==
  ASSUME TypeOK, Search, Return
  PROVE  TypeOK' /\ Search'
<1> DEFINE top == Last(stack)
           n == Len(stack)
<1>1. /\ phase = "discover" /\ stack # <<>>
      /\ NextRef(top.file, top.at) = Len(disk[top.file]) + 1
      /\ stack' = Front(stack) /\ phase' = (IF n = 1 THEN "collect" ELSE phase)
      /\ UNCHANGED <<disk, visited, files, names, program, cursor, currentFile, diag>>
  BY DEF Return
<1>2. Len(disk[top.file]) \in Nat /\ top.at \in 1 .. Len(disk[top.file]) + 1
  BY <1>1, TopIs
<1>3. \A j \in top.at .. Len(disk[top.file]) : disk[top.file][j].kind # "involve"
  <2>1. \A j \in top.at .. NextRef(top.file, top.at) - 1 : disk[top.file][j].kind # "involve"
    BY <1>2, NextRefIs
  <2>2. NextRef(top.file, top.at) - 1 = Len(disk[top.file])
    BY <1>1, <1>2
  <2>3. QED
    BY <2>1, <2>2
<1>4. /\ n \in Nat /\ n >= 1 /\ top = stack[n] /\ Front(stack) \in Seq([file : Files, at : Nat])
      /\ Len(Front(stack)) = n - 1 /\ \A i \in 1 .. n - 1 : Front(stack)[i] = stack[i]
  BY <1>1, FrontIs DEF TypeOK
<1>5. Read(files, visited) /\ Open(files, stack) /\ Followed(files, stack, visited) /\ Within(visited) /\ Begun
      /\ n = Len(stack)
  BY DEF Search
<1> HIDE DEF top, n
<1>6. \A i \in 1 .. n - 1 : i \in 1 .. n
  BY <1>4
<1>7. Open(files, Front(stack))
  BY <1>4, <1>5, <1>6 DEF Open
<1>8. Followed(files, Front(stack), visited)
  <2>1. SUFFICES ASSUME NEW i \in 1 .. Len(files), NEW m \in Nat, InvolveAt(files[i], m),
                        \A j \in 1 .. n - 1 : stack[j].file = files[i] => m < stack[j].at
                 PROVE  Target(files[i], m) \in visited
    BY <1>4 DEF Followed
  <2>2. ASSUME NEW j \in 1 .. n, stack[j].file = files[i] PROVE m < stack[j].at
    <3>1. CASE j = n
      <4>1. m \notin top.at .. Len(disk[top.file]) /\ m \in 1 .. Len(disk[top.file])
        BY <1>3, <1>4, <2>1, <2>2, <3>1 DEF InvolveAt
      <4>2. QED
        BY <1>2, <1>4, <3>1, <4>1
    <3>2. CASE j \in 1 .. n - 1
      BY <2>1, <2>2, <3>2
    <3>3. QED
      BY <1>4, <3>1, <3>2
  <2>3. QED
    BY <1>5, <2>1, <2>2 DEF Followed
<1>9. n = 1 => Front(stack) = <<>>
  <2>1. n = 1 => Len(Front(stack)) = 0
    BY <1>4
  <2>2. QED
    BY <1>4, <2>1, EmptySeq
<1>10. Begun'
  BY <1>1, <1>5, <1>9 DEF Begun, EntryFile
<1>11. /\ Read(files, visited)' <=> Read(files, visited)
       /\ Open(files, stack)' <=> Open(files, Front(stack))
       /\ Followed(files, stack, visited)' <=> Followed(files, Front(stack), visited)
       /\ Within(visited)' <=> Within(visited)
  BY <1>1 DEF Read, Open, Followed, Within, Closed, Targets, InvolveAt, Target
<1>12. Search'
  BY <1>5, <1>7, <1>8, <1>10, <1>11 DEF Search
<1>13. TypeOK'
  BY <1>1, <1>4 DEF TypeOK, Phases, names, program
<1>14. QED
  BY <1>12, <1>13

(* When the search is over, what was read is what involve reaches.         *)
LEMMA SearchReaches ==
  ASSUME TypeOK, Search, phase \in {"collect", "parse", "check", "loaded"}
  PROVE  Range(files) = Reachable
<1>1. /\ Read(files, visited) /\ Followed(files, stack, visited) /\ Within(visited)
      /\ stack = <<>> /\ Len(stack) = 0 /\ EntryFile \in visited
      /\ \A f \in visited : \E i \in 1 .. Len(files) : files[i] = f
  BY EmptySeq DEF Search, Begun
<1>2. files \in Seq(Files) /\ visited \subseteq Files
  BY DEF TypeOK
<1>3. Range(files) = {files[i] : i \in 1 .. Len(files)}
  BY <1>2 DEF Range
<1>4. Range(files) = visited
  BY <1>1, <1>3 DEF Read
<1>5. Closed(visited)
  <2>1. ASSUME NEW f \in visited, NEW g \in Targets(f) PROVE g \in visited
    <3>1. PICK i \in 1 .. Len(files) : files[i] = f
      BY <1>1
    <3>2. disk[f] # Unreadable
      BY <1>1, <3>1 DEF Read
    <3>3. PICK k \in 1 .. Len(disk[f]) : disk[f][k].kind = "involve" /\ g = Realpath[<<f, disk[f][k].name>>]
      BY <2>1, <3>2 DEF Targets
    <3>4. k \in Nat
      OBVIOUS
    <3>5. QED
      BY <1>1, <3>1, <3>3, <3>4 DEF Followed, InvolveAt, Target
  <2>2. QED
    BY <1>1, <2>1 DEF Closed, EntryFile
<1>6. Reachable \subseteq visited
  BY <1>2, <1>5 DEF Reachable
<1>7. visited \subseteq Reachable
  BY <1>1, <1>2 DEF Reachable, Within
<1>8. QED
  BY <1>4, <1>6, <1>7

-------------------------------------------------------------------------------
(* The names collected and the declarations parsed *)

Came(c, i, k) == i < c.file \/ (i = c.file /\ k < c.at)
NextItem(c) == [c EXCEPT !.at = @ + 1]
NextFile(c) == [file |-> c.file + 1, at |-> 1]
FirstPlace == [file |-> 1, at |-> 1]
EndPlace == [file |-> Len(files) + 1, at |-> 1]

(* The list has the names of the items of its kinds before place c: g says *)
(* how many of those there are before a place.                             *)
Counted(g, kinds, c, list) ==
  /\ g \in [Nat \X Nat -> Nat]
  /\ g[<<1, 1>>] = 0
  /\ \A i \in 1 .. Len(files), k \in Nat : k \in 1 .. Len(disk[files[i]]) /\ Came(c, i, k) =>
       IF disk[files[i]][k].kind \in kinds
       THEN /\ g[<<i, k + 1>>] = g[<<i, k>>] + 1 /\ g[<<i, k + 1>>] \in 1 .. Len(list)
            /\ list[g[<<i, k + 1>>]] = disk[files[i]][k].name
       ELSE g[<<i, k + 1>>] = g[<<i, k>>]
  /\ \A i \in 1 .. Len(files) : i < c.file => g[<<i + 1, 1>>] = g[<<i, Len(disk[files[i]]) + 1>>]
  /\ g[<<c.file, c.at>>] = Len(list)

(* The declarations before place c are as far in that list as g says.      *)
Parsed(g, c, list, done) ==
  /\ Len(done) = g[<<c.file, c.at>>]
  /\ \A j \in 1 .. Len(done) : j <= Len(list) /\ done[j] = list[j]

Here(c) ==
  /\ c \in Position /\ c.file \in 1 .. Len(files) /\ Len(disk[files[c.file]]) \in Nat
  /\ c.at \in 1 .. Len(disk[files[c.file]]) + 1

LEMMA WithNameIs ==
  ASSUME NEW list \in Seq(Names), NEW item, NEW kinds, item.kind \in kinds => item.name \in Names
  PROVE  /\ WithName(list, item, kinds) \in Seq(Names)
         /\ Len(list) \in Nat
         /\ item.kind \notin kinds => WithName(list, item, kinds) = list
         /\ item.kind \in kinds =>
              /\ Len(WithName(list, item, kinds)) = Len(list) + 1
              /\ WithName(list, item, kinds)[Len(list) + 1] = item.name
         /\ \A j \in 1 .. Len(list) : WithName(list, item, kinds)[j] = list[j]
<1>1. Len(list) \in Nat
  BY LenProperties
<1>2. CASE item.kind \in kinds
  BY <1>1, <1>2, AppendProperties DEF WithName
<1>3. CASE item.kind \notin kinds
  BY <1>1, <1>3 DEF WithName
<1>4. QED
  BY <1>1, <1>2, <1>3

LEMMA CountItem ==
  ASSUME NEW kinds, NEW c, Here(c), c.at <= Len(disk[files[c.file]]), NEW list \in Seq(Names),
         NEW g, Counted(g, kinds, c, list), NEW item, item = disk[files[c.file]][c.at],
         item.kind \in kinds => item.name \in Names
  PROVE  \E h : Counted(h, kinds, NextItem(c), WithName(list, item, kinds))
<1> DEFINE new == WithName(list, item, kinds)
           i0 == c.file
           k0 == c.at
           h == [g EXCEPT ![<<i0, k0 + 1>>] = Len(new)]
<1>1. /\ i0 \in Nat /\ k0 \in Nat /\ k0 >= 1 /\ i0 \in 1 .. Len(files)
      /\ k0 \in 1 .. Len(disk[files[i0]])
  BY DEF Here, Position
<1>2. NextItem(c).file = i0 /\ NextItem(c).at = k0 + 1
  BY DEF NextItem, Here, Position
<1>3. /\ new \in Seq(Names) /\ Len(new) \in Nat /\ Len(list) \in Nat
      /\ item.kind \notin kinds => new = list
      /\ item.kind \in kinds => Len(new) = Len(list) + 1 /\ new[Len(list) + 1] = item.name
      /\ \A j \in 1 .. Len(list) : new[j] = list[j]
  BY WithNameIs, LenProperties
<1> HIDE DEF new
<1>4. g \in [Nat \X Nat -> Nat] /\ g[<<1, 1>>] = 0 /\ g[<<i0, k0>>] = Len(list)
  BY DEF Counted
<1>5. /\ h \in [Nat \X Nat -> Nat] /\ h[<<i0, k0 + 1>>] = Len(new)
      /\ \A i, k \in Nat : i # i0 \/ k # k0 + 1 => h[<<i, k>>] = g[<<i, k>>]
  BY <1>1, <1>3, <1>4
<1> HIDE DEF i0, k0, h
<1>6. h[<<1, 1>>] = 0
  BY <1>1, <1>4, <1>5
<1>7. ASSUME NEW i \in 1 .. Len(files), NEW k \in Nat, k \in 1 .. Len(disk[files[i]]), Came(NextItem(c), i, k)
      PROVE  IF disk[files[i]][k].kind \in kinds
             THEN /\ h[<<i, k + 1>>] = h[<<i, k>>] + 1 /\ h[<<i, k + 1>>] \in 1 .. Len(new)
                  /\ new[h[<<i, k + 1>>]] = disk[files[i]][k].name
             ELSE h[<<i, k + 1>>] = h[<<i, k>>]
  <2>1. i \in Nat /\ k >= 1 /\ k + 1 \in Nat
    BY <1>7
  <2>2. CASE i = i0 /\ k = k0
    <3>1. disk[files[i]][k] = item /\ h[<<i, k + 1>>] = Len(new) /\ h[<<i, k>>] = Len(list)
      BY <1>1, <1>4, <1>5, <2>2 DEF i0, k0
    <3>2. QED
      BY <1>3, <3>1
  <2>3. CASE ~(i = i0 /\ k = k0)
    <3>1. Came(c, i, k)
      BY <1>1, <1>2, <1>7, <2>1, <2>3 DEF Came, i0, k0
    <3>2. h[<<i, k + 1>>] = g[<<i, k + 1>>]
      BY <1>1, <1>5, <2>1, <2>3
    <3>3. h[<<i, k>>] = g[<<i, k>>]
      BY <1>1, <1>5, <2>1, <3>1 DEF Came, i0, k0
    <3>4. IF disk[files[i]][k].kind \in kinds
          THEN /\ g[<<i, k + 1>>] = g[<<i, k>>] + 1 /\ g[<<i, k + 1>>] \in 1 .. Len(list)
               /\ list[g[<<i, k + 1>>]] = disk[files[i]][k].name
          ELSE g[<<i, k + 1>>] = g[<<i, k>>]
      BY <1>7, <3>1 DEF Counted
    <3>5. \A j \in 1 .. Len(list) : j \in 1 .. Len(new) /\ new[j] = list[j]
      BY <1>3
    <3>6. QED
      BY <3>2, <3>3, <3>4, <3>5
  <2>4. QED
    BY <2>2, <2>3
<1>8. ASSUME NEW i \in 1 .. Len(files), i < i0
      PROVE  h[<<i + 1, 1>>] = h[<<i, Len(disk[files[i]]) + 1>>]
  <2>1. g[<<i + 1, 1>>] = g[<<i, Len(disk[files[i]]) + 1>>]
    BY <1>8 DEF Counted, i0
  <2>2. h[<<i + 1, 1>>] = g[<<i + 1, 1>>]
    BY <1>1, <1>5
  <2>3. h[<<i, Len(disk[files[i]]) + 1>>] = g[<<i, Len(disk[files[i]]) + 1>>]
    BY <1>8 DEF h
  <2>4. QED
    BY <2>1, <2>2, <2>3
<1>9. Counted(h, kinds, NextItem(c), new)
  BY <1>2, <1>5, <1>6, <1>7, <1>8 DEF Counted
<1>10. QED
  BY <1>9 DEF new

LEMMA CountEnd ==
  ASSUME NEW kinds, NEW c, Here(c), c.at = Len(disk[files[c.file]]) + 1, NEW list \in Seq(Names),
         NEW g, Counted(g, kinds, c, list)
  PROVE  \E h : Counted(h, kinds, NextFile(c), list)
<1> DEFINE i0 == c.file
           k0 == c.at
           h == [g EXCEPT ![<<i0 + 1, 1>>] = Len(list)]
<1>1. /\ i0 \in Nat /\ k0 \in Nat /\ i0 \in 1 .. Len(files) /\ k0 = Len(disk[files[i0]]) + 1
  BY DEF Here, Position
<1>2. NextFile(c).file = i0 + 1 /\ NextFile(c).at = 1
  BY DEF NextFile
<1>3. Len(list) \in Nat
  BY LenProperties
<1>4. g \in [Nat \X Nat -> Nat] /\ g[<<1, 1>>] = 0 /\ g[<<i0, k0>>] = Len(list)
  BY DEF Counted
<1>5. /\ h \in [Nat \X Nat -> Nat] /\ h[<<i0 + 1, 1>>] = Len(list)
      /\ \A i, k \in Nat : i # i0 + 1 => h[<<i, k>>] = g[<<i, k>>]
  BY <1>1, <1>3, <1>4
<1> HIDE DEF i0, k0, h
<1>6. h[<<1, 1>>] = 0
  BY <1>1, <1>4, <1>5
<1>7. ASSUME NEW i \in 1 .. Len(files), NEW k \in Nat, k \in 1 .. Len(disk[files[i]]), Came(NextFile(c), i, k)
      PROVE  IF disk[files[i]][k].kind \in kinds
             THEN /\ h[<<i, k + 1>>] = h[<<i, k>>] + 1 /\ h[<<i, k + 1>>] \in 1 .. Len(list)
                  /\ list[h[<<i, k + 1>>]] = disk[files[i]][k].name
             ELSE h[<<i, k + 1>>] = h[<<i, k>>]
  <2>1. i \in Nat /\ i <= i0
    BY <1>1, <1>2, <1>7 DEF Came
  <2>2. Came(c, i, k)
    BY <1>1, <1>7, <2>1 DEF Came, i0, k0
  <2>3. h[<<i, k + 1>>] = g[<<i, k + 1>>] /\ h[<<i, k>>] = g[<<i, k>>]
    BY <1>1, <1>5, <2>1
  <2>4. QED
    BY <1>7, <2>2, <2>3 DEF Counted
<1>8. ASSUME NEW i \in 1 .. Len(files), i < i0 + 1
      PROVE  h[<<i + 1, 1>>] = h[<<i, Len(disk[files[i]]) + 1>>]
  <2>1. CASE i = i0
    BY <1>1, <1>4, <1>5, <2>1
  <2>2. CASE i # i0
    <3>1. i < i0
      BY <1>1, <1>8, <2>2
    <3>2. g[<<i + 1, 1>>] = g[<<i, Len(disk[files[i]]) + 1>>]
      BY <3>1 DEF Counted, i0
    <3>3. h[<<i + 1, 1>>] = g[<<i + 1, 1>>]
      BY <1>1, <1>5, <3>1
    <3>4. h[<<i, Len(disk[files[i]]) + 1>>] = g[<<i, Len(disk[files[i]]) + 1>>]
      BY <1>1, <3>1 DEF h
    <3>5. QED
      BY <3>2, <3>3, <3>4
  <2>3. QED
    BY <2>1, <2>2
<1>9. Counted(h, kinds, NextFile(c), list)
  BY <1>2, <1>5, <1>6, <1>7, <1>8 DEF Counted
<1>10. QED
  BY <1>9

LEMMA ParsedItem ==
  ASSUME NEW kinds, NEW parsing, NEW c, Here(c), c.at <= Len(disk[files[c.file]]),
         NEW list \in Seq(Names), NEW done \in Seq(Names), Len(files) \in Nat,
         NEW g, Counted(g, kinds, EndPlace, list), Parsed(g, c, list, done),
         NEW item, item = disk[files[c.file]][c.at],
         item.kind \in kinds <=> item.kind \in parsing, item.kind \in parsing => item.name \in Names
  PROVE  Parsed(g, NextItem(c), list, WithName(done, item, parsing))
<1> DEFINE new == WithName(done, item, parsing)
           i0 == c.file
           k0 == c.at
<1>1. /\ i0 \in 1 .. Len(files) /\ k0 \in Nat /\ k0 \in 1 .. Len(disk[files[i0]])
      /\ NextItem(c).file = i0 /\ NextItem(c).at = k0 + 1
  BY DEF Here, Position, NextItem
<1>2. /\ new \in Seq(Names) /\ Len(done) \in Nat
      /\ item.kind \notin parsing => new = done
      /\ item.kind \in parsing => Len(new) = Len(done) + 1 /\ new[Len(done) + 1] = item.name
      /\ \A j \in 1 .. Len(done) : new[j] = done[j]
  <2>1. new \in Seq(Names)
    BY WithNameIs
  <2>2. Len(done) \in Nat
    BY LenProperties
  <2>3. item.kind \notin parsing => new = done
    BY WithNameIs
  <2>4. item.kind \in parsing => Len(new) = Len(done) + 1
    BY WithNameIs
  <2>5. item.kind \in parsing => new[Len(done) + 1] = item.name
    BY WithNameIs
  <2>6. \A j \in 1 .. Len(done) : new[j] = done[j]
    BY WithNameIs
  <2>7. QED
    BY <2>1, <2>2, <2>3, <2>4, <2>5, <2>6
<1>3. Len(done) = g[<<i0, k0>>] /\ \A j \in 1 .. Len(done) : j <= Len(list) /\ done[j] = list[j]
  BY DEF Parsed
<1>4. Came(EndPlace, i0, k0)
  BY <1>1 DEF Came, EndPlace
<1>5. IF item.kind \in kinds
      THEN /\ g[<<i0, k0 + 1>>] = g[<<i0, k0>>] + 1 /\ g[<<i0, k0 + 1>>] \in 1 .. Len(list)
           /\ list[g[<<i0, k0 + 1>>]] = item.name
      ELSE g[<<i0, k0 + 1>>] = g[<<i0, k0>>]
  BY <1>1, <1>4 DEF Counted
<1> HIDE DEF new, i0, k0
<1>6. CASE item.kind \in parsing
  <2>1. /\ Len(new) = Len(done) + 1 /\ Len(new) = g[<<i0, k0 + 1>>] /\ Len(new) <= Len(list)
        /\ list[Len(done) + 1] = item.name
    BY <1>2, <1>3, <1>5, <1>6, LenProperties
  <2>2. ASSUME NEW j \in 1 .. Len(new) PROVE j <= Len(list) /\ new[j] = list[j]
    <3>1. j \in 1 .. Len(done) \/ j = Len(done) + 1
      BY <1>2, <2>1
    <3>2. QED
      BY <1>2, <1>3, <1>6, <2>1, <3>1
  <2>3. QED
    BY <1>1, <2>1, <2>2 DEF Parsed, new
<1>7. CASE item.kind \notin parsing
  BY <1>1, <1>2, <1>3, <1>5, <1>7 DEF Parsed, new
<1>8. QED
  BY <1>6, <1>7

LEMMA ParsedFile ==
  ASSUME NEW kinds, NEW c, Here(c), c.at = Len(disk[files[c.file]]) + 1, Len(files) \in Nat,
         NEW list, NEW done, NEW g, Counted(g, kinds, EndPlace, list), Parsed(g, c, list, done)
  PROVE  Parsed(g, NextFile(c), list, done)
<1>1. c.file \in 1 .. Len(files) /\ c.file < EndPlace.file
  BY DEF Here, EndPlace
<1>2. g[<<c.file + 1, 1>>] = g[<<c.file, c.at>>]
  BY <1>1 DEF Counted
<1>3. NextFile(c).file = c.file + 1 /\ NextFile(c).at = 1
  BY DEF NextFile
<1>4. QED
  BY <1>2, <1>3 DEF Parsed

LEMMA ParsedAll ==
  ASSUME NEW kinds, NEW list \in Seq(Names), NEW done \in Seq(Names), NEW g,
         Counted(g, kinds, EndPlace, list), Parsed(g, EndPlace, list, done)
  PROVE  done = list
<1>1. Len(done) = Len(list) /\ \A j \in 1 .. Len(done) : done[j] = list[j]
  BY DEF Counted, Parsed
<1>2. QED
  BY <1>1, SeqEqual

(* Every declaration of a file read is in the list of its kind.            *)
LEMMA AllCounted ==
  ASSUME NEW kinds, NEW list \in Seq(Names), NEW g, Counted(g, kinds, EndPlace, list), files \in Seq(Files),
         NEW f \in Range(files), NEW k \in Nat, k \in 1 .. Len(disk[f]), disk[f][k].kind \in kinds
  PROVE  disk[f][k].name \in Range(list)
<1>1. PICK i \in 1 .. Len(files) : files[i] = f
  BY DEF Range
<1>2. Len(files) \in Nat /\ Came(EndPlace, i, k)
  BY LenProperties DEF Came, EndPlace
<1>3. g[<<i, k + 1>>] \in 1 .. Len(list) /\ list[g[<<i, k + 1>>]] = disk[f][k].name
  BY <1>1, <1>2 DEF Counted
<1>4. QED
  BY <1>3 DEF Range

-------------------------------------------------------------------------------
(* The invariant *)

Listed(kinds, list, done) ==
  /\ phase \in {"start", "discover"} => list = <<>>
  /\ phase \in {"start", "discover", "collect"} => done = <<>>
  /\ phase = "collect" => \E g : Counted(g, kinds, cursor, list)
  /\ phase = "parse" => \E g : Counted(g, kinds, EndPlace, list) /\ Parsed(g, cursor, list, done)
  /\ phase \in {"check", "loaded"} => done = list

StructKinds == {"struct", "broken"}
EnumKinds == {"enum"}

(* The index of a type is a place of its name among those collected.       *)
Typed ==
  /\ phase \in {"start", "discover", "collect"} => types = <<>>
  /\ \A k \in 1 .. Len(types) :
       LET list == IF types[k].kind = "struct" THEN structNames ELSE enumNames
       IN types[k].index \in 1 .. Len(list) /\ list[types[k].index] = types[k].name

Placed ==
  /\ phase \in {"start", "discover"} => cursor = FirstPlace
  /\ phase \in {"collect", "parse"} => Here(cursor)
  /\ phase = "check" => currentFile = None

Declarations ==
  /\ Listed(StructKinds, structNames, structs) /\ Listed(EnumKinds, enumNames, enums)
  /\ Typed /\ Placed

IInv == TypeOK /\ Search /\ Declarations /\ ErrorIsWhereItSays

-------------------------------------------------------------------------------
(* Every step keeps it *)

LEMMA SearchDeclares ==
  ASSUME IInv, phase \in {"start", "discover"}, UNCHANGED <<names, program, cursor>>,
         phase' \in {"start", "discover", "failed"}
  PROVE  Declarations'
<1>1. /\ structNames = <<>> /\ enumNames = <<>> /\ structs = <<>> /\ enums = <<>> /\ types = <<>>
      /\ cursor = FirstPlace
  BY DEF IInv, Declarations, Listed, Typed, Placed
<1>2. /\ structNames' = <<>> /\ enumNames' = <<>> /\ structs' = <<>> /\ enums' = <<>> /\ types' = <<>>
      /\ cursor' = FirstPlace
  BY <1>1 DEF names, program
<1>3. Len(types') = 0
  BY <1>2, EmptySeq
<1>4. Typed' /\ Placed'
  BY <1>2, <1>3 DEF Typed, Placed, FirstPlace
<1>5. Listed(StructKinds, structNames, structs)' /\ Listed(EnumKinds, enumNames, enums)'
  BY <1>2 DEF Listed
<1>6. QED
  BY <1>4, <1>5 DEF Declarations

LEMMA DiscoverGoes ==
  ASSUME NEW from, NEW line, NEW path, NEW rest, Discover(from, line, path, rest)
  PROVE  phase' = phase \/ phase' \in {"discover", "failed"}
BY DEF Discover, Report

LEMMA StartInv ==
  ASSUME IInv, Start
  PROVE  IInv'
<1>1. TypeOK' /\ Search' /\ ErrorIsWhereItSays'
  BY StartKeeps DEF IInv
<1>2. phase = "start" /\ phase' \in {"start", "discover", "failed"} /\ UNCHANGED <<names, program, cursor>>
  BY DiscoverGoes DEF Start
<1>3. QED
  BY <1>1, <1>2, SearchDeclares DEF IInv

LEMMA InvolveInv ==
  ASSUME IInv, Involve
  PROVE  IInv'
<1>1. TypeOK' /\ Search' /\ ErrorIsWhereItSays'
  BY InvolveKeeps DEF IInv
<1>2. phase = "discover" /\ UNCHANGED <<names, program, cursor>>
  BY DEF Involve
<1>3. phase' \in {"start", "discover", "failed"}
  BY <1>2, DiscoverGoes DEF Involve
<1>4. QED
  BY <1>1, <1>2, <1>3, SearchDeclares DEF IInv

LEMMA ReturnInv ==
  ASSUME IInv, Return
  PROVE  IInv'
<1>1. TypeOK' /\ Search'
  BY ReturnKeeps DEF IInv
<1>2. /\ phase = "discover" /\ phase' \in {"discover", "collect"}
      /\ UNCHANGED <<disk, visited, files, names, program, cursor, currentFile, diag>>
  BY DEF Return
<1>3. ErrorIsWhereItSays'
  BY <1>2 DEF ErrorIsWhereItSays
<1>4. CASE phase' = "discover"
  BY <1>1, <1>2, <1>3, <1>4, SearchDeclares DEF IInv
<1>5. CASE phase' = "collect"
  <2>1. /\ structNames = <<>> /\ enumNames = <<>> /\ structs = <<>> /\ enums = <<>> /\ types = <<>>
        /\ cursor = FirstPlace
    BY <1>2 DEF IInv, Declarations, Listed, Typed, Placed
  <2>2. /\ structNames' = <<>> /\ enumNames' = <<>> /\ structs' = <<>> /\ enums' = <<>> /\ types' = <<>>
        /\ cursor' = FirstPlace /\ files' = files /\ disk' = disk
    BY <1>2, <2>1 DEF names, program
  <2>3. Len(<<>>) = 0
    BY EmptySeq
  <2>4. Typed'
    BY <2>2, <2>3 DEF Typed
  <2>5. Here(FirstPlace)
    <3>1. PICK i \in 1 .. Len(files) : files[i] = EntryFile
      BY <1>2 DEF IInv, Search, Begun
    <3>2. Len(files) \in Nat /\ 1 \in 1 .. Len(files)
      BY <3>1, LenProperties DEF IInv, TypeOK
    <3>3. disk[files[1]] # Unreadable /\ files[1] \in Files
      BY <3>2, ElementOfSeq DEF IInv, TypeOK, Search, Read
    <3>4. disk[files[1]] \in Seq(Item)
      BY <3>3 DEF IInv, TypeOK
    <3>5. Len(disk[files[1]]) \in Nat
      BY <3>4, LenProperties
    <3>6. QED
      BY <3>2, <3>5 DEF Here, FirstPlace, Position
  <2>6. Placed'
    BY <1>5, <2>2, <2>5 DEF Placed, Here
  <2>7. ASSUME NEW kinds PROVE Counted([x \in Nat \X Nat |-> 0], kinds, FirstPlace, <<>>)
    BY <2>3 DEF Counted, FirstPlace, Came
  <2>8. ASSUME NEW kinds PROVE \E g : Counted(g, kinds, cursor, <<>>)'
    <3>1. Counted([x \in Nat \X Nat |-> 0], kinds, FirstPlace, <<>>)
      BY <2>7
    <3>2. Counted([x \in Nat \X Nat |-> 0], kinds, cursor, <<>>)'
      BY <2>2, <3>1 DEF Counted, Came, FirstPlace
    <3>3. QED
      BY <3>2
  <2>9. Listed(StructKinds, structNames, structs)' /\ Listed(EnumKinds, enumNames, enums)'
    BY <1>5, <2>2, <2>8 DEF Listed
  <2>10. QED
    BY <1>1, <1>3, <2>4, <2>6, <2>9 DEF IInv, Declarations
<1>6. QED
  BY <1>2, <1>4, <1>5

LEMMA SearchStays ==
  ASSUME Search, UNCHANGED <<disk, scan>>, phase \notin {"start", "discover", "failed"},
         phase' \notin {"start", "discover"}
  PROVE  Search'
<1>1. visited' = visited /\ files' = files /\ stack' = stack /\ disk' = disk
  BY DEF scan
<1>2. Begun'
  BY <1>1 DEF Search, Begun, EntryFile
<1>3. /\ Read(files, visited)' <=> Read(files, visited)
      /\ Open(files, stack)' <=> Open(files, stack)
      /\ Followed(files, stack, visited)' <=> Followed(files, stack, visited)
      /\ Within(visited)' <=> Within(visited)
  BY <1>1 DEF Read, Open, Followed, Within, Closed, Targets, InvolveAt, Target
<1>4. QED
  BY <1>2, <1>3 DEF Search

(* The item at the cursor.                                                 *)
LEMMA CursorIs ==
  ASSUME IInv, phase \in {"collect", "parse"}
  PROVE  /\ Here(cursor) /\ cursor.file \in Nat /\ cursor.at \in Nat /\ Len(files) \in Nat
         /\ files[cursor.file] \in Files /\ files[cursor.file] \in Range(files)
         /\ disk[files[cursor.file]] # Unreadable
         /\ Len(disk[files[cursor.file]]) \in Nat
         /\ cursor.at <= Len(disk[files[cursor.file]]) =>
              /\ cursor.at \in 1 .. Len(disk[files[cursor.file]])
              /\ disk[files[cursor.file]][cursor.at] \in Item
              /\ Here(NextItem(cursor))
<1>1. Here(cursor) /\ cursor \in Position /\ files \in Seq(Files)
  BY DEF IInv, Declarations, Placed, TypeOK
<1>2. /\ cursor.file \in Nat /\ cursor.at \in Nat /\ Len(files) \in Nat
      /\ cursor.file \in 1 .. Len(files)
      /\ cursor.at \in 1 .. Len(disk[files[cursor.file]]) + 1
      /\ Len(disk[files[cursor.file]]) \in Nat
  BY <1>1, LenProperties DEF Here, Position
<1>3. files[cursor.file] \in Files /\ files[cursor.file] \in Range(files)
  BY <1>1, <1>2, ElementOfSeq DEF Range
<1>4. disk[files[cursor.file]] # Unreadable
  BY <1>2 DEF IInv, Search, Read
<1>5. ASSUME cursor.at <= Len(disk[files[cursor.file]])
      PROVE  /\ cursor.at \in 1 .. Len(disk[files[cursor.file]])
             /\ disk[files[cursor.file]][cursor.at] \in Item
             /\ Here(NextItem(cursor))
  <2>1. cursor.at \in 1 .. Len(disk[files[cursor.file]])
    BY <1>2, <1>5
  <2>2. disk[files[cursor.file]] \in Seq(Item)
    BY <1>3, <1>4 DEF IInv, TypeOK
  <2>3. NextItem(cursor) \in Position /\ NextItem(cursor).file = cursor.file /\ NextItem(cursor).at = cursor.at + 1
    BY <1>1 DEF NextItem, Position
  <2>4. QED
    BY <1>2, <1>5, <2>1, <2>2, <2>3, ElementOfSeq DEF Here
<1>6. QED
  BY <1>1, <1>2, <1>3, <1>4, <1>5

LEMMA CollectItemInv ==
  ASSUME IInv, CollectItem
  PROVE  IInv'
<1> DEFINE item == disk[files[cursor.file]][cursor.at]
<1>1. /\ phase = "collect" /\ cursor.at <= Len(disk[files[cursor.file]])
      /\ structNames' = WithName(structNames, item, StructKinds)
      /\ enumNames' = WithName(enumNames, item, EnumKinds)
      /\ cursor' = NextItem(cursor)
      /\ UNCHANGED <<disk, phase, scan, program, currentFile, diag>>
  BY DEF CollectItem, StructKinds, EnumKinds, NextItem
<1>2. item \in Item /\ Here(cursor) /\ Here(NextItem(cursor))
  BY <1>1, CursorIs
<1>3. (item.kind \in StructKinds => item.name \in Names) /\ (item.kind \in EnumKinds => item.name \in Names)
  BY <1>2, ItemIs DEF StructKinds, EnumKinds
<1>4. files' = files /\ disk' = disk /\ visited' = visited /\ stack' = stack
      /\ structs' = structs /\ enums' = enums /\ types' = types
  BY <1>1 DEF scan, program
<1>5. structNames \in Seq(Names) /\ enumNames \in Seq(Names)
  BY DEF IInv, TypeOK
<1>6. TypeOK'
  <2>1. structNames' \in Seq(Names) /\ enumNames' \in Seq(Names)
    BY <1>1, <1>3, <1>5, WithNameIs
  <2>2. cursor' \in Position
    BY <1>1, <1>2 DEF Here
  <2>3. QED
    BY <1>1, <1>4, <2>1, <2>2 DEF IInv, TypeOK
<1>7. Search'
  BY <1>1, SearchStays DEF IInv
<1>8. ErrorIsWhereItSays'
  BY <1>1 DEF ErrorIsWhereItSays
<1>9. ASSUME NEW kinds, NEW list \in Seq(Names), Listed(kinds, list, <<>>),
             item.kind \in kinds => item.name \in Names
      PROVE  \E h : Counted(h, kinds, NextItem(cursor), WithName(list, item, kinds))
  <2>1. PICK g : Counted(g, kinds, cursor, list)
    BY <1>1, <1>9 DEF Listed
  <2>2. QED
    BY <1>1, <1>2, <1>9, <2>1, CountItem
<1>10. structs = <<>> /\ enums = <<>> /\ types = <<>>
  BY <1>1 DEF IInv, Declarations, Listed, Typed
<1>11. Listed(StructKinds, structNames, structs)'
  <2>1. PICK h : Counted(h, StructKinds, NextItem(cursor), WithName(structNames, item, StructKinds))
    BY <1>3, <1>5, <1>9, <1>10 DEF IInv, Declarations
  <2>2. Counted(h, StructKinds, cursor, structNames)'
    BY <1>1, <1>4, <2>1 DEF Counted, Came
  <2>3. QED
    BY <1>1, <1>4, <1>10, <2>2 DEF Listed
<1>12. Listed(EnumKinds, enumNames, enums)'
  <2>1. PICK h : Counted(h, EnumKinds, NextItem(cursor), WithName(enumNames, item, EnumKinds))
    BY <1>3, <1>5, <1>9, <1>10 DEF IInv, Declarations
  <2>2. Counted(h, EnumKinds, cursor, enumNames)'
    BY <1>1, <1>4, <2>1 DEF Counted, Came
  <2>3. QED
    BY <1>1, <1>4, <1>10, <2>2 DEF Listed
<1>13. Typed'
  BY <1>1, <1>4, <1>10, EmptySeq DEF Typed
<1>14. Placed'
  BY <1>1, <1>2, <1>4 DEF Placed, Here
<1>15. QED
  BY <1>6, <1>7, <1>8, <1>11, <1>12, <1>13, <1>14 DEF IInv, Declarations

LEMMA CollectEndInv ==
  ASSUME IInv, CollectEnd
  PROVE  IInv'
<1>1. /\ phase = "collect" /\ cursor.at = Len(disk[files[cursor.file]]) + 1
      /\ UNCHANGED <<disk, scan, names, program, currentFile, diag>>
      /\ IF cursor.file = Len(files) THEN phase' = "parse" /\ cursor' = FirstPlace
         ELSE phase' = phase /\ cursor' = NextFile(cursor)
  BY DEF CollectEnd, FirstPlace, NextFile
<1>2. /\ Here(cursor) /\ cursor.file \in Nat /\ Len(files) \in Nat /\ cursor.file \in 1 .. Len(files)
  BY <1>1, CursorIs DEF Here
<1>3. files' = files /\ disk' = disk /\ visited' = visited /\ stack' = stack
      /\ structNames' = structNames /\ enumNames' = enumNames
      /\ structs' = structs /\ enums' = enums /\ types' = types
  BY <1>1 DEF scan, names, program
<1>4. structNames \in Seq(Names) /\ enumNames \in Seq(Names)
  BY DEF IInv, TypeOK
<1>5. structs = <<>> /\ enums = <<>> /\ types = <<>> /\ Len(<<>>) = 0
  BY <1>1, EmptySeq DEF IInv, Declarations, Listed, Typed
<1>6. \A i \in 1 .. Len(files) : /\ files[i] \in Files /\ disk[files[i]] # Unreadable
                                 /\ Len(disk[files[i]]) \in Nat
  <2>1. SUFFICES ASSUME NEW i \in 1 .. Len(files)
                 PROVE  files[i] \in Files /\ disk[files[i]] # Unreadable /\ Len(disk[files[i]]) \in Nat
    OBVIOUS
  <2>2. files[i] \in Files /\ disk[files[i]] # Unreadable
    BY ElementOfSeq DEF IInv, TypeOK, Search, Read
  <2>3. disk[files[i]] \in Seq(Item)
    BY <2>2 DEF IInv, TypeOK
  <2>4. QED
    BY <2>2, <2>3, LenProperties
<1>7. Here(cursor')
  <2>1. CASE cursor.file = Len(files)
    <3>1. 1 \in 1 .. Len(files)
      BY <1>2
    <3>2. QED
      BY <1>1, <1>6, <2>1, <3>1 DEF Here, FirstPlace, Position
  <2>2. CASE cursor.file # Len(files)
    <3>1. cursor.file + 1 \in 1 .. Len(files) /\ cursor.file + 1 \in Nat
      BY <1>2, <2>2
    <3>2. QED
      BY <1>1, <1>6, <2>2, <3>1 DEF Here, NextFile, Position
  <2>3. QED
    BY <2>1, <2>2
<1>8. phase' \in {"collect", "parse"}
  BY <1>1
<1>9. TypeOK'
  BY <1>1, <1>3, <1>7, <1>8 DEF IInv, TypeOK, Phases, Here
<1>10. Search'
  BY <1>1, <1>8, SearchStays DEF IInv
<1>11. ErrorIsWhereItSays'
  BY <1>8 DEF ErrorIsWhereItSays
<1>12. ASSUME NEW kinds, NEW list \in Seq(Names), Listed(kinds, list, <<>>)
       PROVE  \E h : Counted(h, kinds, NextFile(cursor), list)
  <2>1. PICK g : Counted(g, kinds, cursor, list)
    BY <1>1, <1>12 DEF Listed
  <2>2. QED
    BY <1>1, <1>2, <1>12, <2>1, CountEnd
<1>13. cursor.file = Len(files) => NextFile(cursor) = EndPlace
  BY DEF NextFile, EndPlace
<1>14. Listed(StructKinds, structNames, structs)'
  <2>1. PICK h : Counted(h, StructKinds, NextFile(cursor), structNames)
    BY <1>4, <1>5, <1>12 DEF IInv, Declarations
  <2>2. CASE cursor.file = Len(files)
    <3>1. Counted(h, StructKinds, EndPlace, structNames)'
      BY <1>3, <1>13, <2>1, <2>2 DEF Counted, Came, EndPlace
    <3>2. h[<<1, 1>>] = 0
      BY <2>1 DEF Counted
    <3>3. cursor'.file = 1 /\ cursor'.at = 1 /\ structs' = <<>>
      BY <1>1, <1>3, <1>5, <2>2 DEF FirstPlace
    <3>4. Parsed(h, cursor, structNames, structs)'
      BY <1>5, <3>2, <3>3 DEF Parsed
    <3>5. QED
      BY <1>1, <2>2, <3>1, <3>4 DEF Listed
  <2>3. CASE cursor.file # Len(files)
    <3>1. Counted(h, StructKinds, cursor, structNames)'
      BY <1>1, <1>3, <2>1, <2>3 DEF Counted, Came
    <3>2. QED
      BY <1>1, <1>3, <1>5, <2>3, <3>1 DEF Listed
  <2>4. QED
    BY <2>2, <2>3
<1>15. Listed(EnumKinds, enumNames, enums)'
  <2>1. PICK h : Counted(h, EnumKinds, NextFile(cursor), enumNames)
    BY <1>4, <1>5, <1>12 DEF IInv, Declarations
  <2>2. CASE cursor.file = Len(files)
    <3>1. Counted(h, EnumKinds, EndPlace, enumNames)'
      BY <1>3, <1>13, <2>1, <2>2 DEF Counted, Came, EndPlace
    <3>2. h[<<1, 1>>] = 0
      BY <2>1 DEF Counted
    <3>3. cursor'.file = 1 /\ cursor'.at = 1 /\ enums' = <<>>
      BY <1>1, <1>3, <1>5, <2>2 DEF FirstPlace
    <3>4. Parsed(h, cursor, enumNames, enums)'
      BY <1>5, <3>2, <3>3 DEF Parsed
    <3>5. QED
      BY <1>1, <2>2, <3>1, <3>4 DEF Listed
  <2>3. CASE cursor.file # Len(files)
    <3>1. Counted(h, EnumKinds, cursor, enumNames)'
      BY <1>1, <1>3, <2>1, <2>3 DEF Counted, Came
    <3>2. QED
      BY <1>1, <1>3, <1>5, <2>3, <3>1 DEF Listed
  <2>4. QED
    BY <2>2, <2>3
<1>16. Typed'
  BY <1>3, <1>5 DEF Typed
<1>17. Placed'
  BY <1>3, <1>7, <1>8 DEF Placed, Here
<1>18. QED
  BY <1>9, <1>10, <1>11, <1>14, <1>15, <1>16, <1>17 DEF IInv, Declarations

(* A name no list has is declared in no file.                              *)
LEMMA UnknownIs ==
  ASSUME IInv, phase = "parse", NEW n, ~Known(n)
  PROVE  ~Declared(n)
<1>1. PICK g : Counted(g, StructKinds, EndPlace, structNames)
  BY DEF IInv, Declarations, Listed
<1>2. PICK h : Counted(h, EnumKinds, EndPlace, enumNames)
  BY DEF IInv, Declarations, Listed
<1>3. structNames \in Seq(Names) /\ enumNames \in Seq(Names) /\ files \in Seq(Files)
  BY DEF IInv, TypeOK
<1>4. ASSUME NEW f \in Range(files), NEW k \in 1 .. Len(disk[f]), disk[f][k].name = n,
             disk[f][k].kind \in {"struct", "broken", "enum"}
      PROVE  Known(n)
  <2>1. k \in Nat
    OBVIOUS
  <2>2. CASE disk[f][k].kind \in StructKinds
    <3>1. n \in Range(structNames)
      BY <1>1, <1>3, <1>4, <2>1, <2>2, AllCounted
    <3>2. QED
      BY <3>1 DEF Known
  <2>3. CASE disk[f][k].kind \in EnumKinds
    <3>1. n \in Range(enumNames)
      BY <1>2, <1>3, <1>4, <2>1, <2>3, AllCounted
    <3>2. QED
      BY <3>1 DEF Known
  <2>4. QED
    BY <1>4, <2>2, <2>3 DEF StructKinds, EnumKinds
<1>5. QED
  BY <1>4 DEF Declared

(* The type of a known name has a place of the name for its index.         *)
LEMMA TypeOfIs ==
  ASSUME TypeOK, NEW n \in Names, Known(n)
  PROVE  /\ TypeOf(n) \in [name : Names, kind : {"struct", "enum"}, index : Nat]
         /\ LET list == IF TypeOf(n).kind = "struct" THEN structNames ELSE enumNames
            IN TypeOf(n).index \in 1 .. Len(list) /\ list[TypeOf(n).index] = TypeOf(n).name
<1>1. structNames \in Seq(Names) /\ enumNames \in Seq(Names)
  BY DEF TypeOK
<1>2. CASE n \in Range(structNames)
  <2>1. IndexIn(structNames, n) \in 1 .. Len(structNames) /\ structNames[IndexIn(structNames, n)] = n
    BY <1>1, <1>2, IndexInIs
  <2>2. TypeOf(n) = [name |-> n, kind |-> "struct", index |-> IndexIn(structNames, n)]
    BY <1>2 DEF TypeOf
  <2>3. IndexIn(structNames, n) \in Nat
    BY <2>1
  <2>4. QED
    BY <2>1, <2>2, <2>3
<1>3. CASE n \notin Range(structNames)
  <2>1. IndexIn(enumNames, n) \in 1 .. Len(enumNames) /\ enumNames[IndexIn(enumNames, n)] = n
    BY <1>1, <1>3, IndexInIs DEF Known
  <2>2. TypeOf(n) = [name |-> n, kind |-> "enum", index |-> IndexIn(enumNames, n)]
    BY <1>3 DEF TypeOf
  <2>3. IndexIn(enumNames, n) \in Nat
    BY <2>1
  <2>4. QED
    BY <2>1, <2>2, <2>3
<1>4. QED
  BY <1>2, <1>3

LEMMA ParseRefuses ==
  ASSUME IInv, ParseItem, phase' = "failed", UNCHANGED <<program, cursor>>,
         LET item == disk[files[cursor.file]][cursor.at] IN
           item.kind \in {"broken", "stray"} \/ (item.kind = "fr" /\ ~Known(item.name)),
         diag' = [file |-> files[cursor.file], line |-> cursor.at]
  PROVE  IInv'
<1>1. /\ phase = "parse" /\ cursor.at <= Len(disk[files[cursor.file]])
      /\ currentFile' = files[cursor.file] /\ UNCHANGED <<disk, scan, names>>
  BY DEF ParseItem
<1>2. PICK f \in Files, k \in Nat :
        /\ f = files[cursor.file] /\ k = cursor.at /\ disk[f] # Unreadable /\ k \in 1 .. Len(disk[f])
        /\ diag' = [file |-> f, line |-> k] /\ currentFile' = f
  BY <1>1, CursorIs
<1>3. /\ files' = files /\ disk' = disk /\ visited' = visited /\ stack' = stack
      /\ structNames' = structNames /\ enumNames' = enumNames
      /\ structs' = structs /\ enums' = enums /\ types' = types /\ cursor' = cursor
  BY <1>1 DEF scan, names, program
<1>4. TypeOK'
  BY <1>2, <1>3 DEF IInv, TypeOK, Phases
<1>5. Search'
  BY <1>1, SearchStays DEF IInv
<1>6. Declarations'
  BY <1>3, <1>1 DEF IInv, Declarations, Listed, Typed, Placed
<1>7. Wrong(f, k)
  <2>1. ~Known(disk[f][k].name) => ~Declared(disk[f][k].name)
    BY <1>1, UnknownIs
  <2>2. QED
    BY <1>2, <2>1 DEF Wrong
<1>8. Wrong(f, k)'
  BY <1>3, <1>7 DEF Wrong, Declared, NoFile
<1>9. diag'.file = f /\ diag'.line = k /\ f # None
  BY <1>2, LoaderAssumption
<1>10. ErrorIsWhereItSays'
  BY <1>2, <1>3, <1>8, <1>9 DEF ErrorIsWhereItSays
<1>11. QED
  BY <1>4, <1>5, <1>6, <1>10 DEF IInv

LEMMA Appended ==
  ASSUME NEW S, NEW list \in Seq(S), NEW item \in S, NEW longer, longer = Append(list, item)
  PROVE  /\ longer \in Seq(S) /\ Len(list) \in Nat /\ Len(longer) = Len(list) + 1
         /\ longer[Len(list) + 1] = item
         /\ \A k \in 1 .. Len(list) : longer[k] = list[k]
<1>1. Len(list) \in Nat
  BY LenProperties
<1>2. QED
  BY <1>1, AppendProperties

LEMMA ParseAccepts ==
  ASSUME IInv, phase = "parse", NEW item, item = disk[files[cursor.file]][cursor.at],
         cursor.at <= Len(disk[files[cursor.file]]),
         item.kind \notin {"broken", "stray"}, item.kind = "fr" => Known(item.name),
         structs' = WithName(structs, item, {"struct"}), enums' = WithName(enums, item, {"enum"}),
         types' = IF item.kind = "fr" THEN Append(types, TypeOf(item.name)) ELSE types,
         cursor' = NextItem(cursor), currentFile' = files[cursor.file],
         UNCHANGED <<disk, phase, diag, scan, names>>
  PROVE  IInv'
<1>1. item \in Item /\ Here(cursor) /\ Here(NextItem(cursor)) /\ Len(files) \in Nat
      /\ files[cursor.file] \in Files
  BY CursorIs
<1>2. /\ item.kind \in {"struct"} => item.name \in Names
      /\ item.kind \in {"enum"} => item.name \in Names
      /\ item.kind = "fr" => item.name \in Names
  BY <1>1, ItemIs
<1>3. /\ files' = files /\ disk' = disk /\ visited' = visited /\ stack' = stack
      /\ structNames' = structNames /\ enumNames' = enumNames
  BY DEF scan, names
<1>4. /\ structNames \in Seq(Names) /\ enumNames \in Seq(Names) /\ structs \in Seq(Names) /\ enums \in Seq(Names)
      /\ types \in Seq([name : Names, kind : {"struct", "enum"}, index : Nat])
  BY DEF IInv, TypeOK
<1>5. structs' \in Seq(Names)
  BY <1>2, <1>4, WithNameIs
<1>6. enums' \in Seq(Names)
  BY <1>2, <1>4, WithNameIs
<1>7. types' \in Seq([name : Names, kind : {"struct", "enum"}, index : Nat]) /\ Typed'
  <2>1. CASE item.kind # "fr"
    BY <1>3, <1>4, <2>1 DEF IInv, Declarations, Typed
  <2>2. CASE item.kind = "fr"
    <3>1. PICK t : /\ t = TypeOf(item.name) /\ t \in [name : Names, kind : {"struct", "enum"}, index : Nat]
                   /\ LET list == IF t.kind = "struct" THEN structNames ELSE enumNames
                      IN t.index \in 1 .. Len(list) /\ list[t.index] = t.name
      BY <1>2, <2>2, TypeOfIs DEF IInv
    <3>2. /\ types' = Append(types, t) /\ Len(types) \in Nat
          /\ types' \in Seq([name : Names, kind : {"struct", "enum"}, index : Nat])
          /\ Len(types') = Len(types) + 1 /\ types'[Len(types) + 1] = t
          /\ \A k \in 1 .. Len(types) : types'[k] = types[k]
      <4>1. types' = Append(types, t)
        BY <2>2, <3>1
      <4>2. PICK Type : Type = [name : Names, kind : {"struct", "enum"}, index : Nat]
        OBVIOUS
      <4>3. t \in Type /\ types \in Seq(Type)
        BY <1>4, <3>1, <4>2
      <4>4. types' \in Seq(Type)
        BY <4>1, <4>3, Appended
      <4>5. Len(types) \in Nat /\ Len(types') = Len(types) + 1
        BY <4>1, <4>3, Appended
      <4>6. types'[Len(types) + 1] = t
        BY <4>1, <4>3, Appended
      <4>7. \A k \in 1 .. Len(types) : types'[k] = types[k]
        BY <4>1, <4>3, Appended
      <4>8. QED
        BY <4>1, <4>2, <4>4, <4>5, <4>6, <4>7
    <3>3. ASSUME NEW k \in 1 .. Len(types')
          PROVE  LET list == IF types'[k].kind = "struct" THEN structNames' ELSE enumNames'
                 IN types'[k].index \in 1 .. Len(list) /\ list[types'[k].index] = types'[k].name
      <4>1. k \in 1 .. Len(types) \/ k = Len(types) + 1
        BY <3>2
      <4>2. CASE k = Len(types) + 1
        BY <1>3, <3>1, <3>2, <4>2
      <4>3. CASE k \in 1 .. Len(types)
        BY <1>3, <3>2, <4>3 DEF IInv, Declarations, Typed
      <4>4. QED
        BY <4>1, <4>2, <4>3
    <3>4. QED
      BY <3>2, <3>3 DEF Typed
  <2>3. QED
    BY <2>1, <2>2
<1>8. TypeOK'
  BY <1>1, <1>3, <1>5, <1>6, <1>7 DEF IInv, TypeOK, Here
<1>9. Search'
  BY SearchStays DEF IInv
<1>10. ErrorIsWhereItSays'
  BY DEF ErrorIsWhereItSays
<1>11. Placed'
  BY <1>1, <1>3 DEF Placed, Here
<1>12. Listed(StructKinds, structNames, structs)'
  <2>1. PICK g : Counted(g, StructKinds, EndPlace, structNames) /\ Parsed(g, cursor, structNames, structs)
    BY DEF IInv, Declarations, Listed
  <2>2. item.kind \in StructKinds <=> item.kind \in {"struct"}
    BY DEF StructKinds
  <2>3. Parsed(g, NextItem(cursor), structNames, WithName(structs, item, {"struct"}))
    BY <1>1, <1>2, <1>4, <2>1, <2>2, ParsedItem
  <2>4. Counted(g, StructKinds, EndPlace, structNames)' /\ Parsed(g, cursor, structNames, structs)'
    BY <1>3, <2>1, <2>3 DEF Counted, Parsed, EndPlace, Came
  <2>5. QED
    BY <2>4 DEF Listed
<1>13. Listed(EnumKinds, enumNames, enums)'
  <2>1. PICK g : Counted(g, EnumKinds, EndPlace, enumNames) /\ Parsed(g, cursor, enumNames, enums)
    BY DEF IInv, Declarations, Listed
  <2>2. item.kind \in EnumKinds <=> item.kind \in {"enum"}
    BY DEF EnumKinds
  <2>3. Parsed(g, NextItem(cursor), enumNames, WithName(enums, item, {"enum"}))
    BY <1>1, <1>2, <1>4, <2>1, <2>2, ParsedItem
  <2>4. Counted(g, EnumKinds, EndPlace, enumNames)' /\ Parsed(g, cursor, enumNames, enums)'
    BY <1>3, <2>1, <2>3 DEF Counted, Parsed, EndPlace, Came
  <2>5. QED
    BY <2>4 DEF Listed
<1>14. QED
  BY <1>7, <1>8, <1>9, <1>10, <1>11, <1>12, <1>13 DEF IInv, Declarations

LEMMA ParseItemInv ==
  ASSUME IInv, ParseItem
  PROVE  IInv'
<1> DEFINE item == disk[files[cursor.file]][cursor.at]
           Refused == item.kind \in {"broken", "stray"} \/ (item.kind = "fr" /\ ~Known(item.name))
<1>1. phase = "parse" /\ cursor.at <= Len(disk[files[cursor.file]]) /\ currentFile' = files[cursor.file]
      /\ UNCHANGED <<disk, scan, names>>
  BY DEF ParseItem
<1>2. CASE Refused
  <2>1. Report(cursor.at) /\ UNCHANGED <<program, cursor>>
    BY <1>2 DEF ParseItem
  <2>2. phase' = "failed" /\ diag' = [file |-> files[cursor.file], line |-> cursor.at]
    BY <1>1, <2>1 DEF Report
  <2>3. QED
    BY <1>2, <2>1, <2>2, ParseRefuses
<1>3. CASE ~Refused
  <2>1. /\ structs' = WithName(structs, item, {"struct"})
        /\ enums' = WithName(enums, item, {"enum"})
        /\ types' = (IF item.kind = "fr" THEN Append(types, TypeOf(item.name)) ELSE types)
        /\ cursor' = NextItem(cursor)
        /\ UNCHANGED <<phase, diag>>
    BY <1>3 DEF ParseItem, NextItem
  <2>2. item.kind \notin {"broken", "stray"} /\ (item.kind = "fr" => Known(item.name))
    BY <1>3
  <2> HIDE DEF Refused
  <2>3. QED
    BY <1>1, <2>1, <2>2, ParseAccepts
<1>4. QED
  BY <1>2, <1>3

LEMMA ParseEndInv ==
  ASSUME IInv, ParseEnd
  PROVE  IInv'
<1>1. /\ phase = "parse" /\ cursor.at = Len(disk[files[cursor.file]]) + 1
      /\ UNCHANGED <<disk, scan, names, program, diag>>
      /\ IF cursor.file = Len(files)
         THEN phase' = "check" /\ currentFile' = None /\ cursor' = cursor
         ELSE phase' = "parse" /\ currentFile' = files[cursor.file] /\ cursor' = NextFile(cursor)
  BY DEF ParseEnd, NextFile
<1>2. /\ Here(cursor) /\ cursor.file \in Nat /\ Len(files) \in Nat /\ cursor.file \in 1 .. Len(files)
      /\ files[cursor.file] \in Files
  BY <1>1, CursorIs DEF Here
<1>3. /\ files' = files /\ disk' = disk /\ visited' = visited /\ stack' = stack
      /\ structNames' = structNames /\ enumNames' = enumNames
      /\ structs' = structs /\ enums' = enums /\ types' = types
  BY <1>1 DEF scan, names, program
<1>4. /\ structNames \in Seq(Names) /\ enumNames \in Seq(Names) /\ structs \in Seq(Names) /\ enums \in Seq(Names)
  BY DEF IInv, TypeOK
<1>5. cursor.file # Len(files) => Here(NextFile(cursor))
  <2>1. SUFFICES ASSUME cursor.file # Len(files) PROVE Here(NextFile(cursor))
    OBVIOUS
  <2>2. cursor.file + 1 \in 1 .. Len(files) /\ cursor.file + 1 \in Nat
    BY <1>2, <2>1
  <2>3. files[cursor.file + 1] \in Files /\ disk[files[cursor.file + 1]] # Unreadable
    BY <2>2, ElementOfSeq DEF IInv, TypeOK, Search, Read
  <2>4. disk[files[cursor.file + 1]] \in Seq(Item)
    BY <2>3 DEF IInv, TypeOK
  <2>5. Len(disk[files[cursor.file + 1]]) \in Nat
    BY <2>4, LenProperties
  <2>6. NextFile(cursor).file = cursor.file + 1 /\ NextFile(cursor).at = 1 /\ NextFile(cursor) \in Position
    BY <2>2 DEF NextFile, Position
  <2>7. QED
    BY <2>2, <2>5, <2>6 DEF Here
<1>6. phase' \in {"parse", "check"} /\ cursor' \in Position
  BY <1>1, <1>2, <1>5 DEF Here
<1>7. TypeOK'
  BY <1>1, <1>2, <1>3, <1>6 DEF IInv, TypeOK, Phases
<1>8. Search'
  BY <1>1, <1>6, SearchStays DEF IInv
<1>9. ErrorIsWhereItSays'
  BY <1>6 DEF ErrorIsWhereItSays
<1>10. Typed'
  BY <1>3, <1>6 DEF IInv, Declarations, Typed
<1>11. Placed'
  BY <1>1, <1>3, <1>5, <1>6 DEF Placed, Here
<1>12. cursor.file = Len(files) => NextFile(cursor) = EndPlace
  BY DEF NextFile, EndPlace
<1>13. ASSUME NEW kinds, NEW list \in Seq(Names), NEW done \in Seq(Names), Listed(kinds, list, done)
       PROVE  /\ cursor.file = Len(files) => done = list
              /\ \E g : Counted(g, kinds, EndPlace, list) /\ Parsed(g, NextFile(cursor), list, done)
  <2>1. PICK g : Counted(g, kinds, EndPlace, list) /\ Parsed(g, cursor, list, done)
    BY <1>1, <1>13 DEF Listed
  <2>2. Parsed(g, NextFile(cursor), list, done)
    BY <1>1, <1>2, <2>1, ParsedFile
  <2>3. cursor.file = Len(files) => done = list
    BY <1>12, <1>13, <2>1, <2>2, ParsedAll
  <2>4. QED
    BY <2>1, <2>2, <2>3
<1>14. Listed(StructKinds, structNames, structs)'
  <2>1. Listed(StructKinds, structNames, structs)
    BY DEF IInv, Declarations
  <2>2. CASE cursor.file = Len(files)
    <3>1. structs = structNames
      BY <1>4, <1>13, <2>1, <2>2
    <3>2. QED
      BY <1>1, <1>3, <2>2, <3>1 DEF Listed
  <2>3. CASE cursor.file # Len(files)
    <3>1. PICK g : Counted(g, StructKinds, EndPlace, structNames) /\ Parsed(g, NextFile(cursor), structNames, structs)
      BY <1>4, <1>13, <2>1
    <3>2. Counted(g, StructKinds, EndPlace, structNames)'
      BY <1>3, <3>1 DEF Counted, EndPlace, Came
    <3>3. phase' = "parse" /\ cursor' = NextFile(cursor)
      BY <1>1, <2>3
    <3>4. Parsed(g, cursor, structNames, structs)'
      BY <1>3, <3>1, <3>3 DEF Parsed
    <3>5. QED
      BY <3>2, <3>3, <3>4 DEF Listed
  <2>4. QED
    BY <2>2, <2>3
<1>15. Listed(EnumKinds, enumNames, enums)'
  <2>1. Listed(EnumKinds, enumNames, enums)
    BY DEF IInv, Declarations
  <2>2. CASE cursor.file = Len(files)
    <3>1. enums = enumNames
      BY <1>4, <1>13, <2>1, <2>2
    <3>2. QED
      BY <1>1, <1>3, <2>2, <3>1 DEF Listed
  <2>3. CASE cursor.file # Len(files)
    <3>1. PICK g : Counted(g, EnumKinds, EndPlace, enumNames) /\ Parsed(g, NextFile(cursor), enumNames, enums)
      BY <1>4, <1>13, <2>1
    <3>2. Counted(g, EnumKinds, EndPlace, enumNames)'
      BY <1>3, <3>1 DEF Counted, EndPlace, Came
    <3>3. phase' = "parse" /\ cursor' = NextFile(cursor)
      BY <1>1, <2>3
    <3>4. Parsed(g, cursor, enumNames, enums)'
      BY <1>3, <3>1, <3>3 DEF Parsed
    <3>5. QED
      BY <3>2, <3>3, <3>4 DEF Listed
  <2>4. QED
    BY <2>2, <2>3
<1>16. QED
  BY <1>7, <1>8, <1>9, <1>10, <1>11, <1>14, <1>15 DEF IInv, Declarations

LEMMA CheckInv ==
  ASSUME IInv, Check
  PROVE  IInv'
<1>1. /\ phase = "check" /\ currentFile = None /\ UNCHANGED <<disk, scan, names, program, cursor, currentFile>>
      /\ \/ phase' = "loaded" /\ diag' = diag
         \/ ~(IsInjective(structs) /\ IsInjective(enums)) /\ Report(0)
  BY DEF Check, IInv, Declarations, Placed
<1>2. /\ files' = files /\ disk' = disk /\ structNames' = structNames /\ enumNames' = enumNames
      /\ visited' = visited /\ stack' = stack
      /\ structs' = structs /\ enums' = enums /\ types' = types /\ cursor' = cursor
  BY <1>1 DEF scan, names, program
<1>3. \/ phase' = "loaded" /\ diag' = diag
      \/ /\ ~(IsInjective(structs) /\ IsInjective(enums))
         /\ phase' = "failed" /\ diag' = [file |-> None, line |-> 0]
  BY <1>1 DEF Report
<1>4. TypeOK'
  BY <1>1, <1>2, <1>3 DEF IInv, TypeOK, Phases
<1>5. Search'
  BY <1>1, <1>3, SearchStays DEF IInv
<1>6. Declarations'
  BY <1>1, <1>2, <1>3 DEF IInv, Declarations, Listed, Typed, Placed
<1>7. ErrorIsWhereItSays'
  <2>1. CASE phase' = "loaded"
    BY <2>1 DEF ErrorIsWhereItSays
  <2>2. CASE phase' = "failed"
    <3>1. diag'.file = None /\ diag'.line = 0 /\ (~IsInjective(structs') \/ ~IsInjective(enums'))
      BY <1>2, <1>3, <2>2
    <3>2. QED
      BY <3>1 DEF ErrorIsWhereItSays
  <2>3. QED
    BY <1>3, <2>1, <2>2
<1>8. QED
  BY <1>4, <1>5, <1>6, <1>7 DEF IInv

LEMMA IInvInit == Init => IInv
<1> SUFFICES ASSUME Init PROVE IInv
  OBVIOUS
<1>1. /\ phase = "start" /\ visited = {} /\ files = <<>> /\ stack = <<>>
      /\ structNames = <<>> /\ enumNames = <<>> /\ structs = <<>> /\ enums = <<>> /\ types = <<>>
      /\ cursor = [file |-> 1, at |-> 1] /\ currentFile = None /\ diag = None /\ Len(<<>>) = 0
  BY EmptySeq DEF Init
<1>2. TypeOK
  BY <1>1, LoaderAssumption DEF Init, TypeOK, Phases, Position
<1>3. Search
  BY <1>1 DEF Search, Read, Open, Followed, Within, Begun
<1>4. Declarations
  BY <1>1 DEF Declarations, Listed, Typed, Placed, FirstPlace
<1>5. ErrorIsWhereItSays
  BY <1>1 DEF ErrorIsWhereItSays
<1>6. QED
  BY <1>2, <1>3, <1>4, <1>5 DEF IInv

LEMMA IInvNext == IInv /\ [Next]_vars => IInv'
<1> SUFFICES ASSUME IInv, [Next]_vars PROVE IInv'
  OBVIOUS
<1>1. CASE UNCHANGED vars
  <2>1. /\ files' = files /\ disk' = disk /\ structNames' = structNames /\ enumNames' = enumNames
        /\ visited' = visited /\ stack' = stack /\ phase' = phase
        /\ structs' = structs /\ enums' = enums /\ types' = types /\ cursor' = cursor
        /\ currentFile' = currentFile /\ diag' = diag
    BY <1>1 DEF vars
  <2>2. TypeOK'
    BY <2>1 DEF IInv, TypeOK
  <2>3. Search'
    BY <2>1 DEF IInv, Search, Read, Open, Followed, Within, Closed, Targets, InvolveAt, Target, Begun, EntryFile
  <2>4. Declarations'
    <3>1. Typed' /\ Placed'
      BY <2>1 DEF IInv, Declarations, Typed, Placed, FirstPlace, Here
    <3>2. Listed(StructKinds, structNames, structs)'
      <4>1. Listed(StructKinds, structNames, structs)
        BY DEF IInv, Declarations
      <4>2. ASSUME NEW g PROVE Counted(g, StructKinds, cursor, structNames)' <=> Counted(g, StructKinds, cursor, structNames)
        BY <2>1 DEF Counted, Came
      <4>3. ASSUME NEW g PROVE Counted(g, StructKinds, EndPlace, structNames)' <=> Counted(g, StructKinds, EndPlace, structNames)
        BY <2>1 DEF Counted, Came, EndPlace
      <4>4. ASSUME NEW g PROVE Parsed(g, cursor, structNames, structs)' <=> Parsed(g, cursor, structNames, structs)
        BY <2>1 DEF Parsed
      <4>5. QED
        BY <2>1, <4>1, <4>2, <4>3, <4>4 DEF Listed
    <3>3. Listed(EnumKinds, enumNames, enums)'
      <4>1. Listed(EnumKinds, enumNames, enums)
        BY DEF IInv, Declarations
      <4>2. ASSUME NEW g PROVE Counted(g, EnumKinds, cursor, enumNames)' <=> Counted(g, EnumKinds, cursor, enumNames)
        BY <2>1 DEF Counted, Came
      <4>3. ASSUME NEW g PROVE Counted(g, EnumKinds, EndPlace, enumNames)' <=> Counted(g, EnumKinds, EndPlace, enumNames)
        BY <2>1 DEF Counted, Came, EndPlace
      <4>4. ASSUME NEW g PROVE Parsed(g, cursor, enumNames, enums)' <=> Parsed(g, cursor, enumNames, enums)
        BY <2>1 DEF Parsed
      <4>5. QED
        BY <2>1, <4>1, <4>2, <4>3, <4>4 DEF Listed
    <3>4. QED
      BY <3>1, <3>2, <3>3 DEF Declarations
  <2>5. ErrorIsWhereItSays'
    BY <2>1 DEF IInv, ErrorIsWhereItSays, Wrong, Declared, NoFile
  <2>6. QED
    BY <2>2, <2>3, <2>4, <2>5 DEF IInv
<1>2. QED
  BY <1>1, StartInv, InvolveInv, ReturnInv, CollectItemInv, CollectEndInv, ParseItemInv, ParseEndInv, CheckInv DEF Next

LEMMA Invariant == Spec => []IInv
BY IInvInit, IInvNext, PTL DEF Spec

-------------------------------------------------------------------------------
(* What the specification has *)

(* The shape of the loader's state (load_program and what it calls).       *)
THEOREM TypeCorrect == Spec => []TypeOK
<1>1. IInv => TypeOK
  BY DEF IInv
<1>2. QED
  BY <1>1, Invariant, PTL

(* However the files involve each other, discover reads each once and is   *)
(* never open twice for one.                                               *)
THEOREM EachFileOnce == Spec => []LoadedOnce
<1>1. ASSUME IInv PROVE LoadedOnce
  <2>1. files \in Seq(Files)
    BY <1>1 DEF IInv, TypeOK
  <2>2. IsInjective(files)
    BY <1>1, <2>1 DEF IInv, Search, Read, IsInjective
  <2>3. QED
    BY <1>1, <2>2 DEF IInv, Search, Open, LoadedOnce
<1>2. IInv => LoadedOnce
  BY <1>1
<1>3. QED
  BY <1>2, Invariant, PTL

(* What load_program goes on to parse are the files that involve reaches   *)
(* from the entry file, all of them and no other.                          *)
THEOREM ReachesTheProgram == Spec => []LoadsWhatIsReached
<1>1. IInv => LoadsWhatIsReached
  BY SearchReaches DEF IInv, LoadsWhatIsReached
<1>2. QED
  BY <1>1, Invariant, PTL

(* The index that parse_type_token took from the names collected is, in a  *)
(* program that is loaded, the place of the struct or enum of that name.   *)
THEOREM IndicesMeanTheirNames == Spec => []TypesMeanTheirDeclaration
<1>1. IInv => TypesMeanTheirDeclaration
  BY DEF IInv, Declarations, Listed, Typed, TypesMeanTheirDeclaration
<1>2. QED
  BY <1>1, Invariant, PTL

(* The file and the line diag_set is given are those of an error of the    *)
(* program, or of none when the error is of the program as a whole.        *)
THEOREM ErrorsAreWhereTheySay == Spec => []ErrorIsWhereItSays
<1>1. IInv => ErrorIsWhereItSays
  BY DEF IInv
<1>2. QED
  BY <1>1, Invariant, PTL
-------------------------------------------------------------------------------
(* Why loading ends: every step goes down an order without endless descents *)

After == [p \in Phases |->
  CASE p = "start" -> 0 [] p = "discover" -> 1 [] p = "collect" -> 2
    [] p = "parse" -> 3 [] p = "check" -> 4 [] OTHER -> 5]

(* A file more; or none and one call fewer; or the same calls and the one  *)
(* on top further in its file.                                             *)
SearchDescends ==
  \/ visited \subseteq visited' /\ visited # visited'
  \/ visited' = visited /\ Len(stack') < Len(stack)
  \/ /\ visited' = visited /\ Len(stack') = Len(stack)
     /\ Last(stack').file = Last(stack).file
     /\ Last(stack').at > Last(stack).at
     /\ Last(stack').at <= Len(disk[Last(stack).file]) + 1

(* A later place of the files read.                                        *)
ReadingDescends ==
  /\ files' = files
  /\ \/ cursor'.file > cursor.file /\ cursor'.file <= Len(files)
     \/ /\ cursor'.file = cursor.file /\ cursor'.at > cursor.at
        /\ cursor'.at <= Len(disk[files[cursor.file]]) + 1

Descends ==
  /\ disk' = disk /\ visited' \subseteq Files
  /\ \/ After[phase'] > After[phase]
     \/ phase' = "discover" /\ phase = "discover" /\ SearchDescends
     \/ phase' = phase /\ phase \in {"collect", "parse"} /\ ReadingDescends

LEMMA AfterIs ==
  /\ After["start"] = 0 /\ After["discover"] = 1 /\ After["collect"] = 2
  /\ After["parse"] = 3 /\ After["check"] = 4 /\ After["loaded"] = 5 /\ After["failed"] = 5
BY DEF After, Phases

LEMMA InvolveDescends ==
  ASSUME TypeOK, Search, Involve
  PROVE  After[phase'] > After[phase] \/ (phase' = "discover" /\ phase = "discover" /\ SearchDescends)
<1> DEFINE top == Last(stack)
           from == top.file
           k == NextRef(top.file, top.at)
           frame == [file |-> from, at |-> k + 1]
           rest == Append(Front(stack), frame)
           path == disk[from][k].name
           f == Realpath[<<from, path>>]
<1>1. /\ phase = "discover" /\ stack # <<>> /\ k <= Len(disk[from])
      /\ Discover(from, k, path, rest)
  BY DEF Involve
<1>2. /\ from \in Files /\ Len(disk[from]) \in Nat /\ top.at \in 1 .. Len(disk[from]) + 1
      /\ disk[from] \in Seq(Item)
  BY <1>1, TopIs
<1>3. k \in top.at .. Len(disk[from]) + 1
  BY <1>2, NextRefIs
<1>4. /\ Len(stack) \in Nat /\ Front(stack) \in Seq([file : Files, at : Nat])
      /\ Len(Front(stack)) = Len(stack) - 1
  BY <1>1, FrontIs DEF TypeOK
<1>5. frame \in [file : Files, at : Nat] /\ frame.file = from /\ frame.at = k + 1
  BY <1>2, <1>3
<1>6. k \in Int /\ k + 1 > top.at /\ k + 1 <= Len(disk[from]) + 1
  BY <1>1, <1>2, <1>3
<1> HIDE DEF k, frame, path
<1>7. rest \in Seq([file : Files, at : Nat]) /\ Len(rest) = Len(stack) /\ Last(rest) = frame
  <2>1. Len(Front(stack)) \in Nat /\ Len(Front(stack)) + 1 = Len(stack)
    BY <1>4, LenProperties
  <2>2. Len(rest) = Len(stack) /\ rest[Len(stack)] = frame /\ rest \in Seq([file : Files, at : Nat])
    BY <1>4, <1>5, <2>1, AppendProperties
  <2>3. QED
    BY <2>2 DEF Last
<1> HIDE DEF f, rest
<1>8. \/ phase' = "failed"
      \/ visited' = visited /\ stack' = rest /\ phase' = phase
      \/ f \notin visited /\ visited' = visited \cup {f} /\ phase' = "discover"
  BY <1>1 DEF Discover, Report, f
<1>9. CASE phase' = "failed"
  BY <1>1, <1>9, AfterIs
<1>10. CASE visited' = visited /\ stack' = rest /\ phase' = phase
  <2>1. Len(stack') = Len(stack) /\ Last(stack').file = from /\ Last(stack').at = k + 1
    BY <1>5, <1>7, <1>10
  <2>2. SearchDescends
    BY <1>6, <1>10, <2>1 DEF SearchDescends
  <2>3. QED
    BY <1>1, <1>10, <2>2
<1>11. CASE f \notin visited /\ visited' = visited \cup {f} /\ phase' = "discover"
  BY <1>1, <1>11 DEF SearchDescends
<1>12. QED
  BY <1>8, <1>9, <1>10, <1>11

(* However the files involve each other, no step of load_program undoes    *)
(* another's work: it goes on to the next phase, or discover sees a file   *)
(* it had not seen, closes a call or goes on in one, or the scan of the    *)
(* files and the parser are further on.  With finitely many Files no run   *)
(* of the loader goes on for ever; that it stops only when it has ended is *)
(* Ends, which TLC checks.                                                 *)
THEOREM LoadingDescends == Spec => [][Descends]_vars
<1>1. ASSUME IInv, IInv', [Next]_vars PROVE [Descends]_vars
  <2>1. /\ TypeOK /\ Search /\ TypeOK'
    BY <1>1 DEF IInv
  <2>2. visited' \subseteq Files
    BY <2>1 DEF TypeOK
  <2>3. CASE Start
    <3>1. phase = "start" /\ Discover(None, 0, Entry, <<>>) /\ disk' = disk
      BY <2>3 DEF Start
    <3>2. phase' = "failed" \/ phase' = "discover"
      <4>1. visited = {}
        BY <2>1, <3>1 DEF Search, Begun
      <4>2. QED
        BY <3>1, <4>1 DEF Discover, Report
    <3>3. QED
      BY <2>2, <3>1, <3>2, AfterIs DEF Descends
  <2>4. CASE Involve
    <3>1. disk' = disk
      BY <2>4 DEF Involve
    <3>2. QED
      BY <2>1, <2>2, <2>4, <3>1, InvolveDescends DEF Descends
  <2>5. CASE Return
    <3>1. /\ phase = "discover" /\ stack # <<>> /\ stack' = Front(stack) /\ disk' = disk
          /\ visited' = visited /\ phase' \in {"discover", "collect"}
      BY <2>5 DEF Return
    <3>2. Len(stack) \in Nat /\ Len(stack') = Len(stack) - 1
      BY <2>1, <3>1, FrontIs DEF TypeOK
    <3>3. SearchDescends
      BY <3>1, <3>2 DEF SearchDescends
    <3>4. QED
      BY <2>2, <3>1, <3>3, AfterIs DEF Descends
  <2>6. CASE CollectItem \/ ParseItem
    <3>1. /\ phase \in {"collect", "parse"} /\ disk' = disk /\ files' = files
          /\ cursor.at <= Len(disk[files[cursor.file]])
      BY <2>6 DEF CollectItem, ParseItem, scan
    <3>2. phase' = "failed" \/ (phase' = phase /\ cursor' = [cursor EXCEPT !.at = @ + 1])
      BY <2>6 DEF CollectItem, ParseItem, Report
    <3>3. Here(cursor)
      BY <1>1, <3>1, CursorIs
    <3>4. CASE phase' = "failed"
      BY <2>2, <3>1, <3>4, AfterIs DEF Descends
    <3>5. CASE phase' = phase /\ cursor' = [cursor EXCEPT !.at = @ + 1]
      <4>1. cursor'.file = cursor.file /\ cursor'.at = cursor.at + 1 /\ cursor.at \in Nat
        BY <3>3, <3>5 DEF Here, Position
      <4>2. Len(disk[files[cursor.file]]) \in Nat
        BY <3>3 DEF Here
      <4>3. ReadingDescends
        BY <3>1, <4>1, <4>2 DEF ReadingDescends
      <4>4. QED
        BY <2>2, <3>1, <3>5, <4>3 DEF Descends
    <3>6. QED
      BY <3>2, <3>4, <3>5
  <2>7. CASE CollectEnd \/ ParseEnd
    <3>1. /\ phase \in {"collect", "parse"} /\ disk' = disk /\ files' = files /\ cursor.file <= Len(files)
      BY <2>7 DEF CollectEnd, ParseEnd, scan
    <3>2. \/ phase = "collect" /\ phase' = "parse"
          \/ phase = "parse" /\ phase' = "check"
          \/ phase' = phase /\ cursor.file # Len(files) /\ cursor' = [file |-> cursor.file + 1, at |-> 1]
      BY <2>7 DEF CollectEnd, ParseEnd
    <3>3. Here(cursor) /\ Len(files) \in Nat
      BY <1>1, <2>1, <3>1, CursorIs, LenProperties DEF TypeOK
    <3>4. CASE phase' = phase /\ cursor.file # Len(files) /\ cursor' = [file |-> cursor.file + 1, at |-> 1]
      <4>1. cursor'.file = cursor.file + 1 /\ cursor.file \in Nat
        BY <3>3, <3>4 DEF Here, Position
      <4>2. ReadingDescends
        BY <3>1, <3>3, <3>4, <4>1 DEF ReadingDescends
      <4>3. QED
        BY <2>2, <3>1, <3>4, <4>2 DEF Descends
    <3>5. QED
      BY <2>2, <3>1, <3>2, <3>4, AfterIs DEF Descends
  <2>8. CASE Check
    <3>1. phase = "check" /\ disk' = disk /\ phase' \in {"loaded", "failed"}
      BY <2>8 DEF Check, Report
    <3>2. QED
      BY <2>2, <3>1, AfterIs DEF Descends
  <2>9. QED
    BY <1>1, <2>3, <2>4, <2>5, <2>6, <2>7, <2>8 DEF Next
<1>2. IInv /\ IInv' /\ [Next]_vars => [Descends]_vars
  BY <1>1
<1>3. QED
  BY <1>2, Invariant, PTL DEF Spec
===============================================================================
