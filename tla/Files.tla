---------------------------------- MODULE Files --------------------------------
(***************************************************************************)
(* Standard input and files of a generated program: input, read_file,      *)
(* write_file and append_file, each a few calls of the C library, any of   *)
(* which can fail.  write_file and append_file tell the program whether    *)
(* they worked; promised is what the program may believe after that.       *)
(***************************************************************************)
EXTENDS Text

CONSTANTS
  Paths,       \* the paths of the program
  Contents,    \* what is in files and on standard input at first
  Nul, NewLine,\* the characters '\0' and '\n'
  FirstCap,    \* the size of the buffer input() starts with, 64 in the code
  Missing,     \* no file
  Directory,   \* a directory
  Unknown      \* a file the program was told nothing of

VARIABLES
  disk,        \* path -> its characters, Missing or Directory
  promised,    \* path -> the content that true results told of, or Unknown
  stdin        \* what has not been read of standard input

Char == UNION {Range(s) : s \in Literals \cup Contents}

ASSUME FilesAssumption ==
  /\ FirstCap \in Nat \ {0}
  /\ Literals \subseteq Seq(Char \ {Nul}) /\ Contents \subseteq Seq(Char)
  /\ Missing \notin Seq(Char) /\ Directory \notin Seq(Char) /\ Unknown \notin Seq(Char)

filesVars == <<text, status, disk, promised, stdin>>

-------------------------------------------------------------------------------
(* input() *)

(* What of the characters read is the C string. *)
UpToNul(s) == SubSeq(s, 1, SelectInSeq(s \o <<Nul>>, LAMBDA ch : ch = Nul) - 1)

Line(s) == SubSeq(s, 1, SelectInSeq(s \o <<NewLine>>, LAMBDA ch : ch = NewLine) - 1)

(* The size of the buffer when n characters of a line are in it: doubled    *)
(* when a character and the final '\0' would not both fit.                  *)
Capacity(n) ==
  LET cap[i \in 0 .. n] ==
        IF i = 0 THEN FirstCap ELSE IF i >= cap[i - 1] THEN 2 * cap[i - 1] ELSE cap[i - 1]
  IN  cap[n]

(* Every write of a line of n characters, and of the '\0', is in the buffer. *)
Fits(n) == n < Capacity(n) /\ \A i \in 1 .. n : i - 1 < Capacity(i)

Input ==
  LET line == Line(stdin) IN
  /\ UNCHANGED <<disk, promised>>
  /\ stdin' = SubSeq(stdin, Len(line) + 2, Len(stdin))
  /\ IF Fits(Len(line)) THEN Assign(UpToNul(line)) ELSE Undefined

-------------------------------------------------------------------------------
(* Files *)

IsFile(p) == disk[p] \notin {Missing, Directory}

(* The strings read_file can give: none of the file when it cannot be       *)
(* opened, and as much as fread reads of it otherwise.                      *)
ReadOutcomes(p) ==
  {<<>>} \cup (IF IsFile(p) THEN {UpToNul(SubSeq(disk[p], 1, n)) : n \in 0 .. Len(disk[p])} ELSE {})

(* A directory opens, and its size is LONG_MAX to ftell: there is no block  *)
(* of LONG_MAX + 1 bytes, and read_file writes through the null pointer.    *)
ReadFile(p) ==
  /\ UNCHANGED <<disk, promised, stdin>>
  /\ "only files" \in Rules => disk[p] # Directory
  /\ IF disk[p] = Directory THEN Undefined ELSE \E s \in ReadOutcomes(p) : Assign(s)

(* How a write of s ends: what fwrite said of it, and how many of the       *)
(* characters it put in its buffer are on the disk after fclose.            *)
Endings(s) ==
  {e \in [said : 0 .. Len(s), kept : 0 .. Len(s)] :
     e.kept <= e.said /\ ("disk has room" \in Rules => e.kept = e.said)}

(* The program's belief after a call on p that gave true if done. *)
Told(p, done, s) == promised' = [promised EXCEPT ![p] = IF done THEN s ELSE Unknown]

OpenFails(p) == UNCHANGED disk /\ Told(p, FALSE, <<>>)

(* Mutant: opened with "ab". *)
WriteFileAtEnd(p) ==
  /\ UNCHANGED <<text, status, stdin>>
  /\ \/ OpenFails(p)
     \/ /\ disk[p] # Directory
        /\ \E e \in Endings(text) :
             /\ disk' = [disk EXCEPT ![p] = (IF @ = Missing THEN <<>> ELSE @) \o SubSeq(text, 1, e.kept)]
             /\ Told(p, e.said = Len(text), text)

(* write_file(p, text): "wb" leaves nothing of what was there. *)
WriteFile(p) ==
  /\ UNCHANGED <<text, status, stdin>>
  /\ \/ OpenFails(p)
     \/ /\ disk[p] # Directory
        /\ \E e \in Endings(text) :
             /\ disk' = [disk EXCEPT ![p] = SubSeq(text, 1, e.kept)]
             /\ Told(p, e.said = Len(text), text)

(* append_file(p, text): "ab" makes the file if there is none. *)
AppendFile(p) ==
  /\ UNCHANGED <<text, status, stdin>>
  /\ \/ OpenFails(p)
     \/ /\ disk[p] # Directory
        /\ \E e \in Endings(text) :
             LET old == IF disk[p] = Missing THEN <<>> ELSE disk[p] IN
             /\ Len(old) + Len(text) <= MaxText
             /\ disk' = [disk EXCEPT ![p] = old \o SubSeq(text, 1, e.kept)]
             /\ Told(p, e.said = Len(text) /\ promised[p] # Unknown,
                     IF promised[p] = Unknown THEN <<>> ELSE promised[p] \o text)

FilesInit ==
  /\ TextInit
  /\ disk \in [Paths -> Contents \cup {Missing, Directory}]
  /\ promised = [p \in Paths |-> Unknown]
  /\ stdin \in Contents

FilesNext ==
  \/ TextNext /\ UNCHANGED <<disk, promised, stdin>>
  \/ Running /\ Input
  \/ Running /\ \E p \in Paths : ReadFile(p) \/ WriteFile(p) \/ AppendFile(p)

-------------------------------------------------------------------------------
(* Properties *)

(* What true results of write_file and append_file told the program of a    *)
(* file is what read_file can give of it, and otherwise it gives only the   *)
(* beginning of that: fwrite's count stands for the whole call.             *)
PromisesKept ==
  \A p \in Paths : promised[p] # Unknown =>
    /\ promised[p] \in ReadOutcomes(p)
    /\ \A s \in ReadOutcomes(p) : IsPrefix(s, promised[p])
================================================================================
