--------------------------------- MODULE Services ------------------------------
(***************************************************************************)
(* A generated program that works with strings, files and a window, in any *)
(* order: the steps of Text, Files and Window, and those of the user, who  *)
(* acts at any time.  A string index out of range ends the program,        *)
(* wherever it is.                                                         *)
(***************************************************************************)
EXTENDS Files, Window

vars == <<filesVars, windowVars>>

Init == FilesInit /\ WindowInit

Poll == Running /\ PollEvents /\ UNCHANGED filesVars

Next ==
  \/ FilesNext /\ UNCHANGED windowVars
  \/ Running /\ WindowNext /\ UNCHANGED filesVars
  \/ User /\ UNCHANGED filesVars

(* The program polls once a frame, as README.md tells it to. *)
Spec == Init /\ [][Next]_vars /\ WF_vars(Poll)

-------------------------------------------------------------------------------
(* A click of the user on the close button, with whatever events come       *)
(* before or after it, makes window_should_close() true, unless the program *)
(* closes the window first or ends.                                         *)
ClickIsSeen == asked ~> should_close \/ ~asked \/ ~Running
================================================================================
