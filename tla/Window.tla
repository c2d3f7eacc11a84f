---------------------------------- MODULE Window -------------------------------
(***************************************************************************)
(* The window of a generated program: the globals fy_sdl_window,           *)
(* fy_sdl_renderer and fy_sdl_should_close beside what SDL keeps, its      *)
(* windows, their renderers and its queue of events, and the user.  SDL    *)
(* sends SDL_QUIT when its only window is closed by the user; SDL_Quit     *)
(* destroys every window and empties the queue.                            *)
(***************************************************************************)
EXTENDS Integers, SequencesExt

CONSTANTS
  Windows,     \* the windows SDL can make
  MaxQueue,    \* bound on the number of events in the queue
  None,        \* NULL
  OneWindow    \* TRUE: the program opens a window only when it has closed the one before

VARIABLES
  window,      \* fy_sdl_window
  renderer,    \* fy_sdl_renderer, named by its window
  should_close,\* fy_sdl_should_close
  onScreen,    \* SDL's windows
  drawable,    \* those of them that have a renderer
  queue,       \* the events the program has not polled: "quit" or "other"
  asked        \* whether the user has clicked on a close button since the last window_close

windowVars == <<window, renderer, should_close, onScreen, drawable, queue, asked>>

ASSUME WindowAssumption == None \notin Windows /\ MaxQueue \in Nat /\ OneWindow \in BOOLEAN

WindowInit ==
  /\ window = None /\ renderer = None /\ should_close = FALSE
  /\ onScreen = {} /\ drawable = {} /\ queue = <<>> /\ asked = FALSE

-------------------------------------------------------------------------------
(* window_open, which gives true only in the last case *)

(* SDL_CreateWindow fails.  A failure of SDL_Init changes nothing. *)
OpenNoWindow ==
  /\ window' = None
  /\ UNCHANGED <<renderer, should_close, onScreen, drawable, queue, asked>>

(* SDL_CreateRenderer fails: the window stays. *)
OpenNoRenderer ==
  \E w \in Windows \ onScreen :
    /\ window' = w /\ onScreen' = onScreen \cup {w}
    /\ renderer' = None
    /\ UNCHANGED <<should_close, drawable, queue, asked>>

OpenBoth ==
  \E w \in Windows \ onScreen :
    /\ window' = w /\ onScreen' = onScreen \cup {w}
    /\ renderer' = w /\ drawable' = drawable \cup {w}
    /\ UNCHANGED <<should_close, queue, asked>>

WindowOpen ==
  /\ OneWindow => window = None
  /\ OpenNoWindow \/ OpenNoRenderer \/ OpenBoth

(* Mutant: fy_sdl_window is not set to NULL. *)
WindowCloseStale ==
  /\ renderer' = None
  /\ onScreen' = {} /\ drawable' = {} /\ queue' = <<>> /\ asked' = FALSE
  /\ UNCHANGED <<window, should_close>>

(* window_close: SDL_Quit destroys what is left besides the program's own.  *)
WindowClose ==
  /\ renderer' = None /\ window' = None
  /\ onScreen' = {} /\ drawable' = {} /\ queue' = <<>> /\ asked' = FALSE
  /\ UNCHANGED should_close

(* Mutant: the last event decides. *)
PollEventsLast ==
  /\ queue # <<>>
  /\ should_close' = (Last(queue) = "quit")
  /\ queue' = <<>>
  /\ UNCHANGED <<window, renderer, onScreen, drawable, asked>>

(* window_poll_events: every event of the queue, in its order.  Polling an  *)
(* empty queue changes nothing.                                             *)
PollEvents ==
  /\ queue # <<>>
  /\ should_close' = (should_close \/ "quit" \in Range(queue))
  /\ queue' = <<>>
  /\ UNCHANGED <<window, renderer, onScreen, drawable, asked>>

-------------------------------------------------------------------------------
(* The user *)

(* A click on the close button of a window; SDL tells of it by SDL_QUIT     *)
(* only when the window is the last one.                                    *)
ClickClose ==
  /\ onScreen # {} /\ Len(queue) < MaxQueue
  /\ queue' = Append(queue, IF \E w \in Windows : onScreen = {w} THEN "quit" ELSE "other")
  /\ asked' = TRUE
  /\ UNCHANGED <<window, renderer, should_close, onScreen, drawable>>

(* A key, the mouse, a redraw *)
OtherEvent ==
  /\ onScreen # {} /\ Len(queue) < MaxQueue
  /\ queue' = Append(queue, "other")
  /\ UNCHANGED <<window, renderer, should_close, onScreen, drawable, asked>>

WindowNext == WindowOpen \/ WindowClose \/ PollEvents

User == ClickClose \/ OtherEvent

-------------------------------------------------------------------------------
(* Properties *)

(* The program's pointers are NULL or name what SDL has, and SDL has no     *)
(* window but the program's: whichever of the three calls of window_open    *)
(* fails, drawing and closing touch nothing that is gone, and no window     *)
(* stays behind.                                                            *)
WindowSound ==
  /\ window # None => window \in onScreen
  /\ renderer # None => renderer = window /\ renderer \in drawable
  /\ drawable \subseteq onScreen /\ onScreen \subseteq {window}
================================================================================
