----------------------------- MODULE Interface -----------------------------
(***************************************************************************)
(* The window registry of c-nets-tools (src/src/interface.c) and the main  *)
(* loop that src/src/main.c runs.                                          *)
(*                                                                         *)
(* main() puts one button per tool on the main window.  The handler of a   *)
(* button looks at open_windows[button_index]: if it holds a window, the   *)
(* window is presented; otherwise a new one is created and stored there.   *)
(* The "destroy" handler of a tool window, destroyWindow, clears the slot. *)
(* GTK runs every handler on the thread of the main loop, one at a time,   *)
(* so one handler is one action.                                           *)
(***************************************************************************)
EXTENDS Integers

CONSTANTS
  SlotCount,  \* length of the array open_windows (10 in the code)
  Tools,      \* button indices that have a handler (4, urlspy, has none)
  Windows,    \* identities (addresses) a tool window may have
  NULL

ASSUME SlotCountAssumption == SlotCount \in Nat \ {0}

Slots == 0 .. SlotCount - 1

ASSUME InterfaceAssumption ==
  /\ Tools \subseteq Slots
  /\ NULL \notin Windows
  /\ NULL \notin Slots

VARIABLES
  open_windows,  \* the array, a window or NULL in each slot
  tool,          \* the tool whose live window this is; NULL if there is none
  front,         \* the tool window last shown or presented, NULL once destroyed
  loop           \* "running"; "quitting" after gtk_main_quit; "exited"

interfaceVars == <<open_windows, tool, front, loop>>

Live(w) == tool[w] # NULL

TypeOK ==
  /\ open_windows \in [Slots -> Windows \union {NULL}]
  /\ tool \in [Windows -> Tools \union {NULL}]
  /\ front \in Windows \union {NULL}
  /\ loop \in {"running", "quitting", "exited"}

InterfaceInit ==
  /\ open_windows = [i \in Slots |-> NULL]
  /\ tool = [w \in Windows |-> NULL]
  /\ front = NULL
  /\ loop = "running"

----------------------------------------------------------------------------
(* What the handlers do to the array.                                      *)

\* Seeded fault: the slot of a destroyed window keeps its pointer.
ClearSlotForgotten(w) == open_windows

\* destroyWindow clears the first slot that holds the window, then breaks.
ClearSlot(w) ==
  LET Holds(i) == open_windows[i] = w
  IN  [i \in Slots |->
         IF Holds(i) /\ \A j \in Slots : Holds(j) => i <= j
         THEN NULL
         ELSE open_windows[i]]

----------------------------------------------------------------------------
(* Handlers                                                                *)

\* The button of a tool whose slot is taken: gtk_window_present on it.
PresentWindow(t) ==
  /\ loop = "running"
  /\ open_windows[t] # NULL
  /\ front' = open_windows[t]
  /\ UNCHANGED <<open_windows, tool, loop>>

\* The button of a tool whose slot is free: a new window, at an address no
\* live window has, is stored in the slot and shown.
OpenWindow(t, w) ==
  /\ loop = "running"
  /\ open_windows[t] = NULL
  /\ ~ Live(w)
  /\ open_windows' = [open_windows EXCEPT ![t] = w]
  /\ tool' = [tool EXCEPT ![w] = t]
  /\ front' = w
  /\ UNCHANGED loop

\* A tool window is closed: its "destroy" handler, then its end.
DestroyWindow(w) ==
  /\ loop # "exited"
  /\ Live(w)
  /\ open_windows' = ClearSlot(w)
  /\ tool' = [tool EXCEPT ![w] = NULL]
  /\ front' = IF front = w THEN NULL ELSE front
  /\ UNCHANGED loop

\* The main window, and its buttons with it, is closed: gtk_main_quit.
DestroyMain ==
  /\ loop = "running"
  /\ loop' = "quitting"
  /\ UNCHANGED <<open_windows, tool, front>>

\* gtk_main returns and main() with it.
ExitMain ==
  /\ loop = "quitting"
  /\ loop' = "exited"
  /\ UNCHANGED <<open_windows, tool, front>>

\* The process ends inside a handler: exit(1) when no key can be derived.
Abort ==
  /\ loop # "exited"
  /\ loop' = "exited"
  /\ UNCHANGED <<open_windows, tool, front>>

InterfaceNext ==
  \/ \E t \in Tools : PresentWindow(t)
  \/ \E t \in Tools, w \in Windows : OpenWindow(t, w)
  \/ \E w \in Windows : DestroyWindow(w)
  \/ DestroyMain
  \/ ExitMain
  \/ Abort

InterfaceSpec == InterfaceInit /\ [][InterfaceNext]_interfaceVars

----------------------------------------------------------------------------
(* Properties                                                              *)

\* The array and the windows agree: slot t holds w exactly when w is the live
\* window of tool t.  So a tool never has two windows, no slot keeps a pointer
\* to a destroyed window (which the next click would present), and no live
\* window has lost its slot (the next click would open a second one).
SlotsTrackWindows ==
  \A i \in Slots, w \in Windows : open_windows[i] = w <=> tool[w] = i

\* A click on the button of a tool that has a window brings a live window of
\* that very tool to the front.
ClickPresentsTool ==
  [][\A t \in Tools : PresentWindow(t) => Live(front') /\ tool[front'] = t]_interfaceVars

=============================================================================
