---------------------------- MODULE PacketSnoop ----------------------------
(***************************************************************************)
(* The packet capture window (src/src/packetsnoop.c).                      *)
(*                                                                         *)
(* Every click on "Capture des paquets réseau" starts one more thread that *)
(* reads frames from a socket of its own and queues, for each, an idle     *)
(* callback that appends its description to the text view.  The click also *)
(* connects two handlers to the "destroy" signal of the button: join the   *)
(* thread, then free its data.  The thread tests a flag "stop" that        *)
(* nothing sets: it ends on an error only, after a modal box it runs       *)
(* itself, whose answer is an event for the main loop.                     *)
(*                                                                         *)
(* What a frame is decoded to is in PacketDecode.  Here the n-th frame of  *)
(* capture c is <<c, n>>.                                                  *)
(***************************************************************************)
EXTENDS Integers, Sequences

CONSTANTS
  SlotCount,  \* length of open_windows
  SnoopTool,  \* index of the packetsnoop button (1 in main.c)
  Windows,    \* identities (addresses) the window may have
  Captures,   \* one identity per click; their number bounds the model
  MaxFrames,  \* bound on the frames of one capture
  NULL

ASSUME SnoopAssumption ==
  /\ SlotCount \in Nat
  /\ SnoopTool \in 0 .. SlotCount - 1
  /\ NULL \notin Windows
  /\ NULL \notin 0 .. SlotCount - 1
  /\ MaxFrames \in Nat

VARIABLES
  window,     \* open_windows[SnoopTool]
  live,       \* the window that exists, or NULL
  loop,       \* the main loop: "running", "quitting", "exited"
  capture,    \* each capture: the phase of its thread, its view, frames received
  shown,      \* the last frame of each capture that was displayed
  idle,       \* the queued etherType_idle callbacks, oldest first
  handlers,   \* connected to "destroy" of the button, in the order of connection
  destroying, \* those still to run while the button is being destroyed
  data,       \* the PacketSnoopData of each capture: "none", "live", "freed"
  boxes,      \* captures waiting in a modal box, the one with the grab first
  fault       \* the first undefined step: "none", "view" or "data"

vars == <<window, live, loop, capture, shown, idle, handlers, destroying, data, boxes, fault>>

Phases == {"free", "starting", "running", "box", "answered", "ended"}
Handlers == [call : {"join", "free"}, of : Captures]

TypeOK ==
  /\ {window, live} \subseteq Windows \union {NULL}
  /\ loop \in {"running", "quitting", "exited"}
  /\ capture \in [Captures -> [phase : Phases, view : Windows \union {NULL},
                               received : 0 .. MaxFrames, stale : BOOLEAN]]
  /\ shown \in [Captures -> 0 .. MaxFrames]
  /\ idle \in Seq(Captures \X (1 .. MaxFrames))
  /\ handlers \in Seq(Handlers)
  /\ destroying \in Seq(Handlers)
  /\ data \in [Captures -> {"none", "live", "freed"}]
  /\ boxes \in Seq(Captures)
  /\ fault \in {"none", "view", "data"}

Init ==
  /\ window = NULL
  /\ live = NULL
  /\ loop = "running"
  /\ capture = [c \in Captures |->
                  [phase |-> "free", view |-> NULL, received |-> 0, stale |-> FALSE]]
  /\ shown = [c \in Captures |-> 0]
  /\ idle = <<>>
  /\ handlers = <<>>
  /\ destroying = <<>>
  /\ data = [c \in Captures |-> "none"]
  /\ boxes = <<>>
  /\ fault = "none"

Undefined(kind) == fault' = IF fault = "none" THEN kind ELSE fault

\* Seeded fault: the events of a box are handled while the main loop waits.
LoopAlwaysFree == loop = "running"

\* The main loop dispatches: it is not inside the destruction of the button.
LoopFree == loop = "running" /\ destroying = <<>>

\* The user can reach the windows: no modal box has the grab.
InputAllowed == LoopFree /\ boxes = <<>>

SetPhase(c, p) == [capture EXCEPT ![c].phase = p]

----------------------------------------------------------------------------
(* The window and its button                                               *)

\* packetsnoop, for a free slot.  The button of an open window only raises it.
OpenSnoop(w) ==
  /\ InputAllowed
  /\ window = NULL
  /\ window' = w
  /\ live' = w
  /\ UNCHANGED <<loop, capture, shown, idle, handlers, destroying, data, boxes, fault>>

\* Seeded fault: the data is freed before the thread is joined.
OnDestroyFreeFirst(c) == <<[call |-> "free", of |-> c], [call |-> "join", of |-> c]>>

\* Seeded fault: the thread is not joined.
OnDestroyFreeOnly(c) == <<[call |-> "free", of |-> c]>>

\* Seeded fault: a handler that sets "stop" is connected first.
OnDestroyStop(c) ==
  <<[call |-> "stop", of |-> c], [call |-> "join", of |-> c], [call |-> "free", of |-> c]>>

\* What packetsnoop_confirm connects to the "destroy" signal.
OnDestroy(c) == <<[call |-> "join", of |-> c], [call |-> "free", of |-> c]>>

\* packetsnoop_confirm
StartCapture(c) ==
  /\ InputAllowed
  /\ live # NULL
  /\ capture[c].phase = "free"
  /\ capture' = [capture EXCEPT ![c].phase = "starting", ![c].view = live]
  /\ data' = [data EXCEPT ![c] = "live"]
  /\ handlers' = handlers \o OnDestroy(c)
  /\ UNCHANGED <<window, live, loop, shown, idle, destroying, boxes, fault>>

\* Seeded fault: the slot keeps the window that is closed.
WindowKept == window

WindowAfterClose == NULL

\* The window is closed: destroyWindow clears the slot, the view goes, and the
\* button's destruction calls what its clicks have connected.
CloseSnoop ==
  /\ InputAllowed
  /\ live # NULL
  /\ live' = NULL
  /\ window' = WindowAfterClose
  /\ capture' = [c \in Captures |->
                   [capture[c] EXCEPT !.stale = @ \/ capture[c].phase # "free"]]
  /\ destroying' = handlers
  /\ handlers' = <<>>
  /\ UNCHANGED <<loop, shown, idle, data, boxes, fault>>

\* Seeded fault: a handler that has run stays to be run.
HandlersKept == destroying

HandlersAfterCall == Tail(destroying)

\* g_thread_join returns: the thread has ended.
JoinReturns ==
  /\ loop = "running"
  /\ destroying # <<>>
  /\ Head(destroying).call = "join"
  /\ capture[Head(destroying).of].phase = "ended"
  /\ destroying' = HandlersAfterCall
  /\ UNCHANGED <<window, live, loop, capture, shown, idle, handlers, data, boxes, fault>>

FreeData ==
  /\ loop = "running"
  /\ destroying # <<>>
  /\ Head(destroying).call = "free"
  /\ data' = [data EXCEPT ![Head(destroying).of] = "freed"]
  /\ destroying' = HandlersAfterCall
  /\ UNCHANGED <<window, live, loop, capture, shown, idle, handlers, boxes, fault>>

\* The main window is closed: gtk_main_quit, and main() returns.
DestroyMain ==
  /\ InputAllowed
  /\ loop' = "quitting"
  /\ UNCHANGED <<window, live, capture, shown, idle, handlers, destroying, data, boxes, fault>>

ExitMain ==
  /\ loop = "quitting"
  /\ loop' = "exited"
  /\ UNCHANGED <<window, live, capture, shown, idle, handlers, destroying, data, boxes, fault>>

----------------------------------------------------------------------------
(* The thread: capture_packets                                             *)

\* socket(): a descriptor, or an error and its box.
OpenSocket(c) ==
  /\ loop # "exited"
  /\ capture[c].phase = "starting"
  /\ \/ capture' = SetPhase(c, "running") /\ boxes' = boxes
     \/ capture' = SetPhase(c, "box") /\ boxes' = <<c>> \o boxes
  /\ UNCHANGED <<window, live, loop, shown, idle, handlers, destroying, data, fault>>

\* The loop tests data->stop, which is FALSE, unless the data has been freed.
TestStop(c) ==
  /\ loop # "exited"
  /\ capture[c].phase = "running"
  /\ IF data[c] = "freed" THEN Undefined("data") ELSE UNCHANGED fault

\* Seeded fault: the newest frame is displayed first.
QueueFirst(f) == <<f>> \o idle

\* process: gdk_threads_add_idle appends to the callbacks of its priority.
Queue(f) == Append(idle, f)

\* recvfrom returns a frame; at most MaxFrames in this model.
Receive(c) ==
  /\ TestStop(c)
  /\ capture[c].received < MaxFrames
  /\ capture' = [capture EXCEPT ![c].received = @ + 1]
  /\ idle' = Queue(<<c, capture[c].received + 1>>)
  /\ UNCHANGED <<window, live, loop, shown, handlers, destroying, data, boxes>>

\* recvfrom returns an error: a box, run by this thread.
ReceiveFails(c) ==
  /\ TestStop(c)
  /\ capture' = SetPhase(c, "box")
  /\ boxes' = <<c>> \o boxes
  /\ UNCHANGED <<window, live, loop, shown, idle, handlers, destroying, data>>

\* The user answers the box that has the grab; the main loop handles the click.
AnswerBox ==
  /\ LoopFree
  /\ boxes # <<>>
  /\ capture' = SetPhase(Head(boxes), "answered")
  /\ boxes' = Tail(boxes)
  /\ UNCHANGED <<window, live, loop, shown, idle, handlers, destroying, data, fault>>

\* gtk_dialog_run returns; the socket is closed and the thread ends.
EndCapture(c) ==
  /\ loop # "exited"
  /\ capture[c].phase = "answered"
  /\ capture' = SetPhase(c, "ended")
  /\ UNCHANGED <<window, live, loop, shown, idle, handlers, destroying, data, boxes, fault>>

----------------------------------------------------------------------------
(* The idle callback: etherType_idle                                       *)

\* Seeded fault: the callback returns TRUE and stays in the queue.
IdleKept == idle

\* The callback returns FALSE and is removed.
IdleAfterCall == Tail(idle)

\* The oldest frame is described in the view its capture was started for.
ShowFrame ==
  /\ LoopFree
  /\ idle # <<>>
  /\ ~ capture[Head(idle)[1]].stale
  /\ shown' = [shown EXCEPT ![Head(idle)[1]] = Head(idle)[2]]
  /\ idle' = IdleAfterCall
  /\ UNCHANGED <<window, live, loop, capture, handlers, destroying, data, boxes, fault>>

\* The view has been destroyed: undefined.  The process ends, or goes on; what
\* the callback may add to a view that took its address is not followed.
ShowFrameLate ==
  /\ LoopFree
  /\ idle # <<>>
  /\ capture[Head(idle)[1]].stale
  /\ Undefined("view")
  /\ idle' = Tail(idle)
  /\ loop' \in {"running", "exited"}
  /\ UNCHANGED <<window, live, capture, shown, handlers, destroying, data, boxes>>

ThreadStep(c) == OpenSocket(c) \/ Receive(c) \/ ReceiveFails(c) \/ EndCapture(c)

Next ==
  \/ \E w \in Windows : OpenSnoop(w)
  \/ \E c \in Captures : StartCapture(c) \/ ThreadStep(c)
  \/ CloseSnoop
  \/ JoinReturns
  \/ FreeData
  \/ DestroyMain
  \/ ExitMain
  \/ AnswerBox
  \/ ShowFrame
  \/ ShowFrameLate

Spec == Init /\ [][Next]_vars

\* The kernel runs every thread, the main loop its handlers and, when nothing
\* more urgent is ready, its idle callbacks; the user answers a box that blocks
\* everything.  Nothing is assumed of recvfrom, nor of the user otherwise.
Fairness ==
  /\ \A c \in Captures : WF_vars(OpenSocket(c)) /\ WF_vars(EndCapture(c))
  /\ WF_vars(JoinReturns \/ FreeData)
  /\ WF_vars(ExitMain)
  /\ WF_vars(AnswerBox)
  /\ WF_vars(ShowFrame \/ ShowFrameLate)

FairSpec == Spec /\ Fairness

----------------------------------------------------------------------------
(* Properties                                                              *)

\* The window is one tool window of the registry.
Registry ==
  INSTANCE Interface WITH
    Tools <- {SnoopTool},
    open_windows <- [i \in 0 .. SlotCount - 1 |-> IF i = SnoopTool THEN window ELSE NULL],
    tool <- [w \in Windows |-> IF w = live THEN SnoopTool ELSE NULL],
    front <- live

\* PacketSnoop uses the window registry as every tool does, although the
\* destruction of its window may not return.
ImplementsInterface == Registry!InterfaceSpec

\* Whatever the number of captures on a view, the frames a capture has received
\* and not yet displayed are all queued, each once, in the order of reception:
\* none is lost, repeated or overtaken while the view exists.
NothingLost ==
  \A c \in Captures :
    ~ capture[c].stale =>
      /\ \A n \in shown[c] + 1 .. capture[c].received :
           \E k \in 1 .. Len(idle) : idle[k] = <<c, n>>
      /\ \A k \in 1 .. Len(idle) :
           idle[k][1] = c =>
             /\ idle[k][2] \in shown[c] + 1 .. capture[c].received
             /\ \A m \in 1 .. k - 1 : idle[m][1] = c => idle[m][2] < idle[k][2]

\* No thread reads its data after it was freed: the handlers that several clicks
\* have piled up on the button join each thread before they free its data.
DataOutlivesThread ==
  /\ \A c \in Captures : data[c] = "freed" => capture[c].phase = "ended"
  /\ fault # "data"

\* A frame meets a destroyed view only when its capture had already ended, in an
\* error, before the window was closed: a capture still under way never lets
\* the main loop get back to the queue.
LateFramesNeedFailure ==
  /\ fault = "view" => \E c \in Captures : capture[c].stale /\ capture[c].phase = "ended"
  /\ \A k \in 1 .. Len(idle) :
       LET c == idle[k][1]
       IN  capture[c].stale /\ LoopFree => capture[c].phase = "ended"

\* The main loop waits for a thread that has not been through its last box.
Stuck ==
  /\ destroying # <<>>
  /\ Head(destroying).call = "join"
  /\ capture[Head(destroying).of].phase \in {"starting", "running", "box"}

\* Once the main loop waits for such a thread it waits for ever: a thread that
\* then fails needs the main loop to have its box answered.
ClosingBlocks == [][Stuck => Stuck']_vars

\* Every queued frame is displayed, or at least taken from the queue, unless the
\* main loop is stuck or ends.
QueueIsServed == \A c \in Captures, n \in 1 .. MaxFrames :
  (\E k \in 1 .. Len(idle) : idle[k] = <<c, n>>)
    ~> (shown[c] >= n \/ capture[c].stale \/ loop # "running")

\* A window is closed in finite time, unless one of its captures was under way.
CloseReturns == destroying # <<>> ~> destroying = <<>> \/ Stuck

----------------------------------------------------------------------------
(* What the documentation says and the code does not do                    *)

\* README: one interface from which the user goes from tool to tool.  So closing
\* the window of one gives the main loop, and the other tools, back.
ToolsStayUsable == destroying # <<>> ~> destroying = <<>>

=============================================================================
