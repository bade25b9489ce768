------------------------------ MODULE Toolbox ------------------------------
(***************************************************************************)
(* Two tools in one process: the port scanner and the packet capture.      *)
(*                                                                         *)
(* They meet in the array open_windows, in the queue of idle callbacks and *)
(* on the one main loop.  A scan starts its thread only once no event is   *)
(* pending, the callbacks of a capture among them; nothing is dispatched   *)
(* while the main loop joins the capture threads of a window that closes;  *)
(* a box of either tool takes the input from both.                         *)
(*                                                                         *)
(* The scanner is PortEye itself; the capture is PacketSnoop, its window,  *)
(* slot and loop read from the registry the two share.                     *)
(***************************************************************************)
EXTENDS PortEye

CONSTANTS
  SnoopTool,  \* index of the packetsnoop button (1 in main.c)
  Captures,   \* one identity per click on its button
  MaxFrames   \* bound on the frames of one capture

ASSUME ToolboxAssumption ==
  /\ Tools = {PortEyeTool, SnoopTool}
  /\ PortEyeTool # SnoopTool
  /\ MaxFrames \in Nat

VARIABLES
  capture, described, frames, handlers, destroying, data, boxes, snoopFault

snoopVars == <<capture, described, frames, handlers, destroying, data, boxes, snoopFault>>
toolVars == <<vars, snoopVars>>

\* The window of the capture tool, or NULL.
SnoopWindow ==
  IF \E w \in Windows : tool[w] = SnoopTool
  THEN CHOOSE w \in Windows : tool[w] = SnoopTool
  ELSE NULL

\* After gtk_main_quit the loop a suspended handler drains events with goes on.
SnoopLoop == IF loop = "quitting" /\ ui # <<>> THEN "running" ELSE loop

Snoop ==
  INSTANCE PacketSnoop WITH
    window <- open_windows[SnoopTool],
    live <- SnoopWindow,
    loop <- SnoopLoop,
    shown <- described,
    idle <- frames,
    fault <- snoopFault

ToolboxInit == Init /\ Snoop!Init

----------------------------------------------------------------------------
(* The steps of the scanner                                                *)

\* The main loop is not joining the threads of a capture window.
MainLoopFree == destroying = <<>>

\* A box of a capture has the grab: it is younger than a box of the scanner,
\* whose answer lets the loop that showed it go on.
NoCaptureBox == boxes = <<>>

\* The drain that ends in the start of a thread ends when no event of any tool
\* is pending.
StartScan(s) ==
  /\ MainLoopFree
  /\ frames = <<>>
  /\ StartThread(s)

ScannerHandler ==
  \/ MainLoopFree /\ NoCaptureBox /\ (User \/ DismissDialog)
  \/ MainLoopFree /\ (UpdateTextView \/ Exit)
  \/ \E s \in Scans : StartScan(s)

ScannerThread(s) == Probe(s) \/ PostReport(s) \/ QueueUpdate(s)

ScannerStep ==
  /\ ScannerHandler \/ \E s \in Scans : ScannerThread(s)
  /\ UNCHANGED snoopVars

----------------------------------------------------------------------------
(* The steps of the capture tool                                           *)

PresentPackets ==
  /\ InputAllowed /\ MainLoopFree /\ NoCaptureBox
  /\ PresentWindow(SnoopTool)
  /\ UNCHANGED <<portVars, snoopVars>>

OpenPackets(w) ==
  /\ InputAllowed
  /\ OpenWindow(SnoopTool, w)
  /\ UNCHANGED portVars
  /\ Snoop!OpenSnoop(w)

StartPackets(c) == InputAllowed /\ UNCHANGED vars /\ Snoop!StartCapture(c)

ClosePackets(w) ==
  /\ InputAllowed
  /\ tool[w] = SnoopTool
  /\ DestroyWindow(w)
  /\ UNCHANGED portVars
  /\ Snoop!CloseSnoop

\* The capture's thread, the callbacks for its frames and the destruction of
\* its button go on while a box of the scanner has the grab.
PacketsGoOn ==
  /\ UNCHANGED vars
  /\ \/ \E c \in Captures : Snoop!ThreadStep(c)
     \/ Snoop!AnswerBox
     \/ Snoop!JoinReturns
     \/ Snoop!FreeData
     \/ Snoop!ShowFrame

\* The callback for a view that is gone, which the process may not survive.
ShowPacketsLate ==
  /\ UNCHANGED portVars
  /\ UNCHANGED interfaceVars \/ Crash
  /\ Snoop!ShowFrameLate

PacketsStep ==
  \/ PresentPackets
  \/ \E w \in Windows : OpenPackets(w) \/ ClosePackets(w)
  \/ \E c \in Captures : StartPackets(c)
  \/ PacketsGoOn
  \/ ShowPacketsLate

ToolboxNext == ScannerStep \/ PacketsStep

\* As in PortEye and PacketSnoop; a drain is again and again free to end.
ToolboxFairness ==
  /\ WF_toolVars(MainLoopFree /\ UpdateTextView /\ UNCHANGED snoopVars)
  /\ WF_toolVars(MainLoopFree /\ NoCaptureBox /\ DismissDialog /\ UNCHANGED snoopVars)
  /\ \A s \in Scans :
       /\ SF_toolVars(StartScan(s) /\ UNCHANGED snoopVars)
       /\ WF_toolVars(ScannerThread(s) /\ UNCHANGED snoopVars)
  /\ \A c \in Captures :
       WF_toolVars(UNCHANGED vars /\ (Snoop!OpenSocket(c) \/ Snoop!EndCapture(c)))
  /\ WF_toolVars(UNCHANGED vars /\ (Snoop!JoinReturns \/ Snoop!FreeData))
  /\ WF_toolVars(UNCHANGED vars /\ Snoop!AnswerBox)
  /\ WF_toolVars((UNCHANGED vars /\ Snoop!ShowFrame) \/ ShowPacketsLate)

ToolboxSpec == ToolboxInit /\ [][ToolboxNext]_toolVars /\ ToolboxFairness

----------------------------------------------------------------------------
(* Properties                                                              *)

\* A scan is answered also while packets are captured, unless the process ends,
\* or the window of a capture under way is closed: this stops every tool.
ScansAreAnswered ==
  \A s \in Scans :
    scan[s].phase = "clicked" ~>
      scan[s].phase = "done" \/ loop = "exited" \/ Snoop!Stuck

=============================================================================
