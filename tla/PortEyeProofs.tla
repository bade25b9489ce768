--------------------------- MODULE PortEyeProofs ----------------------------
(***************************************************************************)
(* Theorems about the window registry, for any number of slots, tools and  *)
(* windows, and about the port scanner, which implements it, for any       *)
(* number of windows and scans, any MAX_PORTS and any network.             *)
(***************************************************************************)
EXTENDS PortEye, TLAPS

----------------------------------------------------------------------------
(* The window registry.  TypeOK and SlotsTrackWindows are inductive        *)
(* together.                                                               *)

Inv == TypeOK /\ SlotsTrackWindows

\* Clearing the slot of a live window frees exactly the slot of its tool: the
\* window is in no other slot, so the first match of destroyWindow is the only.
LEMMA ClearSlotFreesOne ==
  ASSUME Inv, NEW w \in Windows, Live(w)
  PROVE  /\ tool[w] \in Slots
         /\ ClearSlot(w) \in [Slots -> Windows \union {NULL}]
         /\ \A i \in Slots :
              ClearSlot(w)[i] = IF i = tool[w] THEN NULL ELSE open_windows[i]
<1>1. tool[w] \in Slots
  BY InterfaceAssumption DEF Inv, TypeOK, Live
<1>2. \A i \in Slots : open_windows[i] = w <=> i = tool[w]
  BY DEF Inv, SlotsTrackWindows
<1>3. \A i \in Slots : i <= i
  BY SlotCountAssumption DEF Slots
<1>4. \A i \in Slots :
        (open_windows[i] = w /\ \A j \in Slots : open_windows[j] = w => i <= j) <=> i = tool[w]
  BY <1>1, <1>2, <1>3
<1>5. ClearSlot(w) = [i \in Slots |-> IF i = tool[w] THEN NULL ELSE open_windows[i]]
  BY <1>4 DEF ClearSlot
<1> QED
  BY <1>1, <1>5 DEF Inv, TypeOK

LEMMA InitEstablishesInv == InterfaceInit => Inv
  BY InterfaceAssumption DEF InterfaceInit, Inv, TypeOK, SlotsTrackWindows

LEMMA StepPreservesInv ==
  ASSUME Inv, [InterfaceNext]_interfaceVars
  PROVE  Inv'
<1>1. ASSUME NEW t \in Tools, PresentWindow(t)
      PROVE  Inv'
  BY <1>1, InterfaceAssumption DEF PresentWindow, Inv, TypeOK, SlotsTrackWindows
<1>2. ASSUME NEW t \in Tools, NEW w \in Windows, OpenWindow(t, w)
      PROVE  Inv'
  <2>1. t \in Slots
    BY InterfaceAssumption
  <2>2. TypeOK'
    BY <1>2, <2>1 DEF OpenWindow, Inv, TypeOK
  <2>3. \A i \in Slots : open_windows[i] # w
    BY <1>2, InterfaceAssumption DEF OpenWindow, Live, Inv, SlotsTrackWindows
  <2>4. \A v \in Windows : tool[v] # t
    BY <1>2, <2>1, InterfaceAssumption DEF OpenWindow, Inv, SlotsTrackWindows
  <2>5. SlotsTrackWindows'
    BY <1>2, <2>1, <2>3, <2>4 DEF OpenWindow, Inv, TypeOK, SlotsTrackWindows
  <2> QED
    BY <2>2, <2>5 DEF Inv
<1>3. ASSUME NEW w \in Windows, DestroyWindow(w)
      PROVE  Inv'
  <2>1. /\ tool[w] \in Slots
        /\ open_windows' \in [Slots -> Windows \union {NULL}]
        /\ \A i \in Slots :
             open_windows'[i] = IF i = tool[w] THEN NULL ELSE open_windows[i]
    BY <1>3, ClearSlotFreesOne DEF DestroyWindow
  <2>2. tool' = [tool EXCEPT ![w] = NULL]
    BY <1>3 DEF DestroyWindow
  <2>3. TypeOK'
    BY <1>3, <2>1, <2>2 DEF DestroyWindow, Inv, TypeOK
  <2>4. SlotsTrackWindows'
    BY <2>1, <2>2, InterfaceAssumption DEF Inv, TypeOK, SlotsTrackWindows
  <2> QED
    BY <2>3, <2>4 DEF Inv
<1>4. ASSUME DestroyMain \/ ExitMain \/ Abort
      PROVE  Inv'
  BY <1>4 DEF DestroyMain, ExitMain, Abort, Inv, TypeOK, SlotsTrackWindows
<1>5. CASE UNCHANGED interfaceVars
  BY <1>5 DEF interfaceVars, Inv, TypeOK, SlotsTrackWindows
<1> QED
  BY <1>1, <1>2, <1>3, <1>4, <1>5 DEF InterfaceNext

\* Every reachable state of the registry is well typed: no slot is written past
\* the end of open_windows.
THEOREM TypeCorrect == InterfaceSpec => []TypeOK
<1>1. Inv => TypeOK
  BY DEF Inv
<1> QED
  BY <1>1, InitEstablishesInv, StepPreservesInv, PTL DEF InterfaceSpec

\* The array and the live windows always agree (destroyWindow and the head of
\* each tool's handler).
THEOREM SlotsAlwaysTrackWindows == InterfaceSpec => []SlotsTrackWindows
<1>1. Inv => SlotsTrackWindows
  BY DEF Inv
<1> QED
  BY <1>1, InitEstablishesInv, StepPreservesInv, PTL DEF InterfaceSpec

\* A click never presents a destroyed window, nor the window of another tool.
THEOREM ClickAlwaysPresentsTool == InterfaceSpec => ClickPresentsTool
<1> DEFINE Presents == \A t \in Tools : PresentWindow(t) => Live(front') /\ tool[front'] = t
<1>1. ASSUME Inv, [InterfaceNext]_interfaceVars
      PROVE  [Presents]_interfaceVars
  <2> SUFFICES ASSUME NEW t \in Tools, PresentWindow(t)
               PROVE  Live(front') /\ tool[front'] = t
    OBVIOUS
  <2>1. t \in Slots /\ t # NULL
    BY InterfaceAssumption
  <2>2. front' = open_windows[t] /\ front' \in Windows
    BY <1>1, <2>1 DEF PresentWindow, Inv, TypeOK
  <2> QED
    BY <1>1, <2>1, <2>2 DEF PresentWindow, Inv, SlotsTrackWindows, Live
<1> QED
  BY <1>1, InitEstablishesInv, StepPreservesInv, PTL DEF InterfaceSpec, ClickPresentsTool

----------------------------------------------------------------------------
(* The scanner implements the window registry.                             *)

LEMMA CrashAborts == loop # "exited" /\ Crash => Abort
  BY DEF Crash, Abort

LEMMA StepImplementsInterface ==
  ASSUME [Next]_vars
  PROVE  [InterfaceNext]_interfaceVars
<1>1. CASE User
  <2>1. CASE PresentPortEye
    BY <2>1, PortEyeAssumption DEF PresentPortEye, InterfaceNext
  <2>2. CASE CloseMain
    BY <2>2 DEF CloseMain, InterfaceNext
  <2>3. ASSUME NEW w \in Windows, OpenPortEye(w)
        PROVE  InterfaceNext
    BY <2>3, PortEyeAssumption DEF OpenPortEye, InterfaceNext
  <2>4. ASSUME NEW w \in Windows, ClosePortEye(w)
        PROVE  InterfaceNext
    BY <2>4 DEF ClosePortEye, InterfaceNext
  <2>5. ASSUME NEW w \in Windows,
               \/ \E a \in TypedAddresses : CheckIp(w, a)
               \/ \E mode \in ManualModes : ChooseMode(w, mode)
               \/ \E port \in Inputs : ScanPort(w, port)
               \/ \E s \in Scans :
                    \/ \E a, b \in Inputs : ScanPortRange(s, w, a, b)
                    \/ \E r \in AutoRanges : AutoScan(s, w, r)
        PROVE  UNCHANGED interfaceVars
    BY <2>5 DEF CheckIp, ChooseMode, ScanPort, ScanPortRange, AutoScan
  <2> QED
    BY <1>1, <2>1, <2>2, <2>3, <2>4, <2>5 DEF User
<1>2. CASE DismissDialog
  BY <1>2 DEF DismissDialog
<1>3. CASE Program
  <2>1. CASE Exit
    BY <2>1 DEF Exit, InterfaceNext
  <2>2. CASE UpdateTextView
    BY <2>2, CrashAborts DEF UpdateTextView, InterfaceNext
  <2>3. ASSUME NEW s \in Scans, StartThread(s) \/ Probe(s) \/ PostReport(s) \/ QueueUpdate(s)
        PROVE  [InterfaceNext]_interfaceVars
    BY <2>3, CrashAborts DEF StartThread, Probe, PostReport, QueueUpdate, InterfaceNext
  <2> QED
    BY <1>3, <2>1, <2>2, <2>3 DEF Program
<1>4. CASE UNCHANGED vars
  BY <1>4 DEF vars
<1> QED
  BY <1>1, <1>2, <1>3, <1>4 DEF Next

\* The detailed specification of the scanner, its undefined steps included,
\* implements the specification of the registry.
THEOREM PortEyeImplementsInterface == Spec => ImplementsInterface
<1>1. Init => InterfaceInit
  BY DEF Init
<1> QED
  BY <1>1, StepImplementsInterface, PTL DEF Spec, ImplementsInterface, InterfaceSpec

----------------------------------------------------------------------------
(* Types                                                                   *)

LEMMA BoundsAscend ==
  ASSUME NEW a \in Ports, NEW b \in Ports
  PROVE  Bounds(a, b)[1] \in Ports /\ Bounds(a, b)[2] \in Ports /\ Bounds(a, b)[1] <= Bounds(a, b)[2]
  BY PortEyeAssumption DEF Bounds, Ports

LEMMA AutoRangesArePorts ==
  ASSUME NEW r \in AutoRanges
  PROVE  r[1] \in Ports /\ r[2] \in Ports
  BY PortEyeAssumption DEF Ports

LEMMA ConnectsIsBoolean ==
  ASSUME NEW p \in Ports
  PROVE  Connects(p) \subseteq BOOLEAN
  BY NetAssumption DEF Connects

\* The entry keeps four octets four octets.
LEMMA EntryTextIsAddress ==
  ASSUME NEW a \in Octets
  PROVE  EntryText(a) \in Octets
<1>1. [a EXCEPT ![4] = @ \div 10] \in Octets
  <2>1. a[4] \in 0 .. 999
    BY DEF Octets
  <2>2. a[4] \div 10 \in 0 .. 999
    BY <2>1
  <2> QED
    BY <2>2 DEF Octets
<1> QED
  BY <1>1 DEF EntryText

\* A step that moves one scan to another phase touches no other field.
LEMMA PhaseTypes ==
  ASSUME scan \in [Scans -> ScanData], NEW s \in Scans, NEW phase \in Phases,
         scan' = [scan EXCEPT ![s].phase = phase]
  PROVE  scan' \in [Scans -> ScanData]
<1>1. [scan[s] EXCEPT !.phase = phase] \in ScanData
  BY DEF ScanData
<1>2. scan' = [scan EXCEPT ![s] = [scan[s] EXCEPT !.phase = phase]]
  OBVIOUS
<1> QED
  BY <1>1, <1>2

LEMMA BeginScanTypes ==
  ASSUME PortTypeOK, NEW s \in Scans, NEW w \in Windows, NEW kind \in ViewPages,
         NEW a \in Ports, NEW b \in Ports, BeginScan(s, w, kind, a, b)
  PROVE  /\ scan' \in [Scans -> ScanData]
         /\ text' \in [Windows -> Texts]
         /\ shown' \in [Windows -> Scans \union {NULL}]
         /\ ui' \in Seq(Scans \union {Dialog})
         /\ impatient' \in BOOLEAN
<1> DEFINE new == [phase |-> "clicked", view |-> w, kind |-> kind, lo |-> Bounds(a, b)[1],
                   hi |-> Bounds(a, b)[2], next |-> Bounds(a, b)[1], found |-> {}, orphan |-> FALSE]
<1>1. new \in ScanData
  BY BoundsAscend, PortEyeAssumption DEF ScanData, Phases, Ports
<1>2. scan' = [scan EXCEPT ![s] = new]
  BY DEF BeginScan
<1> HIDE DEF new
<1>3. scan' \in [Scans -> ScanData]
  BY <1>1, <1>2 DEF PortTypeOK
<1>4. ui' \in Seq(Scans \union {Dialog})
  BY DEF BeginScan, PortTypeOK
<1> QED
  BY <1>3, <1>4 DEF BeginScan, PortTypeOK, Texts

LEMMA InitTypes == Init => PortTypeOK
<1> SUFFICES ASSUME Init PROVE PortTypeOK
  OBVIOUS
<1>1. TypeOK
  BY InitEstablishesInv DEF Init, Inv
<1>2. NoScan \in ScanData
  BY PortEyeAssumption DEF NoScan, ScanData, Phases, Ports, ViewPages
<1>3. scan \in [Scans -> ScanData]
  BY <1>2 DEF Init, PortInit
<1>4. idle \in Seq(Scans) /\ ui \in Seq(Scans \union {Dialog})
  BY DEF Init, PortInit
<1>5. /\ page \in [Windows -> Pages]
      /\ address \in [Windows -> [typed: Octets, used: Octets] \union {NULL}]
      /\ text \in [Windows -> Texts]
      /\ shown \in [Windows -> Scans \union {NULL}]
      /\ slot \in [Windows -> Scans \union {NULL}]
      /\ heap \in [Scans -> {"none", "live", "freed"}]
  BY DEF Init, PortInit, Pages, Texts
<1> QED
  BY <1>1, <1>3, <1>4, <1>5 DEF Init, PortInit, PortTypeOK

LEMMA StepPreservesTypes ==
  ASSUME Inv, PortTypeOK, [Next]_vars
  PROVE  PortTypeOK'
<1>0. TypeOK'
  BY StepImplementsInterface, StepPreservesInv DEF Inv
<1> USE DEF PortTypeOK
<1>1. ASSUME NEW w \in Windows, OpenPortEye(w) \/ ClosePortEye(w)
      PROVE  PortTypeOK'
  <2>1. CASE OpenPortEye(w)
    BY <1>0, <2>1 DEF OpenPortEye, Pages
  <2>2. CASE ClosePortEye(w)
    <3>1. scan' \in [Scans -> ScanData]
      <4>1. \A s \in Scans : [scan[s] EXCEPT !.orphan = TRUE] \in ScanData
        BY DEF ScanData
      <4> QED
        BY <2>2, <4>1 DEF ClosePortEye
    <3> QED
      BY <1>0, <2>2, <3>1 DEF ClosePortEye, Pages, Texts
  <2> QED
    BY <1>1, <2>1, <2>2
<1>2. ASSUME PresentPortEye \/ CloseMain \/ Exit
      PROVE  PortTypeOK'
  BY <1>0, <1>2 DEF PresentPortEye, CloseMain, Exit, portVars
<1>3. ASSUME NEW w \in Windows, NEW a \in TypedAddresses, CheckIp(w, a)
      PROVE  PortTypeOK'
  <2>1. a \in Octets /\ EntryText(a) \in Octets
    BY EntryTextIsAddress, PortEyeAssumption
  <2>2. address' \in [Windows -> [typed: Octets, used: Octets] \union {NULL}]
    BY <1>3, <2>1 DEF CheckIp
  <2>3. ui' \in Seq(Scans \union {Dialog})
    <3>1. <<Dialog>> \o ui \in Seq(Scans \union {Dialog})
      OBVIOUS
    <3> QED
      BY <1>3, <3>1 DEF CheckIp
  <2> QED
    BY <1>0, <1>3, <2>2, <2>3 DEF CheckIp, Pages, interfaceVars
<1>4. ASSUME DismissDialog
      PROVE  PortTypeOK'
  BY <1>0, <1>4 DEF DismissDialog
<1>5. ASSUME NEW w \in Windows, NEW mode \in ManualModes, ChooseMode(w, mode)
      PROVE  PortTypeOK'
  BY <1>0, <1>5 DEF ChooseMode, Pages
<1>6. ASSUME NEW w \in Windows, NEW port \in Inputs, ScanPort(w, port)
      PROVE  PortTypeOK'
  BY <1>0, <1>6 DEF ScanPort, Texts
<1>7. ASSUME NEW w \in Windows, NEW s \in Scans, NEW a \in Inputs, NEW b \in Inputs,
             ScanPortRange(s, w, a, b)
      PROVE  PortTypeOK'
  <2>1. CASE a \in Ports /\ b \in Ports /\ BeginScan(s, w, page[w], a, b)
    <3>1. page[w] \in ViewPages
      BY <1>7 DEF ScanPortRange, ViewPages
    <3> QED
      BY <1>0, <1>7, <2>1, <3>1, BeginScanTypes DEF ScanPortRange
  <2>2. CASE ~ (a \in Ports /\ b \in Ports /\ BeginScan(s, w, page[w], a, b))
    BY <1>0, <1>7, <2>2 DEF ScanPortRange, Texts
  <2> QED
    BY <2>1, <2>2
<1>8. ASSUME NEW w \in Windows, NEW s \in Scans, NEW r \in AutoRanges, AutoScan(s, w, r)
      PROVE  PortTypeOK'
  <2>1. "auto" \in ViewPages
    BY DEF ViewPages
  <2> QED
    BY <1>0, <1>8, <2>1, BeginScanTypes, AutoRangesArePorts DEF AutoScan, Pages
<1>9. ASSUME NEW s \in Scans, StartThread(s)
      PROVE  PortTypeOK'
  <2>1. scan' \in [Scans -> ScanData]
    BY <1>9, PhaseTypes DEF StartThread, Phases
  <2> QED
    BY <1>0, <1>9, <2>1 DEF StartThread, Undefined
<1>10. ASSUME NEW s \in Scans, Probe(s)
       PROVE  PortTypeOK'
  <2>1. scan[s].next \in Ports
    BY <1>10, PortEyeAssumption DEF Probe, MorePorts, ScanData, Ports
  <2>2. \A found \in SUBSET Ports :
          [scan[s] EXCEPT !.next = scan[s].next + 1, !.found = found] \in ScanData
    <3>1. scan[s].next + 1 \in 0 .. MaxPort + 1
      BY <2>1, PortEyeAssumption DEF Ports
    <3> QED
      BY <3>1 DEF ScanData
  <2>3. PICK found \in SUBSET Ports :
          scan' = [scan EXCEPT ![s] = [scan[s] EXCEPT !.next = scan[s].next + 1, !.found = found]]
    BY <1>10, <2>1 DEF Probe, ScanData
  <2>4. scan' \in [Scans -> ScanData]
    BY <2>2, <2>3
  <2> QED
    BY <1>0, <1>10, <2>4 DEF Probe
<1>11. ASSUME NEW s \in Scans, PostReport(s)
       PROVE  PortTypeOK'
  <2>1. scan' \in [Scans -> ScanData]
    BY <1>11, PhaseTypes DEF PostReport, Phases
  <2> QED
    BY <1>0, <1>11, <2>1 DEF PostReport, Undefined
<1>12. ASSUME NEW s \in Scans, QueueUpdate(s)
       PROVE  PortTypeOK'
  <2>1. scan' \in [Scans -> ScanData]
    BY <1>12, PhaseTypes DEF QueueUpdate, Phases
  <2> QED
    BY <1>0, <1>12, <2>1 DEF QueueUpdate
<1>13. ASSUME UpdateTextView
       PROVE  PortTypeOK'
  <2>1. Head(idle) \in Scans /\ idle' \in Seq(Scans)
    BY <1>13 DEF UpdateTextView, Remaining
  <2>2. scan' \in [Scans -> ScanData]
    BY <1>13, <2>1, PhaseTypes DEF UpdateTextView, Phases
  <2>3. /\ text' \in [Windows -> Texts]
        /\ shown' \in [Windows -> Scans \union {NULL}]
        /\ heap' \in [Scans -> {"none", "live", "freed"}]
    <3>1. ASSUME NEW w \in Windows \union {NULL}, Display(w)
          PROVE  /\ text' \in [Windows -> Texts]
                 /\ shown' \in [Windows -> Scans \union {NULL}]
                 /\ heap' \in [Scans -> {"none", "live", "freed"}]
      <4>1. CASE w \in Windows
        BY <3>1, <4>1 DEF Display, Texts
      <4>2. CASE w \notin Windows
        BY <3>1, <4>2 DEF Display
      <4> QED
        BY <4>1, <4>2
    <3> QED
      BY <1>13, <2>1, <3>1 DEF UpdateTextView, ScanData
  <2> QED
    BY <1>0, <1>13, <2>1, <2>2, <2>3 DEF UpdateTextView, Undefined
<1>14. CASE UNCHANGED vars
  BY <1>0, <1>14 DEF vars, portVars
<1> QED
  BY <1>1, <1>2, <1>3, <1>4, <1>5, <1>6, <1>7, <1>8, <1>9, <1>10, <1>11, <1>12, <1>13, <1>14
  DEF Next, User, Program

\* Every reachable state of the scanner is well typed: in particular no probe
\* leaves the ports, and no callback is queued for something else than a scan.
THEOREM PortTypeCorrect == Spec => []PortTypeOK
<1>1. Init => Inv /\ PortTypeOK
  BY InitTypes, InitEstablishesInv DEF Init
<1>2. Inv /\ PortTypeOK /\ [Next]_vars => Inv' /\ PortTypeOK'
  BY StepPreservesTypes, StepImplementsInterface, StepPreservesInv
<1> QED
  BY <1>1, <1>2, PTL DEF Spec

----------------------------------------------------------------------------
(* What is displayed                                                       *)

\* A scan that has begun has an ascending range, has probed it up to next, and
\* has found what it must and nothing it may not.
ProgressOK ==
  \A s \in Scans : scan[s].phase # "free" =>
    /\ scan[s].view \in Windows
    /\ scan[s].lo <= scan[s].next
    /\ scan[s].lo <= scan[s].hi
    /\ scan[s].next <= scan[s].hi + 1
    /\ \A p \in scan[s].lo .. scan[s].next - 1 : Net[p] = "open" => p \in scan[s].found
    /\ \A p \in scan[s].found : p \in scan[s].lo .. scan[s].hi /\ Net[p] \in {"open", "flaky"}
    /\ Reported(s) => scan[s].next = scan[s].hi + 1

\* The string under a key, and the one on display, are those of a scan that has
\* gone through its range.
ReportsOK ==
  \A w \in Windows :
    /\ slot[w] # NULL => Reported(slot[w])
    /\ text[w] = "report" => shown[w] \in Scans /\ Reported(shown[w])

\* One callback is queued for each scan in phase "queued", and no other.
IdleOK ==
  /\ \A i \in 1 .. Len(idle) : scan[idle[i]].phase = "queued"
  /\ \A i, j \in 1 .. Len(idle) : idle[i] = idle[j] => i = j

\* A scan whose view exists has put a string under its key, its own or a later
\* one, by the time its callback runs.
BusyOK ==
  /\ BusyMeansInFlight
  /\ \A s \in Scans :
       scan[s].phase \in {"posted", "queued"} /\ ~ scan[s].orphan => slot[scan[s].view] # NULL

\* While no scan has shared or lost its view: no undefined step, one scan in
\* flight on a view, its report allocated, under the view's key, then freed.
PatientOK ==
  ~ impatient =>
    /\ fault = "none"
    /\ PatientMemory
    /\ \A s \in Scans : InFlight(s) => ~ scan[s].orphan
    /\ \A r, s \in Scans : InFlight(r) /\ InFlight(s) /\ scan[r].view = scan[s].view => r = s

PortInv ==
  /\ Inv
  /\ PortTypeOK
  /\ IdleOK
  /\ ProgressOK
  /\ ReportsOK
  /\ BusyOK
  /\ PatientOK

----------------------------------------------------------------------------
(* Steps, by what they do to the scans                                     *)

\* Nothing happens to a scan, its string or its callback, and no view comes to
\* show a report or that one is on its way.
QuietStep ==
  /\ UNCHANGED <<slot, heap, scan, idle, impatient, fault>>
  /\ \A w \in Windows :
       text'[w] \in {"busy", "report"} => text'[w] = text[w] /\ shown'[w] = shown[w]
  /\ loop = "exited" => loop' = "exited"

BeginStep(s, w, kind, a, b) ==
  /\ BeginScan(s, w, kind, a, b)
  /\ UNCHANGED <<slot, heap, idle, fault, loop>>

LEMMA StepCases ==
  ASSUME PortTypeOK, [Next]_vars
  PROVE  \/ QuietStep
         \/ \E w \in Windows : ClosePortEye(w)
         \/ \E s \in Scans, w \in Windows, kind \in ViewPages, a, b \in Ports :
              BeginStep(s, w, kind, a, b)
         \/ \E s \in Scans : StartThread(s) \/ Probe(s) \/ PostReport(s) \/ QueueUpdate(s)
         \/ UpdateTextView
<1>1. CASE PresentPortEye \/ CloseMain \/ Exit \/ DismissDialog \/ UNCHANGED vars
  BY <1>1 DEF PresentPortEye, PresentWindow, CloseMain, DestroyMain, Exit, ExitMain,
              DismissDialog, QuietStep, vars, portVars, interfaceVars
<1>2. ASSUME NEW w \in Windows,
             \/ OpenPortEye(w)
             \/ \E a \in TypedAddresses : CheckIp(w, a)
             \/ \E mode \in ManualModes : ChooseMode(w, mode)
      PROVE  QuietStep
  BY <1>2 DEF OpenPortEye, OpenWindow, CheckIp, ChooseMode, QuietStep, interfaceVars
<1>3. ASSUME NEW w \in Windows, NEW port \in Inputs, ScanPort(w, port)
      PROVE  QuietStep
  BY <1>3 DEF ScanPort, QuietStep, interfaceVars, PortTypeOK
<1>4. ASSUME NEW w \in Windows, NEW s \in Scans, NEW a \in Inputs, NEW b \in Inputs,
             ScanPortRange(s, w, a, b)
      PROVE  \/ QuietStep
             \/ /\ a \in Ports /\ b \in Ports
                /\ page[w] \in ViewPages
                /\ BeginStep(s, w, page[w], a, b)
  <2>1. page[w] \in ViewPages
    BY <1>4 DEF ScanPortRange, ViewPages
  <2>2. CASE a \in Ports /\ b \in Ports
    BY <1>4, <2>1, <2>2 DEF ScanPortRange, BeginStep, interfaceVars
  <2>3. CASE ~ (a \in Ports /\ b \in Ports)
    <3>1. /\ text' = [text EXCEPT ![w] = "invalid"]
          /\ shown' = [shown EXCEPT ![w] = NULL]
          /\ UNCHANGED <<slot, heap, scan, idle, impatient, fault, loop>>
      BY <1>4, <2>3 DEF ScanPortRange, interfaceVars
    <3>2. \A v \in Windows :
            text'[v] \in {"busy", "report"} => text'[v] = text[v] /\ shown'[v] = shown[v]
      BY <3>1 DEF PortTypeOK
    <3>3. QuietStep
      BY <3>1, <3>2 DEF QuietStep
    <3> QED
      BY <3>3
  <2> QED
    BY <2>2, <2>3
<1>5. ASSUME NEW w \in Windows, NEW s \in Scans, NEW r \in AutoRanges, AutoScan(s, w, r)
      PROVE  r[1] \in Ports /\ r[2] \in Ports /\ BeginStep(s, w, "auto", r[1], r[2])
  BY <1>5, AutoRangesArePorts DEF AutoScan, BeginStep, interfaceVars
<1>6. "auto" \in ViewPages
  BY DEF ViewPages
<1> QED
  BY <1>1, <1>2, <1>3, <1>4, <1>5, <1>6 DEF Next, User, Program

LEMMA ScanNumbers ==
  ASSUME PortTypeOK, NEW s \in Scans
  PROVE  scan[s].lo \in Nat /\ scan[s].hi \in Nat /\ scan[s].next \in Nat
<1>1. scan[s] \in ScanData
  BY DEF PortTypeOK
<1>2. scan[s].lo \in Ports /\ scan[s].hi \in Ports /\ scan[s].next \in 0 .. MaxPort + 1
  BY <1>1 DEF ScanData
<1> QED
  BY <1>2, PortEyeAssumption DEF Ports

\* What moving one scan to another phase does to the scans.
LEMMA PhaseChange ==
  ASSUME PortTypeOK, NEW s \in Scans, NEW phase,
         scan' = [scan EXCEPT ![s].phase = phase]
  PROVE  /\ scan'[s].phase = phase
         /\ \A r \in Scans :
              /\ r # s => scan'[r].phase = scan[r].phase
              /\ scan'[r].view = scan[r].view
              /\ scan'[r].lo = scan[r].lo
              /\ scan'[r].hi = scan[r].hi
              /\ scan'[r].next = scan[r].next
              /\ scan'[r].found = scan[r].found
              /\ scan'[r].orphan = scan[r].orphan
  BY DEF PortTypeOK, ScanData

\* What beginning one does.
LEMMA BeginChange ==
  ASSUME PortTypeOK, NEW s \in Scans, NEW w, NEW kind, NEW a, NEW b, BeginScan(s, w, kind, a, b)
  PROVE  /\ scan[s].phase = "free"
         /\ scan'[s].phase = "clicked"
         /\ scan'[s].view = w
         /\ scan'[s].lo = Bounds(a, b)[1]
         /\ scan'[s].hi = Bounds(a, b)[2]
         /\ scan'[s].next = Bounds(a, b)[1]
         /\ scan'[s].found = {}
         /\ ~ scan'[s].orphan
         /\ \A r \in Scans \ {s} : scan'[r] = scan[r]
  BY DEF BeginScan, PortTypeOK

\* What closing a window does.
LEMMA CloseChange ==
  ASSUME PortTypeOK, NEW w \in Windows, ClosePortEye(w)
  PROVE  \A r \in Scans :
           /\ scan'[r].phase = scan[r].phase
           /\ scan'[r].view = scan[r].view
           /\ scan'[r].lo = scan[r].lo
           /\ scan'[r].hi = scan[r].hi
           /\ scan'[r].next = scan[r].next
           /\ scan'[r].found = scan[r].found
           /\ scan'[r].orphan <=> scan[r].orphan \/ (scan[r].view = w /\ InFlight(r))
<1> SUFFICES ASSUME NEW r \in Scans
             PROVE  /\ scan'[r].phase = scan[r].phase
                    /\ scan'[r].view = scan[r].view
                    /\ scan'[r].lo = scan[r].lo
                    /\ scan'[r].hi = scan[r].hi
                    /\ scan'[r].next = scan[r].next
                    /\ scan'[r].found = scan[r].found
                    /\ scan'[r].orphan <=> scan[r].orphan \/ (scan[r].view = w /\ InFlight(r))
  OBVIOUS
<1>1. scan[r] \in ScanData
  BY DEF PortTypeOK
<1>2. scan'[r] = IF scan[r].view = w /\ InFlight(r)
                 THEN [scan[r] EXCEPT !.orphan = TRUE] ELSE scan[r]
  BY DEF ClosePortEye
<1>3. CASE scan[r].view = w /\ InFlight(r)
  BY <1>1, <1>2, <1>3 DEF ScanData
<1>4. CASE ~ (scan[r].view = w /\ InFlight(r))
  <2>1. scan'[r] = scan[r]
    BY <1>2, <1>4
  <2> QED
    BY <1>4, <2>1 DEF InFlight
<1> QED
  BY <1>3, <1>4

\* What probing one port does.
LEMMA ProbeChange ==
  ASSUME PortTypeOK, NEW s \in Scans, Probe(s)
  PROVE  /\ scan[s].next \in Ports
         /\ \A r \in Scans :
              /\ scan'[r].phase = scan[r].phase
              /\ scan'[r].view = scan[r].view
              /\ scan'[r].lo = scan[r].lo
              /\ scan'[r].hi = scan[r].hi
              /\ scan'[r].orphan = scan[r].orphan
              /\ r # s => scan'[r].next = scan[r].next /\ scan'[r].found = scan[r].found
         /\ scan'[s].next = scan[s].next + 1
         /\ \E ok \in Connects(scan[s].next) :
              scan'[s].found = IF ok THEN scan[s].found \union {scan[s].next}
                               ELSE scan[s].found
<1>1. scan[s].next \in Ports
  BY PortEyeAssumption DEF Probe, MorePorts, PortTypeOK, ScanData, Ports
<1>2. PICK ok \in Connects(scan[s].next) :
        scan' = [scan EXCEPT ![s].next = scan[s].next + 1,
                             ![s].found = IF ok THEN @ \union {scan[s].next} ELSE @]
  BY DEF Probe
<1> QED
  BY <1>1, <1>2 DEF PortTypeOK, ScanData

----------------------------------------------------------------------------
(* Each part of the invariant is kept                                      *)

\* The callbacks in the queue are those of the scans in phase "queued".
LEMMA StepPreservesIdle ==
  ASSUME PortTypeOK, IdleOK, [Next]_vars
  PROVE  IdleOK'
<1> USE DEF IdleOK
<1>0. idle \in Seq(Scans) /\ \A i \in 1 .. Len(idle) : idle[i] \in Scans
  BY DEF PortTypeOK
<1>1. CASE QuietStep
  BY <1>1 DEF QuietStep
<1>2. ASSUME NEW w \in Windows, ClosePortEye(w)
      PROVE  IdleOK'
  BY <1>0, <1>2, CloseChange DEF ClosePortEye
<1>3. ASSUME NEW s \in Scans, NEW w \in Windows, NEW kind \in ViewPages,
             NEW a \in Ports, NEW b \in Ports, BeginStep(s, w, kind, a, b)
      PROVE  IdleOK'
  BY <1>0, <1>3, BeginChange DEF BeginStep
<1>4. ASSUME NEW s \in Scans, StartThread(s) \/ PostReport(s)
      PROVE  IdleOK'
  <2>1. scan[s].phase # "queued" /\ UNCHANGED idle
    BY <1>4 DEF StartThread, PostReport
  <2>2. PICK phase : scan' = [scan EXCEPT ![s].phase = phase]
    BY <1>4 DEF StartThread, PostReport
  <2>3. \A r \in Scans : r # s => scan'[r].phase = scan[r].phase
    BY <2>2, PhaseChange
  <2> QED
    BY <1>0, <2>1, <2>3
<1>5. ASSUME NEW s \in Scans, Probe(s)
      PROVE  IdleOK'
  BY <1>0, <1>5, ProbeChange DEF Probe
<1>6. ASSUME NEW s \in Scans, QueueUpdate(s)
      PROVE  IdleOK'
  <2>1. scan'[s].phase = "queued" /\ \A r \in Scans : r # s => scan'[r].phase = scan[r].phase
    <3>1. scan' = [scan EXCEPT ![s].phase = "queued"]
      BY <1>6 DEF QueueUpdate
    <3> QED
      BY <3>1, PhaseChange
  <2>2. \A i \in 1 .. Len(idle) : idle[i] # s
    BY <1>6 DEF QueueUpdate
  <2>3. /\ Len(idle') = Len(idle) + 1
        /\ \A i \in 1 .. Len(idle) : idle'[i] = idle[i]
        /\ idle'[Len(idle) + 1] = s
    BY <1>0, <1>6 DEF QueueUpdate
  <2> QED
    BY <1>0, <2>1, <2>2, <2>3
<1>7. ASSUME UpdateTextView
      PROVE  IdleOK'
  <2>1. /\ idle # <<>>
        /\ Len(idle) \in Nat \ {0}
        /\ Len(idle') = Len(idle) - 1
        /\ \A i \in 1 .. Len(idle') : idle'[i] = idle[i + 1]
    BY <1>0, <1>7 DEF UpdateTextView, Remaining
  <2>2. \A r \in Scans : r # idle[1] => scan'[r].phase = scan[r].phase
    <3>1. idle[1] \in Scans /\ scan' = [scan EXCEPT ![idle[1]].phase = "done"]
      BY <1>0, <1>7, <2>1 DEF UpdateTextView
    <3> QED
      BY <3>1, PhaseChange
  <2>3. \A i \in 1 .. Len(idle') : i + 1 \in 1 .. Len(idle) /\ i + 1 # 1
    BY <2>1
  <2>4. \A i \in 1 .. Len(idle') : idle'[i] \in Scans /\ idle'[i] # idle[1]
    BY <1>0, <2>1, <2>3
  <2> QED
    BY <2>1, <2>2, <2>3, <2>4
<1> QED
  BY StepCases, <1>1, <1>2, <1>3, <1>4, <1>5, <1>6, <1>7

\* The callback that runs is that of a scan in phase "queued".
LEMMA HeadIsQueued ==
  ASSUME PortTypeOK, IdleOK, UpdateTextView
  PROVE  Head(idle) \in Scans /\ scan[Head(idle)].phase = "queued"
<1>1. idle \in Seq(Scans) /\ idle # <<>>
  BY DEF PortTypeOK, UpdateTextView
<1>2. Head(idle) = idle[1] /\ 1 \in 1 .. Len(idle) /\ Head(idle) \in Scans
  BY <1>1
<1> QED
  BY <1>2 DEF IdleOK

\* A thread goes through its range port by port, to the end of it.
LEMMA StepPreservesProgress ==
  ASSUME PortTypeOK, IdleOK, ProgressOK, [Next]_vars
  PROVE  ProgressOK'
<1> USE DEF ProgressOK, Reported
<1>1. CASE QuietStep
  BY <1>1 DEF QuietStep
<1>2. ASSUME NEW w \in Windows, ClosePortEye(w)
      PROVE  ProgressOK'
  BY <1>2, CloseChange
<1>3. ASSUME NEW s \in Scans, NEW w \in Windows, NEW kind \in ViewPages,
             NEW a \in Ports, NEW b \in Ports, BeginStep(s, w, kind, a, b)
      PROVE  ProgressOK'
  <2>1. Bounds(a, b)[1] \in Nat /\ Bounds(a, b)[2] \in Nat /\ Bounds(a, b)[1] <= Bounds(a, b)[2]
    BY BoundsAscend, PortEyeAssumption DEF Ports
  <2>2. BeginScan(s, w, kind, a, b)
    BY <1>3 DEF BeginStep
  <2> QED
    BY <2>1, <2>2, BeginChange
<1>4. ASSUME NEW s \in Scans, StartThread(s)
      PROVE  ProgressOK'
  BY <1>4, PhaseChange DEF StartThread
<1>5. ASSUME NEW s \in Scans, PostReport(s)
      PROVE  ProgressOK'
  <2>1. scan[s].next = scan[s].hi + 1
    BY <1>5, ScanNumbers DEF PostReport, MorePorts
  <2> QED
    BY <1>5, <2>1, PhaseChange DEF PostReport
<1>6. ASSUME NEW s \in Scans, QueueUpdate(s)
      PROVE  ProgressOK'
  BY <1>6, PhaseChange DEF QueueUpdate
<1>7. ASSUME UpdateTextView
      PROVE  ProgressOK'
  BY <1>7, HeadIsQueued, PhaseChange DEF UpdateTextView
<1>8. ASSUME NEW s \in Scans, Probe(s)
      PROVE  ProgressOK'
  <2> DEFINE p == scan[s].next
  <2>1. /\ scan[s].phase = "running"
        /\ p <= scan[s].hi
        /\ p \in Ports /\ p \in Nat
        /\ scan[s].lo \in Nat /\ scan[s].hi \in Nat
    BY <1>8, ProbeChange, ScanNumbers DEF Probe, MorePorts
  <2>2. PICK ok \in Connects(p) :
          scan'[s].found = IF ok THEN scan[s].found \union {p} ELSE scan[s].found
    BY <1>8, ProbeChange
  <2>3. /\ Net[p] = "open" => p \in scan'[s].found
        /\ \A q \in scan'[s].found :
             q \in scan[s].found \/ (q = p /\ Net[p] \in {"open", "flaky"})
        /\ scan[s].found \subseteq scan'[s].found
    BY <2>1, <2>2, NetAssumption DEF Connects
  <2>4. \A r \in Scans \ {s} :
          /\ scan'[r].phase = scan[r].phase /\ scan'[r].view = scan[r].view
          /\ scan'[r].lo = scan[r].lo /\ scan'[r].hi = scan[r].hi
          /\ scan'[r].next = scan[r].next /\ scan'[r].found = scan[r].found
    BY <1>8, ProbeChange
  <2>5. /\ scan'[s].phase = "running" /\ scan'[s].view = scan[s].view
        /\ scan'[s].lo = scan[s].lo /\ scan'[s].hi = scan[s].hi
        /\ scan'[s].next = p + 1
    BY <1>8, <2>1, ProbeChange
  <2>6. \A q \in scan[s].lo .. p : Net[q] = "open" => q \in scan'[s].found
    BY <2>1, <2>3
  <2>7. \A q \in scan'[s].found : q \in scan[s].lo .. scan[s].hi /\ Net[q] \in {"open", "flaky"}
    BY <2>1, <2>3
  <2> QED
    BY <2>1, <2>4, <2>5, <2>6, <2>7
<1> QED
  BY StepCases, <1>1, <1>2, <1>3, <1>4, <1>5, <1>6, <1>7, <1>8

LEMMA ReportedIsStable ==
  ASSUME PortTypeOK, IdleOK, [Next]_vars, NEW s \in Scans, Reported(s)
  PROVE  Reported(s)'
<1> USE DEF Reported
<1>1. CASE QuietStep
  BY <1>1 DEF QuietStep
<1>2. ASSUME NEW w \in Windows, ClosePortEye(w)
      PROVE  Reported(s)'
  BY <1>2, CloseChange
<1>3. ASSUME NEW r \in Scans, NEW w \in Windows, NEW kind \in ViewPages,
             NEW a \in Ports, NEW b \in Ports, BeginStep(r, w, kind, a, b)
      PROVE  Reported(s)'
  BY <1>3, BeginChange DEF BeginStep
<1>4. ASSUME NEW r \in Scans, StartThread(r)
      PROVE  Reported(s)'
  BY <1>4, PhaseChange DEF StartThread
<1>5. ASSUME NEW r \in Scans, PostReport(r)
      PROVE  Reported(s)'
  BY <1>5, PhaseChange DEF PostReport
<1>6. ASSUME NEW r \in Scans, QueueUpdate(r)
      PROVE  Reported(s)'
  BY <1>6, PhaseChange DEF QueueUpdate
<1>7. ASSUME NEW r \in Scans, Probe(r)
      PROVE  Reported(s)'
  BY <1>7, ProbeChange
<1>8. ASSUME UpdateTextView
      PROVE  Reported(s)'
  BY <1>8, HeadIsQueued, PhaseChange DEF UpdateTextView
<1> QED
  BY StepCases, <1>1, <1>2, <1>3, <1>4, <1>5, <1>6, <1>7, <1>8

\* Only finished reports get under a key or on display.
LEMMA StepPreservesReports ==
  ASSUME PortTypeOK, IdleOK, ReportsOK, [Next]_vars
  PROVE  ReportsOK'
<1> DEFINE SlotOK(w) == slot[w] # NULL => Reported(slot[w])
           TextOK(w) == text[w] = "report" => shown[w] \in Scans /\ Reported(shown[w])
<1> SUFFICES ASSUME NEW w \in Windows
             PROVE  SlotOK(w)' /\ TextOK(w)'
  BY DEF ReportsOK
<1>0. /\ SlotOK(w) /\ TextOK(w)
      /\ slot[w] \in Scans \union {NULL} /\ NULL \notin Scans
      /\ \A s \in Scans : Reported(s) => Reported(s)'
  BY ReportedIsStable, PortEyeAssumption DEF ReportsOK, PortTypeOK
<1>1. ASSUME slot'[w] = slot[w]
      PROVE  SlotOK(w)'
  BY <1>0, <1>1 DEF Reported
<1>2. ASSUME text'[w] = "report" => text[w] = "report" /\ shown'[w] = shown[w]
      PROVE  TextOK(w)'
  BY <1>0, <1>2 DEF Reported
<1> HIDE DEF SlotOK, TextOK
<1>3. CASE QuietStep
  BY <1>1, <1>2, <1>3 DEF QuietStep
<1>4. ASSUME NEW v \in Windows, ClosePortEye(v)
      PROVE  SlotOK(w)' /\ TextOK(w)'
  <2>1. slot'[w] = slot[w] \/ slot'[w] = NULL
    BY <1>4 DEF ClosePortEye, PortTypeOK
  <2>2. text'[w] = "report" => text[w] = "report" /\ shown'[w] = shown[w]
    BY <1>4 DEF ClosePortEye, PortTypeOK
  <2> QED
    BY <1>1, <1>2, <2>1, <2>2 DEF SlotOK
<1>5. ASSUME NEW s \in Scans, NEW v \in Windows, NEW kind \in ViewPages,
             NEW a \in Ports, NEW b \in Ports, BeginStep(s, v, kind, a, b)
      PROVE  SlotOK(w)' /\ TextOK(w)'
  <2>1. text'[w] = "report" => text[w] = "report" /\ shown'[w] = shown[w]
    BY <1>5 DEF BeginStep, BeginScan, PortTypeOK
  <2> QED
    BY <1>1, <1>2, <1>5, <2>1 DEF BeginStep
<1>6. ASSUME NEW s \in Scans, StartThread(s) \/ Probe(s) \/ QueueUpdate(s)
      PROVE  SlotOK(w)' /\ TextOK(w)'
  BY <1>1, <1>2, <1>6 DEF StartThread, Probe, QueueUpdate
<1>7. ASSUME NEW s \in Scans, PostReport(s)
      PROVE  SlotOK(w)' /\ TextOK(w)'
  <2>1. slot'[w] = slot[w] \/ slot'[w] = s
    BY <1>7 DEF PostReport, PortTypeOK
  <2>2. Reported(s)'
    BY <1>7, PhaseChange DEF PostReport, Reported
  <2>3. SlotOK(w)'
    BY <1>1, <2>1, <2>2 DEF SlotOK, Reported
  <2> QED
    BY <1>2, <1>7, <2>3 DEF PostReport
<1>8. ASSUME UpdateTextView
      PROVE  SlotOK(w)' /\ TextOK(w)'
  <2>1. \/ text'[w] = "report" => text[w] = "report" /\ shown'[w] = shown[w]
        \/ slot[w] # NULL /\ shown'[w] = slot[w]
    <3>1. ASSUME NEW v, Display(v)
          PROVE  \/ text'[w] = "report" => text[w] = "report" /\ shown'[w] = shown[w]
                 \/ slot[w] # NULL /\ shown'[w] = slot[w]
      BY <3>1 DEF Display, PortTypeOK
    <3> QED
      BY <1>8, <3>1 DEF UpdateTextView
  <2>2. CASE slot[w] # NULL /\ shown'[w] = slot[w]
    <3>1. slot[w] \in Scans /\ Reported(slot[w])
      BY <1>0, <2>2 DEF SlotOK
    <3>2. scan'[slot[w]].phase \in {"posted", "queued", "done"}
      BY <1>0, <3>1 DEF Reported
    <3>3. TextOK(w)'
      BY <2>2, <3>1, <3>2 DEF TextOK, Reported
    <3> QED
      BY <1>1, <1>8, <3>3 DEF UpdateTextView
  <2> QED
    BY <1>1, <1>2, <1>8, <2>1, <2>2 DEF UpdateTextView
<1> QED
  BY StepCases, <1>3, <1>4, <1>5, <1>6, <1>7, <1>8

\* A view that shows "Scan en cours..." waits for a scan that has not answered:
\* an answer replaces the words on the view, whoever wrote them.
LEMMA StepPreservesBusy ==
  ASSUME PortTypeOK, IdleOK, ProgressOK, BusyOK, [Next]_vars
  PROVE  BusyOK'
<1> DEFINE Waits(w, s) == scan[s].view = w /\ InFlight(s) /\ ~ scan[s].orphan
           Keyed(s) == scan[s].phase \in {"posted", "queued"} /\ ~ scan[s].orphan
                         => slot[scan[s].view] # NULL
<1>0. /\ loop # "exited" => \A w \in Windows : text[w] = "busy" => \E s \in Scans : Waits(w, s)
      /\ \A s \in Scans : Keyed(s)
  BY DEF BusyOK, BusyMeansInFlight
<1> SUFFICES /\ loop' # "exited" =>
                  \A w \in Windows : (text[w] = "busy")' => \E s \in Scans : Waits(w, s)'
             /\ \A s \in Scans : Keyed(s)'
  BY DEF BusyOK, BusyMeansInFlight
<1>1. CASE QuietStep
  BY <1>0, <1>1 DEF QuietStep, InFlight
<1>2. ASSUME NEW v \in Windows, ClosePortEye(v)
      PROVE  /\ \A w \in Windows : (text[w] = "busy")' => \E s \in Scans : Waits(w, s)'
             /\ \A s \in Scans : Keyed(s)'
  <2>1. /\ loop # "exited"
        /\ text' = [text EXCEPT ![v] = "blank"]
        /\ slot' = [slot EXCEPT ![v] = NULL]
    BY <1>2 DEF ClosePortEye, InputAllowed
  <2>2. \A w \in Windows, s \in Scans : w # v /\ Waits(w, s) => Waits(w, s)'
    BY <1>2, CloseChange DEF InFlight
  <2>3. \A w \in Windows : (text[w] = "busy")' => w # v /\ text[w] = "busy"
    BY <2>1 DEF PortTypeOK
  <2>4. ASSUME NEW s \in Scans
        PROVE  Keyed(s)'
    BY <1>0, <1>2, <2>1, CloseChange DEF InFlight, PortTypeOK
  <2> QED
    BY <1>0, <2>1, <2>2, <2>3, <2>4
<1>3. ASSUME NEW r \in Scans, NEW v \in Windows, NEW kind \in ViewPages,
             NEW a \in Ports, NEW b \in Ports, BeginStep(r, v, kind, a, b)
      PROVE  /\ loop' # "exited" =>
                  \A w \in Windows : (text[w] = "busy")' => \E s \in Scans : Waits(w, s)'
             /\ \A s \in Scans : Keyed(s)'
  <2>1. /\ UNCHANGED <<slot, loop>>
        /\ text' = [text EXCEPT ![v] = "busy"]
        /\ BeginScan(r, v, kind, a, b)
    BY <1>3 DEF BeginStep, BeginScan
  <2>2. Waits(v, r)'
    BY <2>1, BeginChange DEF InFlight
  <2>3. \A w \in Windows, s \in Scans : Waits(w, s) => Waits(w, s)'
    BY <2>1, BeginChange DEF InFlight
  <2>4. \A w \in Windows : w # v /\ (text[w] = "busy")' => text[w] = "busy"
    BY <2>1 DEF PortTypeOK
  <2>5. \A s \in Scans : Keyed(s)'
    BY <1>0, <2>1, BeginChange
  <2> QED
    BY <1>0, <2>1, <2>2, <2>3, <2>4, <2>5
<1>4. ASSUME NEW r \in Scans, StartThread(r) \/ Probe(r) \/ PostReport(r) \/ QueueUpdate(r)
      PROVE  /\ \A w \in Windows : (text[w] = "busy")' => \E s \in Scans : Waits(w, s)'
             /\ \A s \in Scans : Keyed(s)'
  <2>1. loop # "exited" /\ text' = text
    BY <1>4 DEF StartThread, Probe, PostReport, QueueUpdate
  <2>2. \A w \in Windows, s \in Scans : Waits(w, s) => Waits(w, s)'
    <3>1. CASE Probe(r)
      BY <3>1, ProbeChange DEF InFlight
    <3>2. CASE StartThread(r) \/ PostReport(r) \/ QueueUpdate(r)
      <4>1. PICK phase \in {"running", "posted", "queued"} : scan' = [scan EXCEPT ![r].phase = phase]
        BY <3>2 DEF StartThread, PostReport, QueueUpdate
      <4> QED
        BY <4>1, PhaseChange DEF InFlight
    <3> QED
      BY <1>4, <3>1, <3>2
  <2>3. CASE StartThread(r) \/ Probe(r) \/ QueueUpdate(r)
    <3>1. ASSUME Probe(r)
          PROVE  \A s \in Scans : Keyed(s)'
      BY <1>0, <3>1, ProbeChange DEF Probe
    <3>2. ASSUME StartThread(r)
          PROVE  \A s \in Scans : Keyed(s)'
      BY <1>0, <3>2, PhaseChange DEF StartThread
    <3>3. ASSUME QueueUpdate(r)
          PROVE  \A s \in Scans : Keyed(s)'
      BY <1>0, <3>3, PhaseChange DEF QueueUpdate
    <3>4. \A s \in Scans : Keyed(s)'
      BY <2>3, <3>1, <3>2, <3>3
    <3> QED
      BY <1>0, <2>1, <2>2, <3>4
  <2>4. CASE PostReport(r)
    <3>1. scan[r].view \in Windows
      BY <2>4 DEF PostReport, ProgressOK
    <3>2. \A w \in Windows : slot[w] # NULL => slot'[w] # NULL
      BY <2>4, PortEyeAssumption DEF PostReport, PortTypeOK
    <3>3. ~ scan[r].orphan => slot'[scan[r].view] # NULL
      BY <2>4, <3>1, PortEyeAssumption DEF PostReport, PortTypeOK
    <3>4. \A s \in Scans : Keyed(s)'
      BY <1>0, <2>4, <3>2, <3>3, PhaseChange DEF PostReport, ProgressOK
    <3> QED
      BY <1>0, <2>1, <2>2, <3>4
  <2> QED
    BY <1>0, <1>4, <2>1, <2>2, <2>3, <2>4
<1>5. ASSUME UpdateTextView, loop' # "exited"
      PROVE  \A w \in Windows : (text[w] = "busy")' => \E s \in Scans : Waits(w, s)'
  <2> DEFINE r == Head(idle)
  <2>1. loop # "exited" /\ r \in Scans /\ scan[r].phase = "queued" /\ scan[r].view \in Windows
    BY <1>5, HeadIsQueued DEF UpdateTextView, ProgressOK
  <2>2. \A w \in Windows, s \in Scans : s # r /\ Waits(w, s) => Waits(w, s)'
    BY <1>5, <2>1, PhaseChange DEF UpdateTextView, InFlight
  <2>3. \A w \in Windows : (text[w] = "busy")' => text[w] = "busy"
    BY <1>5 DEF UpdateTextView, Display, PortTypeOK
  <2>4. ~ scan[r].orphan => text'[scan[r].view] # "busy"
    <3>1. ~ scan[r].orphan => slot[scan[r].view] # NULL /\ Display(scan[r].view)
      BY <1>0, <1>5, <2>1 DEF UpdateTextView, Crash
    <3> QED
      BY <2>1, <3>1 DEF Display, PortTypeOK
  <2> QED
    BY <1>0, <2>1, <2>2, <2>3, <2>4
<1>6. ASSUME UpdateTextView, NEW s \in Scans
      PROVE  Keyed(s)'
  BY <1>0, <1>6, HeadIsQueued, PhaseChange DEF UpdateTextView
<1> QED
  BY StepCases, <1>1, <1>2, <1>3, <1>4, <1>5, <1>6

\* Without a scan that shares or loses its view, each string goes its way alone:
\* allocated, put under the key of its view, displayed, freed.
LEMMA StepPreservesPatience ==
  ASSUME PortTypeOK, IdleOK, ProgressOK, PatientOK, [Next]_vars
  PROVE  PatientOK'
<1> DEFINE Memory(s) == /\ heap[s] = "live" <=> scan[s].phase \in {"posted", "queued"}
                        /\ heap[s] = "live" => slot[scan[s].view] = s
                        /\ heap[s] = "freed" <=> scan[s].phase = "done"
           Alone(s) == /\ InFlight(s) => ~ scan[s].orphan
                       /\ \A r \in Scans :
                            InFlight(r) /\ InFlight(s) /\ scan[r].view = scan[s].view => r = s
<1> SUFFICES ASSUME ~ impatient'
             PROVE  /\ fault' = "none"
                    /\ \A s \in Scans : Memory(s)' /\ Alone(s)'
  BY DEF PatientOK, PatientMemory
<1>0. ASSUME ~ impatient
      PROVE  /\ fault = "none"
             /\ \A s \in Scans : Memory(s) /\ Alone(s)
  BY <1>0 DEF PatientOK, PatientMemory
<1>1. CASE QuietStep
  BY <1>0, <1>1 DEF QuietStep, InFlight
<1>2. ASSUME NEW w \in Windows, ClosePortEye(w)
      PROVE  /\ fault' = "none"
             /\ \A s \in Scans : Memory(s)' /\ Alone(s)'
  <2>1. /\ ~ impatient
        /\ \A s \in Scans : InFlight(s) => scan[s].view # w
        /\ UNCHANGED <<heap, fault>>
        /\ slot' = [slot EXCEPT ![w] = NULL]
    BY <1>2 DEF ClosePortEye
  <2>2. \A s \in Scans : Memory(s)'
    BY <1>0, <1>2, <2>1, CloseChange DEF InFlight, PortTypeOK
  <2>3. \A s \in Scans : Alone(s)'
    BY <1>0, <1>2, <2>1, CloseChange DEF InFlight
  <2> QED
    BY <1>0, <2>1, <2>2, <2>3
<1>3. ASSUME NEW r \in Scans, NEW w \in Windows, NEW kind \in ViewPages,
             NEW a \in Ports, NEW b \in Ports, BeginStep(r, w, kind, a, b)
      PROVE  /\ fault' = "none"
             /\ \A s \in Scans : Memory(s)' /\ Alone(s)'
  <2>1. /\ BeginScan(r, w, kind, a, b)
        /\ UNCHANGED <<slot, heap, fault>>
        /\ ~ impatient
        /\ \A s \in Scans : InFlight(s) => scan[s].view # w
    BY <1>3 DEF BeginStep, BeginScan
  <2>2. \A s \in Scans : Memory(s)'
    BY <1>0, <2>1, BeginChange
  <2>3. \A s \in Scans : Alone(s)'
    BY <1>0, <2>1, BeginChange DEF InFlight
  <2> QED
    BY <1>0, <2>1, <2>2, <2>3
<1>4. ASSUME NEW r \in Scans, NEW phase \in {"running", "posted", "queued", "done"},
             InFlight(r), scan' = [scan EXCEPT ![r].phase = phase], ~ impatient
      PROVE  \A s \in Scans : Alone(s)'
  BY <1>0, <1>4, PhaseChange DEF InFlight
<1>5. ASSUME NEW r \in Scans, StartThread(r)
      PROVE  /\ fault' = "none"
             /\ \A s \in Scans : Memory(s)' /\ Alone(s)'
  <2>1. ~ impatient /\ InFlight(r)
    BY <1>5 DEF StartThread, InFlight
  <2>2. UNCHANGED <<slot, heap, fault>>
    BY <1>0, <1>5, <2>1 DEF StartThread
  <2>3. \A s \in Scans : Memory(s)'
    BY <1>0, <1>5, <2>1, <2>2, PhaseChange DEF StartThread
  <2> QED
    BY <1>0, <1>4, <1>5, <2>1, <2>2, <2>3 DEF StartThread
<1>6. ASSUME NEW r \in Scans, Probe(r)
      PROVE  /\ fault' = "none"
             /\ \A s \in Scans : Memory(s)' /\ Alone(s)'
  <2>1. ~ impatient /\ UNCHANGED <<slot, heap, fault>>
    BY <1>6 DEF Probe
  <2>2. \A s \in Scans :
          /\ scan'[s].phase = scan[s].phase
          /\ scan'[s].view = scan[s].view
          /\ scan'[s].orphan = scan[s].orphan
    BY <1>6, ProbeChange
  <2>3. \A s \in Scans : Memory(s)'
    BY <1>0, <2>1, <2>2
  <2>4. \A s \in Scans : Alone(s)'
    BY <1>0, <2>1, <2>2 DEF InFlight
  <2> QED
    BY <1>0, <2>1, <2>3, <2>4
<1>7. ASSUME NEW r \in Scans, PostReport(r)
      PROVE  /\ fault' = "none"
             /\ \A s \in Scans : Memory(s)' /\ Alone(s)'
  <2>1. ~ impatient /\ InFlight(r) /\ scan[r].view \in Windows
    BY <1>7 DEF PostReport, InFlight, ProgressOK
  <2>2. /\ UNCHANGED fault
        /\ slot' = [slot EXCEPT ![scan[r].view] = r]
        /\ heap' = [heap EXCEPT ![r] = "live"]
        /\ scan' = [scan EXCEPT ![r].phase = "posted"]
    BY <1>0, <1>7, <2>1 DEF PostReport
  <2>3. ASSUME NEW s \in Scans \ {r}
        PROVE  Memory(s)'
    BY <1>0, <2>1, <2>2, PhaseChange DEF InFlight, PortTypeOK
  <2>4. Memory(r)'
    BY <2>1, <2>2, PhaseChange DEF PortTypeOK
  <2>5. \A s \in Scans : Alone(s)'
    BY <1>4, <2>1, <2>2
  <2> QED
    BY <1>0, <2>1, <2>2, <2>3, <2>4, <2>5
<1>8. ASSUME NEW r \in Scans, QueueUpdate(r)
      PROVE  /\ fault' = "none"
             /\ \A s \in Scans : Memory(s)' /\ Alone(s)'
  <2>1. ~ impatient /\ InFlight(r) /\ UNCHANGED <<slot, heap, fault>>
    BY <1>8 DEF QueueUpdate, InFlight
  <2>2. \A s \in Scans : Memory(s)'
    BY <1>0, <1>8, <2>1, PhaseChange DEF QueueUpdate
  <2> QED
    BY <1>0, <1>4, <1>8, <2>1, <2>2 DEF QueueUpdate
<1>9. ASSUME UpdateTextView
      PROVE  /\ fault' = "none"
             /\ \A s \in Scans : Memory(s)' /\ Alone(s)'
  <2>1. PICK r \in Scans :
        /\ r = Head(idle) /\ scan[r].phase = "queued" /\ InFlight(r)
        /\ ~ impatient
        /\ scan' = [scan EXCEPT ![r].phase = "done"]
        /\ UNCHANGED slot
    BY <1>9, HeadIsQueued DEF UpdateTextView, InFlight
  <2>2. heap[r] = "live" /\ slot[scan[r].view] = r /\ ~ scan[r].orphan /\ r # NULL
    BY <1>0, <2>1, PortEyeAssumption
  <2>3. UNCHANGED fault /\ heap' = [heap EXCEPT ![r] = "freed"]
    BY <1>9, <2>1, <2>2 DEF UpdateTextView, Display
  <2>4. ASSUME NEW s \in Scans \ {r}
        PROVE  Memory(s)'
    BY <1>0, <2>1, <2>3, PhaseChange DEF PortTypeOK
  <2>5. Memory(r)'
    BY <2>1, <2>3, PhaseChange DEF PortTypeOK
  <2>6. \A s \in Scans : Alone(s)'
    BY <1>4, <2>1
  <2> QED
    BY <1>0, <2>1, <2>3, <2>4, <2>5, <2>6
<1> QED
  BY StepCases, <1>1, <1>2, <1>3, <1>5, <1>6, <1>7, <1>8, <1>9

----------------------------------------------------------------------------
(* Theorems                                                                *)

LEMMA InitEstablishesPortInv == Init => PortInv
<1> SUFFICES ASSUME Init PROVE PortInv
  OBVIOUS
<1>1. Inv /\ PortTypeOK
  BY InitTypes, InitEstablishesInv DEF Init
<1>2. /\ \A s \in Scans : scan[s].phase = "free"
      /\ \A s \in Scans : heap[s] = "none"
      /\ \A w \in Windows : slot[w] = NULL /\ text[w] = "blank"
      /\ idle = <<>> /\ fault = "none"
  BY DEF Init, PortInit, NoScan
<1>3. IdleOK
  BY <1>2 DEF IdleOK
<1>4. ProgressOK /\ ReportsOK
  BY <1>2 DEF ProgressOK, ReportsOK
<1>5. BusyOK /\ PatientOK
  BY <1>2 DEF BusyOK, BusyMeansInFlight, PatientOK, PatientMemory, InFlight
<1> QED
  BY <1>1, <1>3, <1>4, <1>5 DEF PortInv

LEMMA PortInvIsInductive == PortInv /\ [Next]_vars => PortInv'
<1> SUFFICES ASSUME PortInv, [Next]_vars PROVE PortInv'
  OBVIOUS
<1>1. Inv' /\ PortTypeOK'
  BY StepPreservesTypes, StepImplementsInterface, StepPreservesInv DEF PortInv
<1>2. IdleOK' /\ ProgressOK' /\ ReportsOK'
  BY StepPreservesIdle, StepPreservesProgress, StepPreservesReports DEF PortInv
<1>3. BusyOK' /\ PatientOK'
  BY StepPreservesBusy, StepPreservesPatience DEF PortInv
<1> QED
  BY <1>1, <1>2, <1>3 DEF PortInv

LEMMA PortInvHolds == Spec => []PortInv
  BY InitEstablishesPortInv, PortInvIsInductive, PTL DEF Spec

\* A user who waits for each report, and keeps its window open, never makes the
\* scanner touch a destroyed widget or a freed string.
THEOREM PatientUserIsSafe == Spec => []FaultOnlyIfImpatient
<1>1. PortInv => FaultOnlyIfImpatient
  BY DEF PortInv, PatientOK, FaultOnlyIfImpatient
<1> QED
  BY <1>1, PortInvHolds, PTL

\* For such a user each report is allocated, displayed and freed exactly once.
THEOREM PatientMemoryHolds == Spec => []PatientMemory
<1>1. PortInv => PatientMemory
  <2>1. impatient => PatientMemory
    BY DEF PatientMemory
  <2> QED
    BY <2>1 DEF PortInv, PatientOK
<1> QED
  BY <1>1, PortInvHolds, PTL

LEMMA PortInvReports == PortInv => ReportsAreComplete
<1> SUFFICES ASSUME PortInv, NEW w \in Windows, text[w] = "report", NEW s, s = shown[w]
             PROVE  /\ s \in Scans
                    /\ scan[s].lo <= scan[s].hi
                    /\ scan[s].next = scan[s].hi + 1
                    /\ MustFind(s) \subseteq scan[s].found
                    /\ scan[s].found \subseteq MayFind(s)
  BY DEF ReportsAreComplete
<1>1. s \in Scans /\ Reported(s) /\ scan[s].phase # "free"
  BY DEF PortInv, ReportsOK, Reported
<1>2. scan[s].lo <= scan[s].hi /\ scan[s].next = scan[s].hi + 1
  BY <1>1 DEF PortInv, ProgressOK
<1>3. scan[s].next - 1 = scan[s].hi
  BY <1>1, <1>2, ScanNumbers DEF PortInv
<1>4. MustFind(s) \subseteq scan[s].found /\ scan[s].found \subseteq MayFind(s)
  BY <1>1, <1>3 DEF PortInv, ProgressOK, MustFind, MayFind
<1> QED
  BY <1>1, <1>2, <1>4

\* Every report on display is complete and correct, whatever the user does and
\* however scans overlap.
THEOREM ReportsAlwaysComplete == Spec => []ReportsAreComplete
  BY PortInvReports, PortInvHolds, PTL

\* "Scan en cours..." is always true: a view never waits for nothing.
THEOREM BusyAlwaysInFlight == Spec => []BusyMeansInFlight
<1>1. PortInv => BusyMeansInFlight
  BY DEF PortInv, BusyOK
<1> QED
  BY <1>1, PortInvHolds, PTL

=============================================================================
