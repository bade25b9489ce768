------------------------------ MODULE PortEye ------------------------------
(***************************************************************************)
(* The port scanner (src/src/porteye.c) in its window.                     *)
(*                                                                         *)
(* The window asks for an address, then for one of seven modes.  A range   *)
(* scan runs in a thread of its own: the "clicked" handler fills a         *)
(* ScanData, shows "Scan en cours...", drains the pending events and only  *)
(* then starts the thread.  The thread probes the ports, attaches a copy   *)
(* of its report to the text view under the key "scan_result" and queues   *)
(* the idle callback updateTextView, which displays what it finds under    *)
(* the key and frees it.  Nothing keeps two scans from sharing a view, nor *)
(* a view from being destroyed while a scan holds a pointer to it.         *)
(*                                                                         *)
(* A text view is named by its window.  A step that touches a destroyed    *)
(* widget or a freed string is undefined: the process may end, or go on    *)
(* with one of the effects listed at the action; "fault" remembers it.     *)
(***************************************************************************)
EXTENDS Interface, Sequences

CONSTANTS
  PortEyeTool,  \* index of the porteye button (0 in main.c)
  MaxPort,      \* MAX_PORTS
  Net,          \* what connect() meets on each port, see NetAssumption
  AutoRanges,   \* the <<start, end>> pairs of the four one-click modes
  TypedAddresses,  \* what the user types: tuples of four octets, 0..999 each
  Inputs,       \* what atoi makes of a port field
  Scans,        \* one identity per scan; their number bounds the model
  Dialog        \* the frame of a modal message box on the UI stack

Ports == 0 .. MaxPort
Octets == [1 .. 4 -> 0 .. 999]

ASSUME PortEyeAssumption ==
  /\ PortEyeTool \in Tools
  /\ MaxPort \in Nat
  /\ TypedAddresses \subseteq Octets
  /\ Inputs \subseteq Int
  /\ AutoRanges \subseteq {r \in Ports \X Ports : r[1] <= r[2]}
  /\ NULL \notin Scans
  /\ Dialog \notin Scans

\* "open" accepts at once.  "closed" refuses, "filtered" never answers.
\* "flaky" accepts, but an attempt can fail: the answer comes after TIMEOUT,
\* or socket() itself finds no free descriptor.
ASSUME NetAssumption == Net \in [Ports -> {"open", "closed", "filtered", "flaky"}]

VARIABLES
  page,      \* what the window of PortEye shows
  address,   \* [typed, used]: what was typed and what is scanned, or NULL
  text,      \* what the result label or text view displays
  shown,     \* the scan whose report is displayed, while text = "report"
  slot,      \* the string under "scan_result", named by its scan, or NULL
  heap,      \* the g_strdup'ed report of each scan: "none", "live", "freed"
  scan,      \* each scan: its ScanData, its progress and its phase
  idle,      \* the queued updateTextView callbacks, oldest first
  ui,        \* handlers suspended in a nested event loop, innermost first
  impatient, \* history: a scan shared its view, or lost it
  fault      \* the first undefined step: "none", "view" or "text"

portVars == <<page, address, text, shown, slot, heap, scan, idle, ui,
              impatient, fault>>
vars == <<interfaceVars, portVars>>

ManualModes == {"single", "range", "openrange"}
ViewPages == {"range", "openrange", "auto"}
Pages == {"none", "ip", "options"} \union ManualModes \union {"auto"}
Texts == {"blank", "busy", "invalid", "open", "closed", "report", "garbage"}
Phases == {"free", "clicked", "running", "posted", "queued", "done"}

HasView(w) == page[w] \in ViewPages
InFlight(s) == scan[s].phase \in {"clicked", "running", "posted", "queued"}
Reported(s) == scan[s].phase \in {"posted", "queued", "done"}

NoScan == [phase |-> "free", view |-> NULL, kind |-> "range", lo |-> 0,
           hi |-> 0, next |-> 0, found |-> {}, orphan |-> FALSE]

ScanData == [phase: Phases, view: Windows \union {NULL}, kind: ViewPages,
             lo: Ports, hi: Ports, next: 0 .. MaxPort + 1,
             found: SUBSET Ports, orphan: BOOLEAN]

PortInit ==
  /\ page = [w \in Windows |-> "none"]
  /\ address = [w \in Windows |-> NULL]
  /\ text = [w \in Windows |-> "blank"]
  /\ shown = [w \in Windows |-> NULL]
  /\ slot = [w \in Windows |-> NULL]
  /\ heap = [s \in Scans |-> "none"]
  /\ scan = [s \in Scans |-> NoScan]
  /\ idle = <<>>
  /\ ui = <<>>
  /\ impatient = FALSE
  /\ fault = "none"

Init == InterfaceInit /\ PortInit

\* An undefined step: recorded once; the process ends, or survives it.
Undefined(kind) == fault' = IF fault = "none" THEN kind ELSE fault
Crash == loop' = "exited" /\ UNCHANGED <<open_windows, tool, front>>

----------------------------------------------------------------------------
(* createSocket                                                            *)

\* The results a call of createSocket on port p may have: TRUE, connected.
Connects(p) ==
  CASE Net[p] = "open"  -> {TRUE}
    [] Net[p] = "flaky" -> BOOLEAN
    [] OTHER            -> {FALSE}

----------------------------------------------------------------------------
(* The pages                                                               *)

\* The user can act on the windows: no modal box has the grab.
InputAllowed == loop # "exited" /\ (ui # <<>> => Head(ui) # Dialog)

\* Seeded fault: the handler opens a window without looking at the slot.
OpenPortEyeAgain(w) ==
  /\ InputAllowed
  /\ loop = "running" /\ ~ Live(w)
  /\ open_windows' = [open_windows EXCEPT ![PortEyeTool] = w]
  /\ tool' = [tool EXCEPT ![w] = PortEyeTool]
  /\ front' = w
  /\ page' = [page EXCEPT ![w] = "ip"]
  /\ UNCHANGED <<loop, address, text, shown, slot, heap, scan, idle, ui, impatient, fault>>

OpenPortEye(w) ==
  /\ InputAllowed
  /\ OpenWindow(PortEyeTool, w)
  /\ page' = [page EXCEPT ![w] = "ip"]
  /\ UNCHANGED <<address, text, shown, slot, heap, scan, idle, ui, impatient, fault>>

PresentPortEye ==
  /\ InputAllowed
  /\ PresentWindow(PortEyeTool)
  /\ UNCHANGED portVars

\* The window and every widget in it go away; a scan that holds the view goes on.
ClosePortEye(w) ==
  LET Loses(s) == scan[s].view = w /\ InFlight(s)
  IN  /\ InputAllowed
      /\ tool[w] = PortEyeTool
      /\ DestroyWindow(w)
      /\ page' = [page EXCEPT ![w] = "none"]
      /\ address' = [address EXCEPT ![w] = NULL]
      /\ text' = [text EXCEPT ![w] = "blank"]
      /\ shown' = [shown EXCEPT ![w] = NULL]
      /\ slot' = [slot EXCEPT ![w] = NULL]
      /\ scan' = [s \in Scans |->
                    IF Loses(s) THEN [scan[s] EXCEPT !.orphan = TRUE] ELSE scan[s]]
      /\ impatient' = (impatient \/ \E s \in Scans : Loses(s))
      /\ UNCHANGED <<heap, idle, ui, fault>>

Digits(n) == IF n < 10 THEN 1 ELSE IF n < 100 THEN 2 ELSE 3

\* The entry keeps 14 characters: of the longest address, four octets of three
\* digits and three dots, it drops the last digit.
EntryText(a) ==
  IF Digits(a[1]) + Digits(a[2]) + Digits(a[3]) + Digits(a[4]) + 3 > 14
  THEN [a EXCEPT ![4] = @ \div 10]
  ELSE a

\* The regular expression of checkIp.
ValidAddress(a) == \A i \in 1 .. 4 : a[i] \in 0 .. 255

\* checkIp: a valid address leads to the seven options, another to a modal box.
CheckIp(w, a) ==
  LET ip == EntryText(a)
  IN  /\ InputAllowed
      /\ page[w] = "ip"
      /\ \/ /\ ValidAddress(ip)
            /\ page' = [page EXCEPT ![w] = "options"]
            /\ address' = [address EXCEPT ![w] = [typed |-> a, used |-> ip]]
            /\ ui' = ui
         \/ /\ ~ ValidAddress(ip)
            /\ ui' = <<Dialog>> \o ui
            /\ UNCHANGED <<page, address>>
      /\ UNCHANGED <<interfaceVars, text, shown, slot, heap, scan, idle, impatient, fault>>

DismissDialog ==
  /\ loop # "exited"
  /\ ui # <<>> /\ Head(ui) = Dialog
  /\ ui' = Tail(ui)
  /\ UNCHANGED <<interfaceVars, page, address, text, shown, slot, heap, scan,
                 idle, impatient, fault>>

\* buttonClicked on one of the three modes that wait for ports.
ChooseMode(w, mode) ==
  /\ InputAllowed
  /\ page[w] = "options"
  /\ page' = [page EXCEPT ![w] = mode]
  /\ UNCHANGED <<interfaceVars, address, text, shown, slot, heap, scan, idle,
                 ui, impatient, fault>>

\* scanPort: one port, probed by the UI thread itself.  Port 0 is refused.
ScanPort(w, port) ==
  /\ InputAllowed
  /\ page[w] = "single"
  /\ \/ /\ port <= 0 \/ port > MaxPort
        /\ text' = [text EXCEPT ![w] = "invalid"]
     \/ /\ port \in 1 .. MaxPort
        /\ \E ok \in Connects(port) :
             text' = [text EXCEPT ![w] = IF ok THEN "open" ELSE "closed"]
  /\ UNCHANGED <<interfaceVars, page, address, shown, slot, heap, scan, idle,
                 ui, impatient, fault>>

----------------------------------------------------------------------------
(* Starting a scan                                                         *)

\* Seeded fault: the end is made exclusive.
BoundsPastEnd(a, b) == IF a > b THEN <<b, a + 1>> ELSE <<a, b + 1>>

\* The bounds in ascending order.
Bounds(a, b) == IF a > b THEN <<b, a>> ELSE <<a, b>>

\* scanPortRange and scanPortOpenRange up to the drain of the events: the
\* handler stays on the stack, the thread does not exist yet.
BeginScan(s, w, kind, a, b) ==
  /\ scan[s].phase = "free"
  /\ scan' = [scan EXCEPT ![s] =
       [phase |-> "clicked", view |-> w, kind |-> kind, lo |-> Bounds(a, b)[1],
        hi |-> Bounds(a, b)[2], next |-> Bounds(a, b)[1], found |-> {}, orphan |-> FALSE]]
  /\ text' = [text EXCEPT ![w] = "busy"]
  /\ shown' = [shown EXCEPT ![w] = NULL]
  /\ ui' = <<s>> \o ui
  /\ impatient' = (impatient \/ \E r \in Scans : InFlight(r) /\ scan[r].view = w)

\* The "Scanner" button of the two range modes.
ScanPortRange(s, w, a, b) ==
  /\ InputAllowed
  /\ page[w] \in {"range", "openrange"}
  /\ \/ /\ a \notin Ports \/ b \notin Ports
        /\ text' = [text EXCEPT ![w] = "invalid"]
        /\ shown' = [shown EXCEPT ![w] = NULL]
        /\ UNCHANGED <<scan, ui, impatient>>
     \/ /\ a \in Ports /\ b \in Ports
        /\ BeginScan(s, w, page[w], a, b)
  /\ UNCHANGED <<interfaceVars, page, address, slot, heap, idle, fault>>

\* buttonClicked on one of the four modes that scan at once.
AutoScan(s, w, r) ==
  /\ InputAllowed
  /\ page[w] = "options"
  /\ page' = [page EXCEPT ![w] = "auto"]
  /\ BeginScan(s, w, "auto", r[1], r[2])
  /\ UNCHANGED <<interfaceVars, address, slot, heap, idle, fault>>

\* No event is pending any more, no idle callback among them: the innermost
\* handler starts its thread and returns.  In the one-click modes it then shows
\* the grid, which is gone if the window was closed during the drain.
StartThread(s) ==
  LET GridGone == scan[s].kind = "auto" /\ scan[s].orphan
  IN  /\ loop # "exited"
      /\ ui # <<>> /\ Head(ui) = s
      /\ idle = <<>>
      /\ scan[s].phase = "clicked"
      /\ ui' = Tail(ui)
      /\ scan' = [scan EXCEPT ![s].phase = "running"]
      /\ \/ ~ GridGone /\ UNCHANGED <<interfaceVars, fault>>
         \/ GridGone /\ Undefined("view") /\ (Crash \/ UNCHANGED interfaceVars)
      /\ UNCHANGED <<page, address, text, shown, slot, heap, idle, impatient>>

----------------------------------------------------------------------------
(* scanPortRangeThread, scanPortOpenRangeThread                            *)

\* Seeded fault: the loop leaves out the last port.
MorePortsExclusive(s) == scan[s].next < scan[s].hi

\* The condition of the loop over the ports.
MorePorts(s) == scan[s].next <= scan[s].hi

\* One turn of the loop: connect, note an open port, close.
Probe(s) ==
  LET p == scan[s].next
  IN  /\ loop # "exited"
      /\ scan[s].phase = "running"
      /\ MorePorts(s)
      /\ \E ok \in Connects(p) :
           scan' = [scan EXCEPT ![s].next = p + 1,
                                ![s].found = IF ok THEN @ \union {p} ELSE @]
      /\ UNCHANGED <<interfaceVars, page, address, text, shown, slot, heap,
                     idle, ui, impatient, fault>>

\* g_object_set_data of a copy of the report on the view the thread was given.
\* On a destroyed view it is undefined: refused, or done to the view that took
\* its place.
PostReport(s) ==
  LET w == scan[s].view
  IN  /\ loop # "exited"
      /\ scan[s].phase = "running"
      /\ ~ MorePorts(s)
      /\ scan' = [scan EXCEPT ![s].phase = "posted"]
      /\ heap' = [heap EXCEPT ![s] = "live"]
      /\ \/ /\ ~ scan[s].orphan
            /\ slot' = [slot EXCEPT ![w] = s]
            /\ UNCHANGED <<interfaceVars, fault>>
         \/ /\ scan[s].orphan
            /\ Undefined("view")
            /\ \/ Crash /\ UNCHANGED slot
               \/ UNCHANGED <<interfaceVars, slot>>
               \/ /\ HasView(w)
                  /\ slot' = [slot EXCEPT ![w] = s]
                  /\ UNCHANGED interfaceVars
      /\ UNCHANGED <<page, address, text, shown, idle, ui, impatient>>

\* g_idle_add; the thread then frees its ScanData and ends.
QueueUpdate(s) ==
  /\ loop # "exited"
  /\ scan[s].phase = "posted"
  /\ idle' = Append(idle, s)
  /\ scan' = [scan EXCEPT ![s].phase = "queued"]
  /\ UNCHANGED <<interfaceVars, page, address, text, shown, slot, heap, ui,
                 impatient, fault>>

----------------------------------------------------------------------------
(* The idle callback                                                       *)

\* Seeded fault: the callback frees the string and displays nothing.
DisplayNothing(w) ==
  LET t == slot[w]
  IN  /\ heap' = IF t # NULL THEN [heap EXCEPT ![t] = "freed"] ELSE heap
      /\ UNCHANGED <<text, shown>>

\* Seeded fault: the displayed string is not freed.
DisplayKeeping(w) ==
  LET t == slot[w]
  IN  /\ text' = IF t # NULL THEN [text EXCEPT ![w] = "report"] ELSE text
      /\ shown' = IF t # NULL THEN [shown EXCEPT ![w] = t] ELSE shown
      /\ UNCHANGED heap

\* Display the string under "scan_result", if any, and free it; the key keeps
\* its value.
Display(w) ==
  LET t == slot[w]
  IN  \/ /\ t = NULL
         /\ UNCHANGED <<text, shown, heap>>
      \/ /\ t # NULL /\ heap[t] = "live"
         /\ text' = [text EXCEPT ![w] = "report"]
         /\ shown' = [shown EXCEPT ![w] = t]
         /\ heap' = [heap EXCEPT ![t] = "freed"]
      \/ /\ t # NULL /\ heap[t] # "live"
         /\ text' = [text EXCEPT ![w] = "garbage"]
         /\ shown' = [shown EXCEPT ![w] = NULL]
         /\ UNCHANGED heap

\* Seeded fault: updateTextView returns TRUE and is called again.
RemainingForever(q) == q

\* updateTextView returns FALSE: its callback is gone.
Remaining(q) == Tail(q)

\* updateTextView, run by the loop or by a nested one, oldest callback first.
\* It is undefined on a destroyed view (refused, or done to the view that took
\* its place) and on a string that an earlier callback has freed.
UpdateTextView ==
  LET s == Head(idle)
      w == scan[s].view
      gone == scan[s].orphan
      freed == slot[w] # NULL /\ heap[slot[w]] # "live"
  IN  /\ loop # "exited"
      /\ idle # <<>>
      /\ idle' = Remaining(idle)
      /\ scan' = [scan EXCEPT ![s].phase = "done"]
      /\ IF gone \/ freed
         THEN Undefined(IF gone THEN "view" ELSE "text")
         ELSE UNCHANGED fault
      /\ \/ (gone => HasView(w)) /\ Display(w) /\ UNCHANGED interfaceVars
         \/ gone /\ UNCHANGED <<interfaceVars, text, shown, heap>>
         \/ (gone \/ freed) /\ Crash /\ UNCHANGED <<text, shown, heap>>
      /\ UNCHANGED <<page, address, slot, ui, impatient>>

----------------------------------------------------------------------------
(* The end of the program                                                  *)

CloseMain == InputAllowed /\ DestroyMain /\ UNCHANGED portVars

\* gtk_main can return only when no handler is suspended above it.
Exit == ui = <<>> /\ ExitMain /\ UNCHANGED portVars

----------------------------------------------------------------------------

User ==
  \/ PresentPortEye
  \/ CloseMain
  \/ \E w \in Windows :
       \/ OpenPortEye(w)
       \/ ClosePortEye(w)
       \/ \E a \in TypedAddresses : CheckIp(w, a)
       \/ \E mode \in ManualModes : ChooseMode(w, mode)
       \/ \E port \in Inputs : ScanPort(w, port)
       \/ \E s \in Scans :
            \/ \E a, b \in Inputs : ScanPortRange(s, w, a, b)
            \/ \E r \in AutoRanges : AutoScan(s, w, r)

Program ==
  \/ UpdateTextView
  \/ Exit
  \/ \E s \in Scans : StartThread(s) \/ Probe(s) \/ PostReport(s) \/ QueueUpdate(s)

Next == User \/ DismissDialog \/ Program

Spec == Init /\ [][Next]_vars

\* The scheduler runs every thread and GLib every idle callback; the user ends
\* by answering a modal box.  A drain ends whenever no event is pending, so the
\* handler that is again and again free to return does return: strong fairness.
Fairness ==
  /\ WF_vars(UpdateTextView)
  /\ WF_vars(DismissDialog)
  /\ \A s \in Scans :
       /\ SF_vars(StartThread(s))
       /\ WF_vars(Probe(s) \/ PostReport(s) \/ QueueUpdate(s))

FairSpec == Spec /\ Fairness

----------------------------------------------------------------------------
(* Properties                                                              *)

PortTypeOK ==
  /\ TypeOK
  /\ page \in [Windows -> Pages]
  /\ address \in [Windows -> [typed: Octets, used: Octets] \union {NULL}]
  /\ text \in [Windows -> Texts]
  /\ shown \in [Windows -> Scans \union {NULL}]
  /\ slot \in [Windows -> Scans \union {NULL}]
  /\ heap \in [Scans -> {"none", "live", "freed"}]
  /\ scan \in [Scans -> ScanData]
  /\ idle \in Seq(Scans)
  /\ ui \in Seq(Scans \union {Dialog})
  /\ impatient \in BOOLEAN
  /\ fault \in {"none", "view", "text"}

\* A user who waits for the report before scanning again or closing the window
\* never makes the program touch a destroyed widget or a freed string: only two
\* scans that overlap on a view, or a scan that outlives its view, can.
FaultOnlyIfImpatient == fault # "none" => impatient

\* For such a user the report of a scan is allocated once, is under the view's
\* key from then until the callback, and is freed by it: no string leaks.
PatientMemory ==
  ~ impatient =>
    \A s \in Scans :
      /\ heap[s] = "live" <=> scan[s].phase \in {"posted", "queued"}
      /\ heap[s] = "live" => slot[scan[s].view] = s
      /\ heap[s] = "freed" <=> scan[s].phase = "done"

\* The report that scan s should give: the ports it has to find open, and those
\* it may.
MustFind(s) == {p \in scan[s].lo .. scan[s].hi : Net[p] = "open"}
MayFind(s) == {p \in scan[s].lo .. scan[s].hi : Net[p] \in {"open", "flaky"}}

\* Whatever the interleaving, a report that is displayed is a finished one: it
\* covers the ascending range of its scan, names every port that always accepts
\* and no port that does not.  One that accepted too late may be missing.
ReportsAreComplete ==
  \A w \in Windows :
    text[w] = "report" =>
      LET s == shown[w]
      IN  /\ s \in Scans
          /\ scan[s].lo <= scan[s].hi
          /\ scan[s].next = scan[s].hi + 1
          /\ MustFind(s) \subseteq scan[s].found
          /\ scan[s].found \subseteq MayFind(s)

\* "Scan en cours..." is true: while the program runs and a view shows it, a scan
\* of that view is on its way, and will replace it.
BusyMeansInFlight ==
  loop # "exited" =>
    \A w \in Windows :
      text[w] = "busy" => \E s \in Scans : scan[s].view = w /\ InFlight(s) /\ ~ scan[s].orphan

\* The scanner uses the window registry as every tool does: it implements the
\* specification of Interface.
ImplementsInterface == InterfaceSpec

\* Every scan the user starts is answered by its callback, unless the process
\* ends first.
ScanIsAnswered ==
  \A s \in Scans : scan[s].phase = "clicked" ~> scan[s].phase = "done" \/ loop = "exited"

----------------------------------------------------------------------------
(* What the documentation says and the code does not do                    *)

\* README: the scanner returns the list a scan has found.  So the callback of a
\* scan whose view exists displays the report of that scan.
ReportIsReturned ==
  [][\A s \in Scans :
       scan[s].phase = "queued" /\ scan'[s].phase = "done" /\ ~ scan[s].orphan
         => shown'[scan[s].view] = s]_vars

\* The state a report gives to a port of its range.
StateShown(s, p) == IF p \in scan[s].found THEN "ouvert" ELSE "fermé"

\* README: the list tells open, closed and filtered ports apart.
FilteredIsShown ==
  \A w \in Windows :
    text[w] = "report" =>
      \A p \in scan[shown[w]].lo .. scan[shown[w]].hi :
        Net[p] = "filtered" => StateShown(shown[w], p) = "filtré"

\* README: the scan is of the machine the user names.
TypedAddressIsScanned ==
  \A w \in Windows : address[w] # NULL => address[w].used = address[w].typed

=============================================================================
