--------------------------- MODULE ToolboxProofs ----------------------------
(***************************************************************************)
(* Theorems about the port scanner and the packet capture in one process,  *)
(* for any number of windows, scans, captures and frames.                  *)
(***************************************************************************)
EXTENDS Toolbox, PortEyeProofs

\* What a step of the capture tool is for the scanner: its own variables stay,
\* and the registry makes a step or none.
LEMMA PacketsStepIsForeign ==
  ASSUME PacketsStep
  PROVE  UNCHANGED portVars /\ [InterfaceNext]_interfaceVars
<1>1. CASE PresentPackets
  BY <1>1, ToolboxAssumption DEF PresentPackets, InterfaceNext
<1>2. ASSUME NEW w \in Windows, OpenPackets(w)
      PROVE  UNCHANGED portVars /\ InterfaceNext
  BY <1>2, ToolboxAssumption DEF OpenPackets, InterfaceNext
<1>3. ASSUME NEW w \in Windows, ClosePackets(w)
      PROVE  UNCHANGED portVars /\ InterfaceNext
  BY <1>3 DEF ClosePackets, InterfaceNext
<1>4. ASSUME NEW c \in Captures, StartPackets(c)
      PROVE  UNCHANGED vars
  BY <1>4 DEF StartPackets
<1>5. CASE PacketsGoOn
  BY <1>5 DEF PacketsGoOn, vars
<1>6. CASE ShowPacketsLate
  <2>1. loop # "exited" \/ UNCHANGED interfaceVars
    BY <1>6 DEF ShowPacketsLate, Crash, interfaceVars
  <2> QED
    BY <1>6, <2>1, CrashAborts DEF ShowPacketsLate, InterfaceNext, interfaceVars
<1> QED
  BY <1>1, <1>2, <1>3, <1>4, <1>5, <1>6 DEF PacketsStep, vars

\* What a step of the scanner is in the toolbox: one of PortEye.
LEMMA ScannerStepIsPortEyes ==
  ASSUME ScannerStep
  PROVE  Next
BY DEF ScannerStep, ScannerHandler, StartScan, ScannerThread, Next, Program

LEMMA ToolboxStepImplementsInterface ==
  ASSUME [ToolboxNext]_toolVars
  PROVE  [InterfaceNext]_interfaceVars
<1>1. CASE ScannerStep
  BY <1>1, ScannerStepIsPortEyes, StepImplementsInterface
<1>2. CASE PacketsStep
  BY <1>2, PacketsStepIsForeign
<1>3. CASE UNCHANGED toolVars
  BY <1>3 DEF toolVars, vars
<1> QED
  BY <1>1, <1>2, <1>3 DEF ToolboxNext

\* Two tools that share the array, and reuse one another's addresses, use it as
\* the registry says, so the registry's theorems hold of the whole.
THEOREM ToolboxImplementsInterface == ToolboxSpec => ImplementsInterface
<1>1. ToolboxInit => InterfaceInit
  BY DEF ToolboxInit, Init
<1> QED
  BY <1>1, ToolboxStepImplementsInterface, PTL
  DEF ToolboxSpec, ImplementsInterface, InterfaceSpec

\* Each slot holds the live window of its tool, whichever tools there are.
THEOREM ToolboxTracksWindows == ToolboxSpec => []SlotsTrackWindows
  BY ToolboxImplementsInterface, SlotsAlwaysTrackWindows, PTL DEF ImplementsInterface

----------------------------------------------------------------------------
(* What PortEye promises is kept beside another tool.                      *)

LEMMA ForeignStepKeepsPortInv ==
  ASSUME PortInv, UNCHANGED portVars, [InterfaceNext]_interfaceVars
  PROVE  PortInv'
<1> USE DEF portVars
<1>1. Inv'
  BY StepPreservesInv DEF PortInv
<1>2. PortTypeOK'
  BY <1>1 DEF PortInv, PortTypeOK, Inv
<1>3. IdleOK' /\ ProgressOK' /\ ReportsOK'
  BY DEF PortInv, IdleOK, ProgressOK, ReportsOK, Reported
<1>4. loop = "exited" => loop' = "exited"
  BY DEF InterfaceNext, interfaceVars, PresentWindow, OpenWindow, DestroyWindow, DestroyMain,
         ExitMain, Abort
<1>5. BusyOK'
  BY <1>4 DEF PortInv, BusyOK, BusyMeansInFlight, InFlight
<1>6. PatientOK'
  BY DEF PortInv, PatientOK, PatientMemory, InFlight
<1> QED
  BY <1>1, <1>2, <1>3, <1>5, <1>6 DEF PortInv

LEMMA ToolboxKeepsPortInv == PortInv /\ [ToolboxNext]_toolVars => PortInv'
<1> SUFFICES ASSUME PortInv, [ToolboxNext]_toolVars PROVE PortInv'
  OBVIOUS
<1>1. CASE ScannerStep
  BY <1>1, ScannerStepIsPortEyes, PortInvIsInductive
<1>2. CASE PacketsStep
  BY <1>2, PacketsStepIsForeign, ForeignStepKeepsPortInv
<1>3. CASE UNCHANGED toolVars
  <2>1. UNCHANGED vars
    BY <1>3 DEF toolVars
  <2> QED
    BY <2>1, PortInvIsInductive
<1> QED
  BY <1>1, <1>2, <1>3 DEF ToolboxNext

\* Beside a packet capture, too, a displayed report is complete, "Scan en cours..."
\* is true, and a patient user's scans touch no destroyed view and leak nothing.
THEOREM ScannerIsSafeInToolbox ==
  ToolboxSpec => [](/\ ReportsAreComplete
                    /\ BusyMeansInFlight
                    /\ FaultOnlyIfImpatient
                    /\ PatientMemory)
<1>1. ToolboxInit => PortInv
  BY InitEstablishesPortInv DEF ToolboxInit
<1>2. PortInv => BusyMeansInFlight /\ FaultOnlyIfImpatient
  BY DEF PortInv, BusyOK, PatientOK, FaultOnlyIfImpatient
<1>3. PortInv => PatientMemory
  <2>1. impatient => PatientMemory
    BY DEF PatientMemory
  <2> QED
    BY <2>1 DEF PortInv, PatientOK
<1> QED
  BY <1>1, <1>2, <1>3, PortInvReports, ToolboxKeepsPortInv, PTL DEF ToolboxSpec

=============================================================================
