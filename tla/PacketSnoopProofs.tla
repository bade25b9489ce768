-------------------------- MODULE PacketSnoopProofs --------------------------
(***************************************************************************)
(* Theorems about the packet capture window, for any number of captures,   *)
(* frames and windows.  What must be added to make the safety properties   *)
(* inductive is how the handlers that clicks pile up on the button are     *)
(* ordered (FreesFollowJoins) and which captures they will still join      *)
(* (JoinsPending).                                                         *)
(***************************************************************************)
EXTENDS PacketSnoop, TLAPS

----------------------------------------------------------------------------
(* The type invariant                                                      *)

\* Changing the phase of one capture changes nothing else of any.
LEMMA SetPhaseFacts ==
  ASSUME TypeOK, NEW c \in Captures, NEW p \in Phases
  PROVE  /\ SetPhase(c, p) \in [Captures -> [phase : Phases, view : Windows \union {NULL},
                                             received : 0 .. MaxFrames, stale : BOOLEAN]]
         /\ SetPhase(c, p)[c].phase = p
         /\ \A d \in Captures : d # c => SetPhase(c, p)[d] = capture[d]
         /\ \A d \in Captures : /\ SetPhase(c, p)[d].stale = capture[d].stale
                                /\ SetPhase(c, p)[d].received = capture[d].received
  BY DEF TypeOK, SetPhase

LEMMA PhaseNames ==
  /\ "free" \in Phases /\ "starting" \in Phases /\ "running" \in Phases
  /\ "box" \in Phases /\ "answered" \in Phases /\ "ended" \in Phases
  BY DEF Phases

LEMMA OnDestroyType ==
  ASSUME NEW c \in Captures
  PROVE  /\ OnDestroy(c) \in Seq(Handlers) /\ Len(OnDestroy(c)) = 2
         /\ OnDestroy(c)[1] = [call |-> "join", of |-> c]
         /\ OnDestroy(c)[2] = [call |-> "free", of |-> c]
<1>1. [call |-> "join", of |-> c] \in Handlers /\ [call |-> "free", of |-> c] \in Handlers
  BY DEF Handlers
<1> QED
  BY <1>1 DEF OnDestroy

\* Putting one sequence behind another.
LEMMA ConcatFacts ==
  ASSUME NEW S, NEW s \in Seq(S), NEW t \in Seq(S)
  PROVE  /\ s \o t \in Seq(S) /\ Len(s \o t) = Len(s) + Len(t)
         /\ \A k \in 1 .. Len(s) : (s \o t)[k] = s[k]
         /\ \A k \in 1 .. Len(t) : (s \o t)[Len(s) + k] = t[k]
  OBVIOUS

\* The new box is the first.
LEMMA PutFirst ==
  ASSUME NEW c \in Captures, boxes \in Seq(Captures)
  PROVE  /\ <<c>> \o boxes \in Seq(Captures)
         /\ Len(<<c>> \o boxes) = Len(boxes) + 1
         /\ (<<c>> \o boxes)[1] = c
         /\ \A k \in 1 .. Len(boxes) : (<<c>> \o boxes)[k + 1] = boxes[k]
<1>1. <<c>> \in Seq(Captures) /\ Len(<<c>>) = 1 /\ <<c>>[1] = c
  OBVIOUS
<1> QED
  BY <1>1

LEMMA InitTypeOK == Init => TypeOK
<1>1. <<>> \in Seq(Captures \X (1 .. MaxFrames)) /\ <<>> \in Seq(Handlers) /\ <<>> \in Seq(Captures)
  OBVIOUS
<1> QED
  BY <1>1, SnoopAssumption DEF Init, TypeOK, Phases

\* Each step keeps the types.
LEMMA NextTypeOK ==
  ASSUME TypeOK, Next
  PROVE  TypeOK'
<1>1. ASSUME NEW w \in Windows, OpenSnoop(w) PROVE TypeOK'
  BY <1>1 DEF OpenSnoop, TypeOK
<1>2. ASSUME NEW c \in Captures, StartCapture(c) PROVE TypeOK'
  <2>1. capture' \in [Captures -> [phase : Phases, view : Windows \union {NULL},
                                   received : 0 .. MaxFrames, stale : BOOLEAN]]
    BY <1>2, PhaseNames DEF StartCapture, TypeOK
  <2>2. handlers' \in Seq(Handlers)
    <3>1. handlers \in Seq(Handlers) /\ handlers' = handlers \o OnDestroy(c)
      BY <1>2 DEF StartCapture, TypeOK
    <3>2. OnDestroy(c) \in Seq(Handlers)
      BY OnDestroyType
    <3> QED
      BY <3>1, <3>2, ConcatFacts
  <2>3. data' \in [Captures -> {"none", "live", "freed"}]
    BY <1>2 DEF StartCapture, TypeOK
  <2> QED
    BY <1>2, <2>1, <2>2, <2>3 DEF StartCapture, TypeOK
<1>3. ASSUME NEW c \in Captures, ThreadStep(c) PROVE TypeOK'
  <2>1. CASE OpenSocket(c)
    <3>1. boxes' \in Seq(Captures)
      BY <2>1, PutFirst DEF OpenSocket, TypeOK
    <3> QED
      BY <2>1, <3>1, SetPhaseFacts, PhaseNames DEF OpenSocket, TypeOK
  <2>2. CASE Receive(c)
    <3>1. capture[c].received + 1 \in 1 .. MaxFrames
      BY <2>2, SnoopAssumption DEF Receive, TypeOK
    <3>2. capture' \in [Captures -> [phase : Phases, view : Windows \union {NULL},
                                     received : 0 .. MaxFrames, stale : BOOLEAN]]
      <4>1. [capture[c] EXCEPT !.received = capture[c].received + 1]
              \in [phase : Phases, view : Windows \union {NULL},
                   received : 0 .. MaxFrames, stale : BOOLEAN]
        <5>1. capture[c] \in [phase : Phases, view : Windows \union {NULL},
                              received : 0 .. MaxFrames, stale : BOOLEAN]
          BY DEF TypeOK
        <5>2. capture[c].received + 1 \in 0 .. MaxFrames
          BY <3>1, SnoopAssumption
        <5> QED
          BY <5>1, <5>2
      <4> QED
        BY <2>2, <4>1 DEF Receive, TypeOK
    <3>3. idle' \in Seq(Captures \X (1 .. MaxFrames))
      BY <2>2, <3>1 DEF Receive, Queue, TypeOK
    <3> QED
      BY <2>2, <3>2, <3>3 DEF Receive, TestStop, Undefined, TypeOK
  <2>3. CASE ReceiveFails(c)
    <3>1. boxes' \in Seq(Captures)
      BY <2>3, PutFirst DEF ReceiveFails, TypeOK
    <3> QED
      BY <2>3, <3>1, SetPhaseFacts, PhaseNames DEF ReceiveFails, TestStop, Undefined, TypeOK
  <2>4. CASE EndCapture(c)
    BY <2>4, SetPhaseFacts, PhaseNames DEF EndCapture, TypeOK
  <2> QED
    BY <1>3, <2>1, <2>2, <2>3, <2>4 DEF ThreadStep
<1>4. CASE CloseSnoop
  <2>1. capture' \in [Captures -> [phase : Phases, view : Windows \union {NULL},
                                   received : 0 .. MaxFrames, stale : BOOLEAN]]
    BY <1>4 DEF CloseSnoop, TypeOK
  <2>2. <<>> \in Seq(Handlers)
    OBVIOUS
  <2> QED
    BY <1>4, <2>1, <2>2 DEF CloseSnoop, WindowAfterClose, TypeOK
<1>5. CASE JoinReturns
  BY <1>5 DEF JoinReturns, HandlersAfterCall, TypeOK
<1>6. CASE FreeData
  <2>1. Head(destroying) \in Handlers /\ Tail(destroying) \in Seq(Handlers)
    BY <1>6 DEF FreeData, TypeOK
  <2>2. data' \in [Captures -> {"none", "live", "freed"}]
    BY <1>6, <2>1 DEF FreeData, TypeOK, Handlers
  <2> QED
    BY <1>6, <2>1, <2>2 DEF FreeData, HandlersAfterCall, TypeOK
<1>7. CASE DestroyMain \/ ExitMain
  BY <1>7 DEF DestroyMain, ExitMain, TypeOK
<1>8. CASE AnswerBox
  <2>1. Head(boxes) \in Captures /\ Tail(boxes) \in Seq(Captures)
    BY <1>8 DEF AnswerBox, TypeOK
  <2> QED
    BY <1>8, <2>1, SetPhaseFacts, PhaseNames DEF AnswerBox, TypeOK
<1>9. CASE ShowFrame
  <2>1. Head(idle) \in Captures \X (1 .. MaxFrames)
        /\ Tail(idle) \in Seq(Captures \X (1 .. MaxFrames))
    BY <1>9 DEF ShowFrame, TypeOK
  <2>2. shown' \in [Captures -> 0 .. MaxFrames]
    BY <1>9, <2>1, SnoopAssumption DEF ShowFrame, TypeOK
  <2> QED
    BY <1>9, <2>1, <2>2 DEF ShowFrame, IdleAfterCall, TypeOK
<1>10. CASE ShowFrameLate
  BY <1>10 DEF ShowFrameLate, Undefined, TypeOK
<1> QED
  BY <1>1, <1>2, <1>3, <1>4, <1>5, <1>6, <1>7, <1>8, <1>9, <1>10 DEF Next

\* In every reachable state the variables have their types.
THEOREM TypesAreKept == Spec => []TypeOK
<1>1. TypeOK /\ UNCHANGED vars => TypeOK'
  BY DEF vars, TypeOK
<1> QED
  BY InitTypeOK, NextTypeOK, <1>1, PTL DEF Spec

----------------------------------------------------------------------------
(* What a step does to the captures                                        *)

\* A capture that waits in a box waits in one only.
BoxesWait ==
  \A k \in 1 .. Len(boxes) :
    /\ capture[boxes[k]].phase = "box"
    /\ \A m \in 1 .. Len(boxes) : boxes[m] = boxes[k] => m = k

\* No capture gets out of "ended", back to "free", or loses its staleness, and
\* "box" is left by the answer only.
Onwards(c) ==
  /\ capture[c].phase = "ended" => capture'[c].phase = "ended"
  /\ capture[c].phase # "free" => capture'[c].phase # "free"
  /\ capture[c].stale => capture'[c].stale

LEMMA PhaseChange ==
  ASSUME TypeOK, NEW d \in Captures, NEW p \in Phases, capture' = SetPhase(d, p)
  PROVE  /\ \A e \in Captures : e # d => capture'[e] = capture[e]
         /\ capture'[d].phase = p /\ capture'[d].stale = capture[d].stale
         /\ capture'[d].received = capture[d].received
<1>1. /\ SetPhase(d, p)[d].phase = p /\ SetPhase(d, p)[d].stale = capture[d].stale
      /\ SetPhase(d, p)[d].received = capture[d].received
      /\ \A e \in Captures : e # d => SetPhase(d, p)[e] = capture[e]
  BY SetPhaseFacts
<1> QED
  BY <1>1

\* The threads' steps that are a change of phase.
LEMMA ThreadPhases ==
  ASSUME NEW d \in Captures, OpenSocket(d) \/ ReceiveFails(d) \/ EndCapture(d)
  PROVE  /\ \E p \in Phases : p # "free" /\ capture' = SetPhase(d, p)
         /\ capture[d].phase \notin {"free", "ended"}
  BY PhaseNames DEF OpenSocket, ReceiveFails, TestStop, EndCapture

\* Only its own thread, or its own start, changes a capture.
LEMMA OthersKept ==
  ASSUME TypeOK, NEW d \in Captures, StartCapture(d) \/ ThreadStep(d)
  PROVE  \A e \in Captures : e # d => capture'[e] = capture[e]
<1>1. CASE StartCapture(d)
  BY <1>1 DEF StartCapture, TypeOK
<1>2. CASE Receive(d)
  BY <1>2 DEF Receive, TypeOK
<1>3. CASE OpenSocket(d) \/ ReceiveFails(d) \/ EndCapture(d)
  <2>1. PICK p \in Phases : capture' = SetPhase(d, p)
    BY <1>3, ThreadPhases
  <2> QED
    BY <2>1, PhaseChange
<1> QED
  BY <1>1, <1>2, <1>3 DEF ThreadStep

LEMMA CapturesGoOn ==
  ASSUME TypeOK, BoxesWait, Next, NEW c \in Captures
  PROVE  Onwards(c)
<1>1. ASSUME NEW d \in Captures, StartCapture(d) \/ ThreadStep(d) PROVE Onwards(c)
  <2>1. \A e \in Captures : e # d => capture'[e] = capture[e]
    BY <1>1, OthersKept
  <2>2. CASE StartCapture(d)
    BY <2>1, <2>2 DEF StartCapture, Onwards, TypeOK
  <2>3. CASE Receive(d)
    BY <2>1, <2>3 DEF Receive, Onwards, TypeOK
  <2>4. CASE OpenSocket(d) \/ ReceiveFails(d) \/ EndCapture(d)
    <3>1. /\ capture[d].phase \notin {"ended", "free"} /\ capture'[d].phase # "free"
          /\ capture'[d].stale = capture[d].stale
      <4>1. PICK p \in Phases : p # "free" /\ capture' = SetPhase(d, p)
        BY <2>4, ThreadPhases
      <4> QED
        BY <4>1, <2>4, ThreadPhases, PhaseChange
    <3> QED
      BY <2>1, <3>1 DEF Onwards
  <2> QED
    BY <1>1, <2>2, <2>3, <2>4 DEF ThreadStep
<1>2. CASE CloseSnoop
  BY <1>2 DEF CloseSnoop, Onwards, TypeOK
<1>3. CASE AnswerBox
  <2>1. Head(boxes) \in Captures /\ capture[Head(boxes)].phase = "box"
    BY <1>3 DEF AnswerBox, BoxesWait, TypeOK
  <2>2. PICK b \in Captures : b = Head(boxes)
    BY <2>1
  <2>3. /\ \A e \in Captures : e # b => capture'[e] = capture[e]
        /\ capture'[b].phase = "answered" /\ capture'[b].stale = capture[b].stale
    <3>1. capture' = SetPhase(b, "answered") /\ "answered" \in Phases
      BY <1>3, <2>2, PhaseNames DEF AnswerBox
    <3> QED
      BY <3>1, PhaseChange
  <2> QED
    BY <2>1, <2>2, <2>3 DEF Onwards
<1>4. CASE UNCHANGED capture
  BY <1>4 DEF Onwards
<1> QED
  BY <1>1, <1>2, <1>3, <1>4
  DEF Next, OpenSnoop, JoinReturns, FreeData, DestroyMain, ExitMain, ShowFrame, ShowFrameLate

LEMMA BoxesWaitKept ==
  ASSUME TypeOK, BoxesWait, Next
  PROVE  BoxesWait'
<1>1. ASSUME NEW c \in Captures, capture[c].phase # "box",
             capture' = SetPhase(c, "box"), boxes' = <<c>> \o boxes
      PROVE  BoxesWait'
  <2>1. /\ Len(boxes') = Len(boxes) + 1 /\ boxes'[1] = c /\ Len(boxes) \in Nat
        /\ \A k \in 1 .. Len(boxes) : boxes'[k + 1] = boxes[k]
    <3>1. boxes \in Seq(Captures)
      BY DEF TypeOK
    <3>2. Len(boxes) \in Nat
      BY <3>1
    <3> QED
      BY <1>1, <3>1, <3>2, PutFirst
  <2>2. capture'[c].phase = "box" /\ \A d \in Captures : d # c => capture'[d] = capture[d]
    BY <1>1, SetPhaseFacts, PhaseNames
  <2>3. \A k \in 1 .. Len(boxes) : boxes[k] \in Captures /\ boxes[k] # c
    BY <1>1 DEF BoxesWait, TypeOK
  <2>4. \A k \in 1 .. Len(boxes') :
          k = 1 \/ (k - 1 \in 1 .. Len(boxes) /\ boxes'[k] = boxes[k - 1])
    <3> TAKE k \in 1 .. Len(boxes')
    <3>1. CASE k # 1
      <4>1. PICK m : m = k - 1
        OBVIOUS
      <4>2. m \in 1 .. Len(boxes) /\ k = m + 1
        BY <2>1, <3>1, <4>1
      <4> QED
        BY <2>1, <4>1, <4>2
    <3> QED
      BY <3>1
  <2>5. \A k \in 1 .. Len(boxes') : capture'[boxes'[k]].phase = "box"
    BY <2>1, <2>2, <2>3, <2>4 DEF BoxesWait
  <2>6. \A k, m \in 1 .. Len(boxes') : boxes'[m] = boxes'[k] => m = k
    <3> TAKE k, m \in 1 .. Len(boxes')
    <3>1. CASE k = 1 \/ m = 1
      BY <3>1, <2>1, <2>3, <2>4
    <3>2. CASE k # 1 /\ m # 1
      <4>1. boxes'[m] = boxes'[k] => m - 1 = k - 1
        BY <3>2, <2>4 DEF BoxesWait
      <4> QED
        BY <4>1, <2>1
    <3> QED
      BY <3>1, <3>2
  <2> QED
    BY <2>5, <2>6 DEF BoxesWait
<1>2. ASSUME NEW c \in Captures, NEW p \in Phases, capture[c].phase # "box",
             capture' = SetPhase(c, p), boxes' = boxes
      PROVE  BoxesWait'
  <2>1. \A k \in 1 .. Len(boxes) : boxes[k] \in Captures /\ boxes[k] # c
    BY <1>2 DEF BoxesWait, TypeOK
  <2>2. \A d \in Captures : d # c => capture'[d] = capture[d]
    BY <1>2, PhaseChange
  <2>3. \A k \in 1 .. Len(boxes) : capture'[boxes[k]] = capture[boxes[k]]
    BY <2>1, <2>2
  <2> QED
    BY <1>2, <2>3 DEF BoxesWait
<1>3. ASSUME boxes' = boxes, \A c \in Captures : capture'[c].phase = capture[c].phase
      PROVE  BoxesWait'
  BY <1>3 DEF BoxesWait, TypeOK
<1>4. ASSUME NEW c \in Captures, StartCapture(c) PROVE BoxesWait'
  <2>1. \A k \in 1 .. Len(boxes) : boxes[k] \in Captures /\ boxes[k] # c
    BY <1>4 DEF StartCapture, BoxesWait, TypeOK
  <2>2. \A d \in Captures : d # c => capture'[d] = capture[d]
    BY <1>4 DEF StartCapture, TypeOK
  <2>3. boxes' = boxes /\ \A k \in 1 .. Len(boxes) : capture'[boxes[k]] = capture[boxes[k]]
    BY <1>4, <2>1, <2>2 DEF StartCapture
  <2> QED
    BY <2>3 DEF BoxesWait
<1>5. ASSUME NEW c \in Captures, ThreadStep(c) PROVE BoxesWait'
  <2>1. CASE OpenSocket(c)
    BY <2>1, <1>1, <1>2, PhaseNames DEF OpenSocket
  <2>2. CASE Receive(c)
    BY <2>2, <1>3 DEF Receive, TypeOK
  <2>3. CASE ReceiveFails(c)
    BY <2>3, <1>1 DEF ReceiveFails, TestStop
  <2>4. CASE EndCapture(c)
    BY <2>4, <1>2, PhaseNames DEF EndCapture
  <2> QED
    BY <1>5, <2>1, <2>2, <2>3, <2>4 DEF ThreadStep
<1>6. CASE CloseSnoop
  BY <1>6, <1>3 DEF CloseSnoop, TypeOK
<1>7. CASE AnswerBox
  <2> DEFINE b == Head(boxes)
  <2>1. /\ b = boxes[1] /\ b \in Captures /\ Len(boxes) \in Nat \ {0}
        /\ boxes' = Tail(boxes) /\ Len(boxes') = Len(boxes) - 1
        /\ \A k \in 1 .. Len(boxes') : boxes'[k] = boxes[k + 1] /\ k + 1 \in 1 .. Len(boxes)
    BY <1>7 DEF AnswerBox, TypeOK
  <2>2. \A d \in Captures : d # b => capture'[d] = capture[d]
    BY <1>7, <2>1, SetPhaseFacts, PhaseNames DEF AnswerBox
  <2>3. \A k \in 1 .. Len(boxes') : boxes'[k] \in Captures /\ boxes'[k] # b
    BY <2>1 DEF BoxesWait, TypeOK
  <2> HIDE DEF b
  <2>4. \A k \in 1 .. Len(boxes') : capture'[boxes'[k]].phase = "box"
    BY <2>1, <2>2, <2>3 DEF BoxesWait
  <2>5. \A k, m \in 1 .. Len(boxes') : boxes'[m] = boxes'[k] => m = k
    <3> TAKE k, m \in 1 .. Len(boxes')
    <3>1. boxes'[m] = boxes'[k] => m + 1 = k + 1
      BY <2>1 DEF BoxesWait
    <3> QED
      BY <3>1, <2>1
  <2> QED
    BY <2>4, <2>5 DEF BoxesWait
<1>8. CASE UNCHANGED <<capture, boxes>>
  BY <1>8 DEF BoxesWait
<1> QED
  BY <1>4, <1>5, <1>6, <1>7, <1>8
  DEF Next, OpenSnoop, JoinReturns, FreeData, DestroyMain, ExitMain, ShowFrame, ShowFrameLate

----------------------------------------------------------------------------
(* The handlers that clicks pile up on the button                          *)

JoinOf(c) == [call |-> "join", of |-> c]

\* Each "free" comes right after the "join" of its capture; when that "join" has
\* returned, the capture has ended.
FreesFollowJoins ==
  /\ \A k \in 1 .. Len(handlers) :
       handlers[k].call = "free" => k > 1 /\ handlers[k - 1] = JoinOf(handlers[k].of)
  /\ \A k \in 1 .. Len(destroying) :
       destroying[k].call = "free" =>
         \/ k = 1 /\ capture[destroying[k].of].phase = "ended"
         \/ k > 1 /\ destroying[k - 1] = JoinOf(destroying[k].of)

\* A capture under way is still to be joined: by the destruction that is going on
\* if its view is being destroyed, otherwise by the one to come.
JoinsPending == \A c \in Captures :
  /\ capture[c].phase = "free" => ~ capture[c].stale
  /\ capture[c].phase \notin {"free", "ended"} =>
       IF capture[c].stale
       THEN \E k \in 1 .. Len(destroying) : destroying[k] = JoinOf(c)
       ELSE \E k \in 1 .. Len(handlers) : handlers[k] = JoinOf(c)

\* The queue of handlers loses its head.
LEMMA HeadGone ==
  ASSUME TypeOK, destroying # <<>>, destroying' = Tail(destroying)
  PROVE  /\ Len(destroying) \in Nat /\ Len(destroying) >= 1 /\ Len(destroying') = Len(destroying) - 1
         /\ Head(destroying) = destroying[1] /\ destroying[1] \in Handlers
         /\ \A k \in 1 .. Len(destroying') : /\ k + 1 \in 1 .. Len(destroying)
                                             /\ destroying'[k] = destroying[k + 1]
         /\ \A k \in 1 .. Len(destroying) : k # 1 => /\ k - 1 \in 1 .. Len(destroying')
                                                     /\ destroying'[k - 1] = destroying[k]
<1>1. destroying \in Seq(Handlers)
  BY DEF TypeOK
<1>2. Len(destroying) \in Nat /\ Len(destroying) >= 1 /\ Len(destroying') = Len(destroying) - 1
        /\ Head(destroying) = destroying[1] /\ destroying[1] \in Handlers
  BY <1>1
<1>3. \A k \in 1 .. Len(destroying') : k + 1 \in 1 .. Len(destroying) /\ destroying'[k] = destroying[k + 1]
  BY <1>1
<1>4. \A k \in 1 .. Len(destroying) : k # 1 =>
        k - 1 \in 1 .. Len(destroying') /\ destroying'[k - 1] = destroying[k]
  BY <1>1
<1> QED
  BY <1>2, <1>3, <1>4

LEMMA HandlersConcat ==
  ASSUME NEW s \in Seq(Handlers), NEW t \in Seq(Handlers)
  PROVE  /\ Len(s \o t) = Len(s) + Len(t)
         /\ \A k \in 1 .. Len(s) : (s \o t)[k] = s[k]
         /\ \A k \in 1 .. Len(t) : (s \o t)[Len(s) + k] = t[k]
  OBVIOUS

\* What StartCapture adds to the handlers.
LEMMA HandlersAdded ==
  ASSUME TypeOK, NEW c \in Captures, StartCapture(c)
  PROVE  /\ Len(handlers) \in Nat /\ Len(handlers') = Len(handlers) + 2
         /\ \A k \in 1 .. Len(handlers) : k \in 1 .. Len(handlers') /\ handlers'[k] = handlers[k]
         /\ handlers'[Len(handlers) + 1] = JoinOf(c)
         /\ handlers'[Len(handlers) + 2] = [call |-> "free", of |-> c]
<1>1. handlers \in Seq(Handlers) /\ handlers' = handlers \o OnDestroy(c)
  BY DEF TypeOK, StartCapture
<1>2. /\ OnDestroy(c) \in Seq(Handlers) /\ Len(OnDestroy(c)) = 2
      /\ OnDestroy(c)[1] = JoinOf(c) /\ OnDestroy(c)[2] = [call |-> "free", of |-> c]
  BY OnDestroyType DEF JoinOf
<1>3. /\ Len(handlers \o OnDestroy(c)) = Len(handlers) + Len(OnDestroy(c))
      /\ \A k \in 1 .. Len(handlers) : (handlers \o OnDestroy(c))[k] = handlers[k]
      /\ \A k \in 1 .. Len(OnDestroy(c)) :
           (handlers \o OnDestroy(c))[Len(handlers) + k] = OnDestroy(c)[k]
  BY <1>1, <1>2, HandlersConcat
<1>4. Len(handlers) \in Nat
  BY <1>1
<1> QED
  BY <1>1, <1>2, <1>3, <1>4

LEMMA FreesFollowJoinsKept ==
  ASSUME TypeOK, BoxesWait, FreesFollowJoins, Next
  PROVE  FreesFollowJoins'
<1>1. ASSUME NEW c \in Captures, StartCapture(c) PROVE FreesFollowJoins'
  <2>1. /\ Len(handlers) \in Nat /\ Len(handlers') = Len(handlers) + 2
        /\ \A k \in 1 .. Len(handlers) : k \in 1 .. Len(handlers') /\ handlers'[k] = handlers[k]
        /\ handlers'[Len(handlers) + 1] = JoinOf(c)
        /\ handlers'[Len(handlers) + 2] = [call |-> "free", of |-> c]
    BY <1>1, HandlersAdded
  <2>2. ASSUME NEW k \in 1 .. Len(handlers'), handlers'[k].call = "free"
        PROVE  k > 1 /\ handlers'[k - 1] = JoinOf(handlers'[k].of)
    <3>1. CASE k \in 1 .. Len(handlers)
      <4>1. k > 1 /\ handlers[k - 1] = JoinOf(handlers[k].of)
        BY <2>1, <2>2, <3>1 DEF FreesFollowJoins
      <4>2. k - 1 \in 1 .. Len(handlers)
        BY <2>1, <3>1, <4>1
      <4> QED
        BY <2>1, <3>1, <4>1, <4>2
    <3>2. CASE k = Len(handlers) + 1
      BY <3>2, <2>1, <2>2 DEF JoinOf
    <3>3. CASE k = Len(handlers) + 2
      <4>1. k - 1 = Len(handlers) + 1 /\ k > 1
        BY <3>3, <2>1
      <4> QED
        BY <3>3, <4>1, <2>1
    <3> QED
      BY <2>1, <3>1, <3>2, <3>3
  <2>3. destroying' = destroying
        /\ \A d \in Captures : capture[d].phase = "ended" => capture'[d].phase = "ended"
    BY <1>1, CapturesGoOn DEF StartCapture, Onwards, Next
  <2>4. \A k \in 1 .. Len(destroying) : destroying[k].of \in Captures
    <3>1. \A k \in 1 .. Len(destroying) : destroying[k] \in Handlers
      BY DEF TypeOK
    <3> QED
      BY <3>1 DEF Handlers
  <2> QED
    BY <2>2, <2>3, <2>4 DEF FreesFollowJoins
<1>2. CASE CloseSnoop
  <2>1. destroying' = handlers /\ handlers' = <<>>
    BY <1>2 DEF CloseSnoop
  <2> QED
    BY <2>1 DEF FreesFollowJoins
<1>3. CASE JoinReturns \/ FreeData
  <2>1. /\ destroying # <<>> /\ destroying' = Tail(destroying)
        /\ handlers' = handlers /\ capture' = capture
    BY <1>3 DEF JoinReturns, FreeData, HandlersAfterCall
  <2>2. /\ Len(destroying) \in Nat /\ Len(destroying) >= 1
        /\ Head(destroying) = destroying[1]
        /\ \A k \in 1 .. Len(destroying') : /\ k + 1 \in 1 .. Len(destroying)
                                            /\ destroying'[k] = destroying[k + 1]
    BY <2>1, HeadGone
  <2>3. ASSUME NEW k \in 1 .. Len(destroying'), destroying'[k].call = "free"
        PROVE  \/ k = 1 /\ capture'[destroying'[k].of].phase = "ended"
               \/ k > 1 /\ destroying'[k - 1] = JoinOf(destroying'[k].of)
    <3>1. PICK m : m = k + 1
      OBVIOUS
    <3>2. m \in 1 .. Len(destroying) /\ destroying'[k] = destroying[m] /\ m > 1 /\ m - 1 = k
      BY <2>2, <3>1
    <3>3. destroying[k] = JoinOf(destroying[m].of)
      BY <2>3, <3>2 DEF FreesFollowJoins
    <3>4. CASE k = 1
      <4>1. Head(destroying).call = "join" /\ Head(destroying).of = destroying[m].of
        BY <2>2, <3>3, <3>4 DEF JoinOf
      <4> QED
        BY <1>3, <4>1, <3>2, <3>4, <2>1 DEF JoinReturns, FreeData
    <3>5. CASE k # 1
      <4>1. PICK n : n = k - 1
        OBVIOUS
      <4>2. n \in 1 .. Len(destroying') /\ n + 1 = k
        BY <3>5, <4>1
      <4>3. destroying'[n] = destroying[k]
        BY <4>2, <2>2
      <4> QED
        BY <4>1, <4>3, <3>2, <3>3, <3>5
    <3> QED
      BY <3>4, <3>5
  <2> QED
    BY <2>1, <2>3 DEF FreesFollowJoins
<1>4. CASE UNCHANGED <<handlers, destroying>>
  <2>1. \A d \in Captures : capture[d].phase = "ended" => capture'[d].phase = "ended"
    BY CapturesGoOn DEF Onwards
  <2>2. \A k \in 1 .. Len(destroying) : destroying[k].of \in Captures
    <3>1. \A k \in 1 .. Len(destroying) : destroying[k] \in Handlers
      BY DEF TypeOK
    <3> QED
      BY <3>1 DEF Handlers
  <2> QED
    BY <1>4, <2>1, <2>2 DEF FreesFollowJoins
<1> QED
  BY <1>1, <1>2, <1>3, <1>4
  DEF Next, OpenSnoop, ThreadStep, OpenSocket, Receive, ReceiveFails, EndCapture,
      DestroyMain, ExitMain, AnswerBox, ShowFrame, ShowFrameLate

\* What keeps the queues of handlers keeps what is pending.
LEMMA PendingWhenQueuesKept ==
  ASSUME JoinsPending, UNCHANGED <<handlers, destroying>>,
         NEW c \in Captures, capture[c].phase # "free", Onwards(c),
         capture'[c].stale = capture[c].stale
  PROVE  /\ capture'[c].phase = "free" => ~ capture'[c].stale
         /\ capture'[c].phase \notin {"free", "ended"} =>
              IF capture'[c].stale
              THEN \E k \in 1 .. Len(destroying') : destroying'[k] = JoinOf(c)
              ELSE \E k \in 1 .. Len(handlers') : handlers'[k] = JoinOf(c)
  BY DEF JoinsPending, Onwards

LEMMA JoinsPendingKept ==
  ASSUME TypeOK, BoxesWait, JoinsPending, Next
  PROVE  JoinsPending'
<1>1. ASSUME NEW d \in Captures, StartCapture(d) PROVE JoinsPending'
  <2>1. /\ destroying' = destroying
        /\ Len(handlers) \in Nat /\ Len(handlers') = Len(handlers) + 2
        /\ \A k \in 1 .. Len(handlers) : k \in 1 .. Len(handlers') /\ handlers'[k] = handlers[k]
        /\ handlers'[Len(handlers) + 1] = JoinOf(d)
    BY <1>1, HandlersAdded DEF StartCapture
  <2>2. \A c \in Captures : c # d => capture'[c] = capture[c]
    BY <1>1, OthersKept
  <2>3. capture'[d].phase = "starting" /\ ~ capture'[d].stale
    BY <1>1 DEF StartCapture, JoinsPending, TypeOK
  <2>4. \E k \in 1 .. Len(handlers') : handlers'[k] = JoinOf(d)
    BY <2>1
  <2> QED
    BY <2>1, <2>2, <2>3, <2>4 DEF JoinsPending
<1>2. ASSUME NEW d \in Captures, ThreadStep(d) PROVE JoinsPending'
  <2>1. UNCHANGED <<handlers, destroying>>
    BY <1>2 DEF ThreadStep, OpenSocket, Receive, ReceiveFails, EndCapture
  <2>2. \A c \in Captures : c # d => capture'[c] = capture[c]
    BY <1>2, OthersKept
  <2>3. Onwards(d)
    BY <1>2, CapturesGoOn DEF Next
  <2>4. capture[d].phase # "free" /\ capture'[d].stale = capture[d].stale
    <3>1. CASE Receive(d)
      BY <3>1 DEF Receive, TestStop, TypeOK
    <3>2. CASE OpenSocket(d) \/ ReceiveFails(d) \/ EndCapture(d)
      <4>1. PICK p \in Phases : capture' = SetPhase(d, p)
        BY <3>2, ThreadPhases
      <4> QED
        BY <4>1, <3>2, ThreadPhases, PhaseChange
    <3> QED
      BY <1>2, <3>1, <3>2 DEF ThreadStep
  <2> QED
    BY <2>1, <2>2, <2>3, <2>4, PendingWhenQueuesKept DEF JoinsPending
<1>3. CASE CloseSnoop
  <2>1. destroying = <<>> /\ destroying' = handlers
    BY <1>3 DEF CloseSnoop, InputAllowed, LoopFree
  <2>2. \A c \in Captures :
          /\ capture'[c].phase = capture[c].phase
          /\ capture'[c].stale <=> (capture[c].stale \/ capture[c].phase # "free")
    BY <1>3 DEF CloseSnoop, TypeOK
  <2> QED
    BY <2>1, <2>2 DEF JoinsPending
<1>4. CASE JoinReturns \/ FreeData
  <2>1. /\ destroying # <<>> /\ destroying' = Tail(destroying)
        /\ handlers' = handlers /\ capture' = capture
    BY <1>4 DEF JoinReturns, FreeData, HandlersAfterCall
  <2>2. /\ Head(destroying) = destroying[1]
        /\ \A k \in 1 .. Len(destroying) : k # 1 => /\ k - 1 \in 1 .. Len(destroying')
                                                    /\ destroying'[k - 1] = destroying[k]
    BY <2>1, HeadGone
  <2>3. ASSUME NEW c \in Captures, capture[c].phase # "ended",
               NEW k \in 1 .. Len(destroying), destroying[k] = JoinOf(c)
        PROVE  \E m \in 1 .. Len(destroying') : destroying'[m] = JoinOf(c)
    <3>1. k # 1
      BY <1>4, <2>2, <2>3 DEF JoinReturns, FreeData, JoinOf
    <3> QED
      BY <3>1, <2>2, <2>3
  <2> QED
    BY <2>1, <2>3 DEF JoinsPending
<1>5. CASE AnswerBox
  <2>1. PICK b \in Captures : b = Head(boxes) /\ capture[b].phase = "box"
    BY <1>5 DEF AnswerBox, BoxesWait, TypeOK
  <2>2. capture' = SetPhase(b, "answered") /\ UNCHANGED <<handlers, destroying>>
    BY <1>5, <2>1 DEF AnswerBox
  <2>3. /\ \A c \in Captures : c # b => capture'[c] = capture[c]
        /\ capture'[b].stale = capture[b].stale
    BY <2>2, PhaseChange, PhaseNames
  <2>4. Onwards(b)
    BY CapturesGoOn
  <2> QED
    BY <2>1, <2>2, <2>3, <2>4, PendingWhenQueuesKept DEF JoinsPending
<1>6. CASE UNCHANGED <<capture, handlers, destroying>>
  BY <1>6 DEF JoinsPending
<1> QED
  BY <1>1, <1>2, <1>3, <1>4, <1>5, <1>6
  DEF Next, OpenSnoop, DestroyMain, ExitMain, ShowFrame, ShowFrameLate

----------------------------------------------------------------------------
(* Data and late frames                                                    *)

LEMMA DataOutlivesKept ==
  ASSUME TypeOK, BoxesWait, FreesFollowJoins, DataOutlivesThread, Next
  PROVE  DataOutlivesThread'
<1>1. \A c \in Captures : capture[c].phase = "ended" => capture'[c].phase = "ended"
  BY CapturesGoOn DEF Onwards
<1>2. CASE FreeData
  <2>1. PICK d \in Captures : d = Head(destroying).of /\ Head(destroying) = destroying[1]
                              /\ 1 \in 1 .. Len(destroying) /\ destroying[1].call = "free"
    <3>1. Head(destroying) = destroying[1] /\ destroying[1] \in Handlers /\ 1 \in 1 .. Len(destroying)
      BY <1>2, HeadGone DEF FreeData, HandlersAfterCall
    <3> QED
      BY <1>2, <3>1 DEF FreeData, Handlers
  <2>2. capture[d].phase = "ended"
    BY <2>1 DEF FreesFollowJoins
  <2> QED
    BY <1>2, <2>1, <2>2 DEF FreeData, DataOutlivesThread, TypeOK
<1>3. ASSUME NEW c \in Captures, StartCapture(c) PROVE DataOutlivesThread'
  BY <1>1, <1>3 DEF StartCapture, DataOutlivesThread, TypeOK
<1>4. ASSUME NEW c \in Captures, Receive(c) \/ ReceiveFails(c) PROVE DataOutlivesThread'
  BY <1>1, <1>4 DEF Receive, ReceiveFails, TestStop, DataOutlivesThread
<1>5. CASE ShowFrameLate
  BY <1>1, <1>5 DEF ShowFrameLate, Undefined, DataOutlivesThread
<1>6. CASE UNCHANGED <<data, fault>>
  BY <1>1, <1>6 DEF DataOutlivesThread
<1> QED
  BY <1>2, <1>3, <1>4, <1>5, <1>6
  DEF Next, OpenSnoop, ThreadStep, OpenSocket, EndCapture, CloseSnoop, JoinReturns,
      DestroyMain, ExitMain, AnswerBox, ShowFrame

\* When the main loop is free, no capture of a destroyed view is under way.
LEMMA FreeLoopMeansJoined ==
  ASSUME TypeOK, JoinsPending, LoopFree, NEW c \in Captures, capture[c].stale
  PROVE  capture[c].phase = "ended"
<1>1. \A k \in 1 .. Len(destroying) : FALSE
  BY DEF LoopFree
<1> QED
  BY <1>1 DEF JoinsPending

FaultNeedsFailure ==
  fault = "view" => \E c \in Captures : capture[c].stale /\ capture[c].phase = "ended"

LEMMA FaultNeedsFailureKept ==
  ASSUME TypeOK, BoxesWait, JoinsPending, DataOutlivesThread, FaultNeedsFailure, Next
  PROVE  FaultNeedsFailure'
<1>1. \A c \in Captures : /\ capture[c].phase = "ended" => capture'[c].phase = "ended"
                          /\ capture[c].stale => capture'[c].stale
  BY CapturesGoOn DEF Onwards
<1>2. CASE ShowFrameLate
  <2>1. PICK c \in Captures : c = Head(idle)[1]
    BY <1>2 DEF ShowFrameLate, TypeOK
  <2>2. capture[c].stale /\ capture[c].phase = "ended"
    BY <1>2, <2>1, FreeLoopMeansJoined DEF ShowFrameLate
  <2> QED
    BY <1>1, <2>2 DEF FaultNeedsFailure
<1>3. ASSUME NEW c \in Captures, Receive(c) \/ ReceiveFails(c) PROVE FaultNeedsFailure'
  BY <1>1, <1>3 DEF Receive, ReceiveFails, TestStop, DataOutlivesThread, FaultNeedsFailure
<1>4. CASE UNCHANGED fault
  BY <1>1, <1>4 DEF FaultNeedsFailure
<1> QED
  BY <1>2, <1>3, <1>4
  DEF Next, OpenSnoop, StartCapture, ThreadStep, OpenSocket, EndCapture, CloseSnoop,
      JoinReturns, FreeData, DestroyMain, ExitMain, AnswerBox, ShowFrame

LEMMA LateFrames ==
  ASSUME TypeOK, JoinsPending, FaultNeedsFailure
  PROVE  LateFramesNeedFailure
<1>1. \A k \in 1 .. Len(idle) : idle[k][1] \in Captures
  BY DEF TypeOK
<1> QED
  BY <1>1, FreeLoopMeansJoined DEF LateFramesNeedFailure, FaultNeedsFailure

----------------------------------------------------------------------------
(* The frames between the threads and the view                             *)

\* NothingLost, for one capture and a queue.
Waiting(c, n) == \E k \in 1 .. Len(idle) : idle[k] = <<c, n>>
InOrder(c) ==
  \A k \in 1 .. Len(idle) : idle[k][1] = c =>
    /\ idle[k][2] \in shown[c] + 1 .. capture[c].received
    /\ \A m \in 1 .. k - 1 : idle[m][1] = c => idle[m][2] < idle[k][2]
AllQueued(c) ==
  /\ \A n \in shown[c] + 1 .. capture[c].received : Waiting(c, n)
  /\ InOrder(c)

LEMMA NothingLostByCapture ==
  NothingLost <=> \A c \in Captures : ~ capture[c].stale => AllQueued(c)
  BY DEF NothingLost, AllQueued, Waiting, InOrder

LEMMA NothingLostByCapturePrimed ==
  NothingLost' <=> \A c \in Captures : ~ capture'[c].stale => AllQueued(c)'
  BY DEF NothingLost, AllQueued, Waiting, InOrder

ShownReceived == \A c \in Captures : shown[c] <= capture[c].received

LEMMA FrameNumbers ==
  ASSUME TypeOK, NEW c \in Captures
  PROVE  shown[c] \in Nat /\ capture[c].received \in Nat
<1>1. shown[c] \in 0 .. MaxFrames /\ capture[c].received \in 0 .. MaxFrames
  BY DEF TypeOK
<1> QED
  BY <1>1, SnoopAssumption

LEMMA FirstFrame ==
  ASSUME TypeOK, 1 \in 1 .. Len(idle)
  PROVE  \E d \in Captures, n \in 1 .. MaxFrames : idle[1] = <<d, n>>
<1>1. idle \in Seq(Captures \X (1 .. MaxFrames))
  BY DEF TypeOK
<1>2. idle[1] \in Captures \X (1 .. MaxFrames)
  BY <1>1
<1> QED
  BY <1>2

\* The queue of frames loses its head.
LEMMA FrameGone ==
  ASSUME TypeOK, idle # <<>>, idle' = Tail(idle)
  PROVE  /\ Len(idle) \in Nat /\ Len(idle) >= 1 /\ Len(idle') = Len(idle) - 1
         /\ Head(idle) = idle[1]
         /\ \A k \in 1 .. Len(idle') : k + 1 \in 1 .. Len(idle) /\ idle'[k] = idle[k + 1]
         /\ \A k \in 1 .. Len(idle) : k # 1 => /\ k - 1 \in 1 .. Len(idle')
                                               /\ idle'[k - 1] = idle[k]
<1>1. idle \in Seq(Captures \X (1 .. MaxFrames))
  BY DEF TypeOK
<1>2. Len(idle) \in Nat /\ Len(idle) >= 1 /\ Len(idle') = Len(idle) - 1 /\ Head(idle) = idle[1]
  BY <1>1
<1>3. \A k \in 1 .. Len(idle') : k + 1 \in 1 .. Len(idle) /\ idle'[k] = idle[k + 1]
  BY <1>1
<1>4. \A k \in 1 .. Len(idle) : k # 1 => k - 1 \in 1 .. Len(idle') /\ idle'[k - 1] = idle[k]
  BY <1>1
<1> QED
  BY <1>2, <1>3, <1>4

\* What is behind the head keeps its order, and so its place among the frames of
\* its capture, when the frames shown are those before it.
LEMMA OrderBehindHead ==
  ASSUME TypeOK, idle # <<>>, idle' = Tail(idle), capture' = capture,
         NEW c \in Captures, InOrder(c),
         \A k \in 1 .. Len(idle') :
           idle'[k][1] = c => idle'[k][2] \in shown'[c] + 1 .. capture[c].received
  PROVE  InOrder(c)'
<1>1. \A k \in 1 .. Len(idle') : k + 1 \in 1 .. Len(idle) /\ idle'[k] = idle[k + 1]
  BY FrameGone
<1>2. ASSUME NEW k \in 1 .. Len(idle'), idle'[k][1] = c,
             NEW m \in 1 .. k - 1, idle'[m][1] = c
      PROVE  idle'[m][2] < idle'[k][2]
  <2>1. PICK p, q : p = k + 1 /\ q = m + 1
    OBVIOUS
  <2>2. m \in 1 .. Len(idle')
    OBVIOUS
  <2>3. /\ p \in 1 .. Len(idle) /\ idle'[k] = idle[p]
        /\ q \in 1 .. Len(idle) /\ idle'[m] = idle[q]
    BY <1>1, <2>1, <2>2
  <2>4. q \in 1 .. p - 1
    BY <2>1
  <2> QED
    BY <1>2, <2>3, <2>4 DEF InOrder
<1> QED
  BY <1>2 DEF InOrder

LEMMA ReceiveLosesNothing ==
  ASSUME TypeOK, NothingLost, ShownReceived, NEW d \in Captures, Receive(d)
  PROVE  NothingLost'
<1> DEFINE f == <<d, capture[d].received + 1>>
<1>1. idle' = Append(idle, f) /\ shown' = shown
  BY DEF Receive, Queue
<1>2. f \in Captures \X (1 .. MaxFrames) /\ capture[d].received \in Nat
  BY SnoopAssumption DEF Receive, TypeOK
<1>3. idle \in Seq(Captures \X (1 .. MaxFrames))
  BY DEF TypeOK
<1>4. f[1] = d /\ f[2] = capture[d].received + 1
  OBVIOUS
<1> HIDE DEF f
<1>5. /\ Len(idle) \in Nat /\ Len(idle') = Len(idle) + 1 /\ idle'[Len(idle) + 1] = f
      /\ \A k \in 1 .. Len(idle) : k \in 1 .. Len(idle') /\ idle'[k] = idle[k]
  BY <1>1, <1>2, <1>3
<1>6. /\ \A c \in Captures : c # d => capture'[c] = capture[c]
      /\ capture'[d].received = capture[d].received + 1
      /\ capture'[d].stale = capture[d].stale
  BY DEF Receive, TypeOK
<1>7. ASSUME NEW c \in Captures, ~ capture'[c].stale PROVE AllQueued(c)'
  <2>1. AllQueued(c) /\ shown[c] \in Nat /\ capture[c].received \in Nat
    <3>1. ~ capture[c].stale
      BY <1>6, <1>7
    <3> QED
      BY <3>1, NothingLostByCapture, FrameNumbers
  <2>2. \A n : Waiting(c, n) => Waiting(c, n)'
    BY <1>5 DEF Waiting
  <2>3. ASSUME NEW n \in shown'[c] + 1 .. capture'[c].received PROVE Waiting(c, n)'
    <3>1. CASE n \in shown[c] + 1 .. capture[c].received
      BY <3>1, <2>1, <2>2 DEF AllQueued
    <3>2. CASE ~ (n \in shown[c] + 1 .. capture[c].received)
      <4>1. c = d /\ n = capture[d].received + 1
        BY <3>2, <2>1, <2>3, <1>1, <1>6
      <4>2. f = <<c, n>>
        BY <4>1 DEF f
      <4> QED
        BY <4>2, <1>5 DEF Waiting
    <3> QED
      BY <3>1, <3>2
  <2>4. InOrder(c)'
    <3>1. ASSUME NEW k \in 1 .. Len(idle'), idle'[k][1] = c
          PROVE  /\ idle'[k][2] \in shown'[c] + 1 .. capture'[c].received
                 /\ \A m \in 1 .. k - 1 : idle'[m][1] = c => idle'[m][2] < idle'[k][2]
      <4>1. CASE k \in 1 .. Len(idle)
        <5>1. idle'[k] = idle[k] /\ \A m \in 1 .. k - 1 : idle'[m] = idle[m]
          BY <4>1, <1>5
        <5>2. /\ idle[k][2] \in shown[c] + 1 .. capture[c].received
              /\ \A m \in 1 .. k - 1 : idle[m][1] = c => idle[m][2] < idle[k][2]
          BY <4>1, <5>1, <3>1, <2>1 DEF AllQueued, InOrder
        <5>3. capture'[c].received \in {capture[c].received, capture[c].received + 1}
          BY <1>6
        <5> QED
          BY <5>1, <5>2, <5>3, <2>1, <1>1
      <4>2. CASE k = Len(idle) + 1
        <5>1. idle'[k] = f /\ c = d
          BY <4>2, <1>4, <1>5, <3>1
        <5>2. ASSUME NEW m \in 1 .. k - 1, idle'[m][1] = c
              PROVE  idle'[m][2] < idle'[k][2]
          <6>1. m \in 1 .. Len(idle) /\ idle'[m] = idle[m]
            BY <4>2, <1>5
          <6>2. idle[m][2] \in shown[c] + 1 .. capture[c].received
            BY <5>2, <6>1, <2>1 DEF AllQueued, InOrder
          <6> QED
            BY <6>1, <6>2, <5>1, <1>4, <2>1
        <5>3. shown[c] <= capture[c].received
          BY DEF ShownReceived
        <5>4. idle'[k][2] \in shown'[c] + 1 .. capture'[c].received
          BY <5>1, <5>3, <1>1, <1>4, <1>6, <2>1
        <5> QED
          BY <5>2, <5>4
      <4> QED
        BY <4>1, <4>2, <1>5
    <3> QED
      BY <3>1 DEF InOrder
  <2> QED
    BY <2>3, <2>4 DEF AllQueued
<1> QED
  BY <1>7, NothingLostByCapturePrimed

LEMMA ShowLosesNothing ==
  ASSUME TypeOK, NothingLost, ShowFrame \/ ShowFrameLate
  PROVE  NothingLost'
<1>1. /\ idle # <<>> /\ idle' = Tail(idle) /\ capture' = capture
  BY DEF ShowFrame, ShowFrameLate, IdleAfterCall
<1>2. /\ Head(idle) = idle[1] /\ 1 \in 1 .. Len(idle)
      /\ \A k \in 1 .. Len(idle') : k + 1 \in 1 .. Len(idle) /\ idle'[k] = idle[k + 1]
      /\ \A k \in 1 .. Len(idle) : k # 1 => k - 1 \in 1 .. Len(idle') /\ idle'[k - 1] = idle[k]
  BY <1>1, FrameGone
<1>3. PICK d \in Captures, n \in 1 .. MaxFrames : idle[1] = <<d, n>>
  BY <1>2, FirstFrame
<1>4. /\ \A c \in Captures : c # d \/ capture[d].stale => shown'[c] = shown[c]
      /\ ~ capture[d].stale => shown'[d] = n
  BY <1>2, <1>3, SnoopAssumption DEF ShowFrame, ShowFrameLate, TypeOK
<1>5. ASSUME NEW c \in Captures, ~ capture'[c].stale PROVE AllQueued(c)'
  <2>1. AllQueued(c) /\ shown[c] \in Nat /\ capture[c].received \in Nat /\ n \in Nat
    BY <1>1, <1>5, NothingLostByCapture, SnoopAssumption DEF TypeOK
  <2>2. CASE c # d
    <3>1. shown'[c] = shown[c]
      BY <2>2, <1>4
    <3>2. \A m : Waiting(c, m) => Waiting(c, m)'
      <4>1. ASSUME NEW m, NEW k \in 1 .. Len(idle), idle[k] = <<c, m>> PROVE k # 1
        BY <4>1, <1>3, <2>2
      <4> QED
        BY <4>1, <1>2 DEF Waiting
    <3>3. \A k \in 1 .. Len(idle') :
            idle'[k][1] = c => idle'[k][2] \in shown'[c] + 1 .. capture[c].received
      <4> SUFFICES ASSUME NEW k \in 1 .. Len(idle'), idle'[k][1] = c
                   PROVE  idle'[k][2] \in shown[c] + 1 .. capture[c].received
        BY <3>1
      <4>1. PICK p : p = k + 1
        OBVIOUS
      <4>2. p \in 1 .. Len(idle) /\ idle'[k] = idle[p]
        BY <1>2, <4>1
      <4> QED
        BY <2>1, <4>2 DEF AllQueued, InOrder
    <3>4. InOrder(c)'
      BY <1>1, <2>1, <3>3, OrderBehindHead DEF AllQueued
    <3> QED
      BY <1>1, <2>1, <3>1, <3>2, <3>4 DEF AllQueued
  <2>3. CASE c = d
    <3>1. shown'[c] = n /\ n \in shown[c] + 1 .. capture[c].received
      BY <1>1, <1>2, <1>3, <1>4, <1>5, <2>1, <2>3 DEF AllQueued, InOrder
    <3>2. ASSUME NEW m \in shown'[c] + 1 .. capture[c].received PROVE Waiting(c, m)'
      <4>1. m \in shown[c] + 1 .. capture[c].received /\ m # n
        BY <2>1, <3>1
      <4>2. PICK k \in 1 .. Len(idle) : idle[k] = <<c, m>>
        BY <4>1, <2>1 DEF AllQueued, Waiting
      <4>3. k # 1
        BY <4>1, <4>2, <1>3
      <4> QED
        BY <4>2, <4>3, <1>2 DEF Waiting
    <3>3. ASSUME NEW k \in 1 .. Len(idle'), idle'[k][1] = c
          PROVE  idle'[k][2] \in shown'[c] + 1 .. capture[c].received
      <4>1. PICK p : p = k + 1
        OBVIOUS
      <4>2. p \in 1 .. Len(idle) /\ idle'[k] = idle[p] /\ 1 \in 1 .. p - 1
        BY <1>2, <4>1
      <4>3. /\ idle[p][2] \in shown[c] + 1 .. capture[c].received
            /\ idle[1][2] < idle[p][2]
        BY <4>2, <3>3, <1>3, <2>1, <2>3 DEF AllQueued, InOrder
      <4> QED
        BY <4>2, <4>3, <1>3, <2>1, <3>1
    <3>4. InOrder(c)'
      BY <1>1, <2>1, <3>3, OrderBehindHead DEF AllQueued
    <3> QED
      BY <1>1, <3>2, <3>4 DEF AllQueued
  <2> QED
    BY <2>2, <2>3
<1> QED
  BY <1>5, NothingLostByCapturePrimed

LEMMA NothingLostKept ==
  ASSUME TypeOK, BoxesWait, JoinsPending, NothingLost, ShownReceived, Next
  PROVE  NothingLost' /\ ShownReceived'
<1>1. ASSUME NEW d \in Captures, Receive(d) PROVE NothingLost' /\ ShownReceived'
  <2>1. /\ \A c \in Captures : c # d => capture'[c] = capture[c]
        /\ capture'[d].received = capture[d].received + 1 /\ shown' = shown
    BY <1>1 DEF Receive, TypeOK
  <2>2. \A c \in Captures : shown[c] \in Nat /\ capture[c].received \in Nat
    BY SnoopAssumption DEF TypeOK
  <2> QED
    BY <1>1, <2>1, <2>2, ReceiveLosesNothing DEF ShownReceived
<1>2. CASE ShowFrame \/ ShowFrameLate
  <2>1. ShownReceived'
    <3>1. CASE ShowFrameLate
      BY <3>1 DEF ShowFrameLate, ShownReceived
    <3>2. CASE ShowFrame
      <4>1. Head(idle) = idle[1] /\ 1 \in 1 .. Len(idle)
        BY <3>2, FrameGone DEF ShowFrame, IdleAfterCall
      <4>2. PICK d \in Captures, n \in 1 .. MaxFrames : idle[1] = <<d, n>>
        BY <4>1, FirstFrame
      <4>3. ~ capture[d].stale
        BY <3>2, <4>1, <4>2 DEF ShowFrame
      <4>4. n <= capture[d].received
        <5>1. AllQueued(d) /\ shown[d] \in Nat /\ capture[d].received \in Nat
          BY <4>3, NothingLostByCapture, FrameNumbers
        <5>2. n \in shown[d] + 1 .. capture[d].received
          BY <4>1, <4>2, <5>1 DEF AllQueued, InOrder
        <5> QED
          BY <5>1, <5>2
      <4>5. capture' = capture /\ shown' = [shown EXCEPT ![d] = n]
        <5>1. Head(idle)[1] = d /\ Head(idle)[2] = n
          BY <4>1, <4>2
        <5>2. shown' = [shown EXCEPT ![Head(idle)[1]] = Head(idle)[2]]
          BY <3>2 DEF ShowFrame
        <5>3. capture' = capture
          BY <3>2 DEF ShowFrame
        <5> QED
          BY <5>1, <5>2, <5>3
      <4> QED
        BY <4>4, <4>5 DEF ShownReceived, TypeOK
    <3> QED
      BY <1>2, <3>1, <3>2
  <2> QED
    BY <1>2, <2>1, ShowLosesNothing
<1>3. ASSUME UNCHANGED <<idle, shown>>,
             \A c \in Captures : /\ capture'[c].received = capture[c].received
                                 /\ capture[c].stale => capture'[c].stale
      PROVE  NothingLost' /\ ShownReceived'
  BY <1>3 DEF NothingLost, ShownReceived
<1>4. \A c \in Captures : capture[c].stale => capture'[c].stale
  BY CapturesGoOn DEF Onwards
<1>5. ASSUME NEW d \in Captures, StartCapture(d) PROVE NothingLost' /\ ShownReceived'
  <2>1. \A c \in Captures : capture'[c].received = capture[c].received
    BY <1>5 DEF StartCapture, TypeOK
  <2> QED
    BY <1>3, <1>4, <1>5, <2>1 DEF StartCapture
<1>6. ASSUME NEW d \in Captures, OpenSocket(d) \/ ReceiveFails(d) \/ EndCapture(d)
      PROVE  NothingLost' /\ ShownReceived'
  <2>1. PICK p \in Phases : capture' = SetPhase(d, p)
    BY <1>6, ThreadPhases
  <2>2. \A c \in Captures : capture'[c].received = capture[c].received
    BY <2>1, PhaseChange
  <2>3. UNCHANGED <<idle, shown>>
    BY <1>6 DEF OpenSocket, ReceiveFails, EndCapture
  <2> QED
    BY <1>3, <1>4, <2>2, <2>3
<1>7. CASE AnswerBox
  <2>1. PICK b \in Captures : b = Head(boxes)
    BY <1>7 DEF AnswerBox, TypeOK
  <2>2. \A c \in Captures : capture'[c].received = capture[c].received
    BY <1>7, <2>1, PhaseChange, PhaseNames DEF AnswerBox
  <2> QED
    BY <1>3, <1>4, <1>7, <2>2 DEF AnswerBox
<1>8. CASE CloseSnoop
  <2>1. \A c \in Captures : capture'[c].received = capture[c].received
    BY <1>8 DEF CloseSnoop, TypeOK
  <2> QED
    BY <1>3, <1>4, <1>8, <2>1 DEF CloseSnoop
<1>9. CASE UNCHANGED <<capture, idle, shown>>
  BY <1>3, <1>9
<1> QED
  BY <1>1, <1>2, <1>5, <1>6, <1>7, <1>8, <1>9
  DEF Next, OpenSnoop, ThreadStep, JoinReturns, FreeData, DestroyMain, ExitMain

----------------------------------------------------------------------------
(* The invariant and the safety theorems                                   *)

\* The slot of the registry holds the window that exists.
SlotIsLive == window = live

Inv ==
  /\ TypeOK
  /\ BoxesWait
  /\ FreesFollowJoins
  /\ JoinsPending
  /\ DataOutlivesThread
  /\ FaultNeedsFailure
  /\ NothingLost
  /\ ShownReceived
  /\ SlotIsLive

LEMMA InitInv == Init => Inv
<1> SUFFICES ASSUME Init PROVE Inv
  OBVIOUS
<1>1. \A c \in Captures : /\ capture[c].phase = "free" /\ ~ capture[c].stale
                          /\ capture[c].received = 0 /\ shown[c] = 0 /\ data[c] = "none"
  BY DEF Init
<1>2. idle = <<>> /\ handlers = <<>> /\ destroying = <<>> /\ boxes = <<>> /\ fault = "none"
  BY DEF Init
<1>3. BoxesWait /\ FreesFollowJoins /\ JoinsPending
  BY <1>1, <1>2 DEF BoxesWait, FreesFollowJoins, JoinsPending
<1>4. DataOutlivesThread /\ FaultNeedsFailure /\ ShownReceived
  BY <1>1, <1>2 DEF DataOutlivesThread, FaultNeedsFailure, ShownReceived
<1>5. NothingLost
  BY <1>1, <1>2 DEF NothingLost
<1> QED
  BY <1>3, <1>4, <1>5, InitTypeOK DEF Inv, SlotIsLive, Init

LEMMA SlotIsLiveKept ==
  ASSUME SlotIsLive, Next
  PROVE  SlotIsLive'
<1>1. CASE UNCHANGED <<window, live>>
  BY <1>1 DEF SlotIsLive
<1>2. CASE \E w \in Windows : OpenSnoop(w)
  BY <1>2 DEF OpenSnoop, SlotIsLive
<1>3. CASE CloseSnoop
  BY <1>3 DEF CloseSnoop, WindowAfterClose, SlotIsLive
<1>4. CASE \E c \in Captures : StartCapture(c)
  BY <1>1, <1>4 DEF StartCapture
<1>5. CASE \E c \in Captures : ThreadStep(c)
  BY <1>1, <1>5 DEF ThreadStep, OpenSocket, Receive, ReceiveFails, EndCapture
<1>6. CASE JoinReturns \/ FreeData \/ DestroyMain \/ ExitMain
  BY <1>1, <1>6 DEF JoinReturns, FreeData, DestroyMain, ExitMain
<1>7. CASE AnswerBox \/ ShowFrame \/ ShowFrameLate
  BY <1>1, <1>7 DEF AnswerBox, ShowFrame, ShowFrameLate
<1> QED
  BY <1>2, <1>3, <1>4, <1>5, <1>6, <1>7 DEF Next

LEMMA StutterInv ==
  ASSUME Inv, UNCHANGED vars
  PROVE  Inv'
<1>1. TypeOK'
  BY DEF Inv, TypeOK, vars
<1>2. BoxesWait'
  BY DEF Inv, BoxesWait, vars
<1>3. FreesFollowJoins'
  BY DEF Inv, FreesFollowJoins, vars
<1>4. JoinsPending'
  BY DEF Inv, JoinsPending, vars
<1>5. DataOutlivesThread' /\ FaultNeedsFailure'
  BY DEF Inv, DataOutlivesThread, FaultNeedsFailure, vars
<1>6. NothingLost'
  BY DEF Inv, NothingLost, vars
<1>7. ShownReceived' /\ SlotIsLive'
  BY DEF Inv, ShownReceived, SlotIsLive, vars
<1> QED
  BY <1>1, <1>2, <1>3, <1>4, <1>5, <1>6, <1>7 DEF Inv

LEMMA NextInv == Inv /\ [Next]_vars => Inv'
<1>1. ASSUME Inv, Next PROVE Inv'
  BY <1>1, NextTypeOK, BoxesWaitKept, FreesFollowJoinsKept, JoinsPendingKept, DataOutlivesKept,
     FaultNeedsFailureKept, NothingLostKept, SlotIsLiveKept DEF Inv
<1> QED
  BY <1>1, StutterInv

\* However many captures share a view, no frame is lost, repeated or overtaken
\* between the threads and the view.
THEOREM NoFrameIsLost == Spec => []NothingLost
<1>1. Inv => NothingLost
  BY DEF Inv
<1> QED
  BY InitInv, NextInv, <1>1, PTL DEF Spec

\* However many handlers the clicks have piled up on the button, no thread reads
\* its data after it was freed.
THEOREM ThreadsHaveTheirData == Spec => []DataOutlivesThread
<1>1. Inv => DataOutlivesThread
  BY DEF Inv
<1> QED
  BY InitInv, NextInv, <1>1, PTL DEF Spec

\* A frame meets a destroyed view only after its capture has ended in an error.
THEOREM LateFramesAreOfFailures == Spec => []LateFramesNeedFailure
<1>1. Inv => LateFramesNeedFailure
  BY LateFrames DEF Inv
<1> QED
  BY InitInv, NextInv, <1>1, PTL DEF Spec

----------------------------------------------------------------------------
(* Closing the window during a capture                                     *)

LEMMA StuckStays ==
  ASSUME TypeOK, Stuck, Next
  PROVE  Stuck'
<1>1. PICK b \in Captures : b = Head(destroying).of
  <2>1. destroying \in Seq(Handlers) /\ destroying # <<>>
    BY DEF TypeOK, Stuck
  <2>2. Head(destroying) \in Handlers
    BY <2>1
  <2> QED
    BY <2>2 DEF Handlers
<1>2. /\ destroying # <<>> /\ Head(destroying).call = "join"
      /\ capture[b].phase \in {"starting", "running", "box"} /\ ~ LoopFree
  BY <1>1 DEF Stuck, LoopFree
<1>3. ASSUME UNCHANGED destroying, capture'[b].phase \in {"starting", "running", "box"}
      PROVE  Stuck'
  BY <1>1, <1>2, <1>3 DEF Stuck
<1>4. ASSUME NEW d \in Captures, ThreadStep(d) PROVE Stuck'
  <2>1. UNCHANGED destroying
    BY <1>4 DEF ThreadStep, OpenSocket, Receive, ReceiveFails, EndCapture
  <2>2. CASE d # b
    <3>1. capture'[b] = capture[b]
      BY <1>4, <2>2, OthersKept
    <3> QED
      BY <1>2, <1>3, <2>1, <3>1
  <2>3. CASE d = b /\ Receive(d)
    <3>1. capture'[b].phase = capture[b].phase
      BY <2>3 DEF Receive, TypeOK
    <3> QED
      BY <1>2, <1>3, <2>1, <3>1
  <2>4. CASE d = b /\ (OpenSocket(d) \/ ReceiveFails(d))
    <3>1. capture' = SetPhase(b, "running") \/ capture' = SetPhase(b, "box")
      BY <2>4 DEF OpenSocket, ReceiveFails
    <3>2. capture'[b].phase \in {"running", "box"}
      BY <3>1, PhaseChange, PhaseNames
    <3> QED
      BY <1>3, <2>1, <3>2
  <2>5. ~ (d = b /\ EndCapture(d))
    BY <1>2 DEF EndCapture
  <2> QED
    BY <1>4, <2>2, <2>3, <2>4, <2>5 DEF ThreadStep
<1>5. /\ \A w \in Windows : ~ OpenSnoop(w)
      /\ \A c \in Captures : ~ StartCapture(c)
      /\ ~ CloseSnoop /\ ~ DestroyMain /\ ~ AnswerBox /\ ~ ShowFrame /\ ~ ShowFrameLate
  BY <1>2
  DEF OpenSnoop, StartCapture, CloseSnoop, DestroyMain, InputAllowed, AnswerBox, ShowFrame,
      ShowFrameLate
<1>6. ~ JoinReturns /\ ~ FreeData
  BY <1>1, <1>2 DEF JoinReturns, FreeData
<1>7. CASE ExitMain
  BY <1>2, <1>3, <1>7 DEF ExitMain
<1> QED
  BY <1>4, <1>5, <1>6, <1>7 DEF Next

\* Closing the window while one of its captures is under way blocks the main loop
\* for good, whatever the number of captures and whatever the user then does.
THEOREM ClosingBlocksForEver == Spec => ClosingBlocks
<1>1. Inv /\ [Next]_vars => (Stuck => Stuck') \/ UNCHANGED vars
  BY StuckStays DEF Inv
<1> QED
  BY InitInv, NextInv, <1>1, PTL DEF Spec, ClosingBlocks

----------------------------------------------------------------------------
(* The window in the registry                                              *)

\* The array and the window table of the registry, as this module sees them.
SlotsOf(w) == [i \in 0 .. SlotCount - 1 |-> IF i = SnoopTool THEN w ELSE NULL]
ToolOf(x) == [w \in Windows |-> IF w = x THEN SnoopTool ELSE NULL]

LEMMA ToolOfChanges ==
  ASSUME NEW w \in Windows
  PROVE  /\ ToolOf(w) = [ToolOf(NULL) EXCEPT ![w] = SnoopTool]
         /\ ToolOf(NULL) = [ToolOf(w) EXCEPT ![w] = NULL]
<1>1. \A x \in Windows : x # NULL
  BY SnoopAssumption
<1>2. \A x \in Windows : /\ ToolOf(w)[x] = (IF x = w THEN SnoopTool ELSE NULL)
                         /\ ToolOf(NULL)[x] = NULL
  BY <1>1 DEF ToolOf
<1>3. \A x \in Windows : ToolOf(w)[x] = [ToolOf(NULL) EXCEPT ![w] = SnoopTool][x]
  BY <1>2 DEF ToolOf
<1>4. \A x \in Windows : ToolOf(NULL)[x] = [ToolOf(w) EXCEPT ![w] = NULL][x]
  BY <1>2 DEF ToolOf
<1> QED
  BY <1>3, <1>4 DEF ToolOf

LEMMA InitRegistry == Init => Registry!InterfaceInit
<1> SUFFICES ASSUME Init PROVE Registry!InterfaceInit
  OBVIOUS
<1>1. window = NULL /\ live = NULL /\ loop = "running"
  BY DEF Init
<1>2. \A w \in Windows : w # NULL
  BY SnoopAssumption
<1> QED
  BY <1>1, <1>2 DEF Registry!InterfaceInit, Registry!Slots

LEMMA OpenIsOpenWindow ==
  ASSUME Inv, NEW w \in Windows, OpenSnoop(w)
  PROVE  Registry!OpenWindow(SnoopTool, w)
<1>1. /\ loop = "running" /\ loop' = loop
      /\ window = NULL /\ live = NULL /\ window' = w /\ live' = w
  BY DEF OpenSnoop, InputAllowed, LoopFree, Inv, SlotIsLive
<1>2. SnoopTool \in 0 .. SlotCount - 1 /\ w # NULL
  BY SnoopAssumption
<1>3. SlotsOf(w) = [SlotsOf(NULL) EXCEPT ![SnoopTool] = w]
  BY <1>2 DEF SlotsOf
<1>4. ToolOf(w) = [ToolOf(NULL) EXCEPT ![w] = SnoopTool]
  BY ToolOfChanges
<1>5. SlotsOf(NULL)[SnoopTool] = NULL /\ ToolOf(NULL)[w] = NULL
  BY <1>2 DEF SlotsOf, ToolOf
<1> QED
  BY <1>1, <1>3, <1>4, <1>5 DEF Registry!OpenWindow, Registry!Live, SlotsOf, ToolOf

LEMMA CloseIsDestroyWindow ==
  ASSUME Inv, CloseSnoop
  PROVE  \E w \in Windows : Registry!DestroyWindow(w)
<1> PICK w \in Windows : w = live
  BY DEF CloseSnoop, Inv, TypeOK
<1>1. /\ loop = "running" /\ loop' = loop
      /\ live = w /\ window = w /\ window' = NULL /\ live' = NULL
  BY DEF CloseSnoop, WindowAfterClose, InputAllowed, LoopFree, Inv, SlotIsLive
<1>2. /\ SnoopTool \in 0 .. SlotCount - 1 /\ SnoopTool \in Int /\ SnoopTool # NULL
      /\ w # NULL
  BY <1>1, SnoopAssumption
<1>3. ToolOf(w)[w] = SnoopTool
  BY <1>1 DEF ToolOf
<1>4. ToolOf(NULL) = [ToolOf(w) EXCEPT ![w] = NULL]
  BY ToolOfChanges
<1>5. \A i \in 0 .. SlotCount - 1 : SlotsOf(w)[i] = w <=> i = SnoopTool
  BY <1>2 DEF SlotsOf
<1>6. SlotsOf(NULL) =
        [i \in 0 .. SlotCount - 1 |->
           IF /\ SlotsOf(w)[i] = w
              /\ \A j \in 0 .. SlotCount - 1 : SlotsOf(w)[j] = w => i <= j
           THEN NULL
           ELSE SlotsOf(w)[i]]
  BY <1>2, <1>5 DEF SlotsOf
<1> QED
  BY <1>1, <1>2, <1>3, <1>4, <1>6
  DEF Registry!DestroyWindow, Registry!Live, Registry!ClearSlot, Registry!Slots, SlotsOf, ToolOf

LEMMA StepIsRegistryStep ==
  ASSUME Inv, Next
  PROVE  Registry!InterfaceNext \/ UNCHANGED Registry!interfaceVars
<1>1. CASE \E w \in Windows : OpenSnoop(w)
  BY <1>1, OpenIsOpenWindow DEF Registry!InterfaceNext
<1>2. CASE CloseSnoop
  BY <1>2, CloseIsDestroyWindow DEF Registry!InterfaceNext
<1>3. CASE DestroyMain
  <2>1. loop = "running" /\ loop' = "quitting" /\ UNCHANGED <<window, live>>
    BY <1>3 DEF DestroyMain, InputAllowed, LoopFree
  <2>2. Registry!DestroyMain
    BY <2>1 DEF Registry!DestroyMain
  <2> QED
    BY <2>2 DEF Registry!InterfaceNext
<1>4. CASE ExitMain
  <2>1. loop = "quitting" /\ loop' = "exited" /\ UNCHANGED <<window, live>>
    BY <1>4 DEF ExitMain
  <2>2. Registry!ExitMain
    BY <2>1 DEF Registry!ExitMain
  <2> QED
    BY <2>2 DEF Registry!InterfaceNext
<1>5. CASE ShowFrameLate /\ loop' = "exited"
  <2>1. loop = "running" /\ UNCHANGED <<window, live>>
    BY <1>5 DEF ShowFrameLate, LoopFree
  <2>2. Registry!Abort
    BY <1>5, <2>1 DEF Registry!Abort
  <2> QED
    BY <2>2 DEF Registry!InterfaceNext
<1>6. CASE UNCHANGED <<window, live, loop>>
  BY <1>6 DEF Registry!interfaceVars
<1>7. CASE ShowFrameLate /\ loop' = "running"
  BY <1>6, <1>7 DEF ShowFrameLate, LoopFree
<1>8. CASE \E c \in Captures : StartCapture(c)
  BY <1>6, <1>8 DEF StartCapture
<1>9. CASE \E c \in Captures : ThreadStep(c)
  BY <1>6, <1>9 DEF ThreadStep, OpenSocket, Receive, ReceiveFails, EndCapture
<1>10. CASE JoinReturns \/ FreeData \/ AnswerBox \/ ShowFrame
  BY <1>6, <1>10 DEF JoinReturns, FreeData, AnswerBox, ShowFrame
<1>11. ShowFrameLate => loop' \in {"running", "exited"}
  BY DEF ShowFrameLate
<1> QED
  BY <1>1, <1>2, <1>3, <1>4, <1>5, <1>7, <1>8, <1>9, <1>10, <1>11 DEF Next

\* With any number of windows, captures and frames, the capture window is a tool
\* window of the registry: its opening, its closing and the end of the process are
\* steps of Interface, all else stutters.
THEOREM SnoopUsesTheRegistry == Spec => ImplementsInterface
<1>1. Inv /\ [Next]_vars => [Registry!InterfaceNext]_Registry!interfaceVars
  <2>1. CASE UNCHANGED vars
    BY <2>1 DEF vars, Registry!interfaceVars
  <2> QED
    BY <2>1, StepIsRegistryStep
<1> QED
  BY InitInv, NextInv, InitRegistry, <1>1, PTL
  DEF Spec, ImplementsInterface, Registry!InterfaceSpec

=============================================================================
