-------------------------- MODULE DDoSWatcherProofs --------------------------
(***************************************************************************)
(* Theorems about the flood detector.  The type invariant and what the     *)
(* fields and the boxes may do hold for any number of watchers; that an    *)
(* alert is about the packets of its interval holds for one watcher alone, *)
(* as two share the counter and the list without a lock.  What must be     *)
(* added to make these inductive is which threads a box may set going      *)
(* (BoxesWait), which hold a packet (HandledInRing), and what the counter, *)
(* the start of the interval and the list mean at each point of            *)
(* packetHandler, the three being reset one after the other.               *)
(***************************************************************************)
EXTENDS DDoSWatcher, FiniteSetTheorems, TLAPS

OneWatcher == \E w : Watchers = {w}

----------------------------------------------------------------------------
(* The inductive invariants                                                *)

Counted == [by : Watchers, packet : Packets, handled : 0 .. MaxTime]

CountedType == counted \in Seq(Counted)

\* A watcher that handles a packet has it at the head of its ring.
HandledInRing == \A w \in Watchers :
  watcher[w].phase \in Handling \union {"alerted", "reported", "blocked"} => ring[w] # <<>>

\* A watcher has one box at most, and waits for its answer.
BoxesWait ==
  /\ \A k \in 1 .. Len(boxes) : boxes[k] # NULL => watcher[boxes[k]].phase \in Waiting
  /\ \A j, k \in 1 .. Len(boxes) : boxes[j] = boxes[k] /\ boxes[k] # NULL => j = k

TypeInv == TypeOK /\ CountedType /\ HandledInRing /\ BoxesWait

\* Until its thread has read them, the fields are those initWatcher checked.
CheckedFieldsKept == \A w \in Watchers :
  watcher[w].phase = "starting" /\ ~ watcher[w].stale =>
    open /\ (watcher[w].edited \/ Valid)

HasteInv == CheckedFieldsKept /\ RefusedValuesNeedHaste

\* Nothing is counted or listed before the loop of the one capture.
QuietBefore == \A w \in Watchers :
  watcher[w].phase \in {"free", "starting", "opening", "announced", "filtering"} =>
    counted = <<>> /\ ip_count = 0

CountIsExact ==
  /\ packet_count = Len(counted)
  /\ \A w \in Watchers : watcher[w].phase = "storing" => watcher[w].read = packet_count

\* Every packet counted was handled in the interval, and the packet in hand is in
\* the interval once the reset is done.
CountedInInterval ==
  /\ \A k \in 1 .. Len(counted) :
       counted[k].handled \in start_time .. start_time + Interval - 1
  /\ start_time <= clock
  /\ \A w \in Watchers :
       /\ watcher[w].current_time <= clock
       /\ watcher[w].phase \in {"reset_time", "reset_ips"} => counted = <<>>
       /\ watcher[w].phase \in {"reset_ips", "noting", "appending", "counting", "storing"} =>
            watcher[w].current_time \in start_time .. start_time + Interval - 1

InHand(w, s) ==
  watcher[w].phase \in {"counting", "storing"} /\ s = Packet(w).seen

IsCounted(s) == \E k \in 1 .. Len(counted) : counted[k].packet.seen = s

\* No address is twice in the list, none is 0.0.0.0, and each is that of a packet
\* counted, or of the packet in hand.
ListIsSound ==
  /\ \A i, j \in 0 .. ip_count - 1 : suspicious_ips[i] = suspicious_ips[j] => i = j
  /\ \A i \in 0 .. ip_count - 1 : suspicious_ips[i] # NULL
  /\ \A w \in Watchers : watcher[w].phase \notin {"reset_time", "reset_ips"} =>
       \A i \in 0 .. ip_count - 1 :
         IsCounted(suspicious_ips[i]) \/ InHand(w, suspicious_ips[i])
  /\ \A w \in Watchers : watcher[w].phase = "appending" =>
       /\ watcher[w].read = ip_count /\ ip_count < MaxIps
       /\ Packet(w).seen # NULL /\ ~ Found(Packet(w).seen)

\* An address that is not in the list found it full.
ListIsComplete ==
  /\ \A k \in 1 .. Len(counted) :
       LET s == counted[k].packet.seen
       IN  s = NULL \/ Found(s) \/ ip_count = MaxIps
  /\ \A w \in Watchers : watcher[w].phase \in {"counting", "storing"} =>
       LET s == Packet(w).seen
       IN  s = NULL \/ Found(s) \/ ip_count = MaxIps

\* The loop over the list has blocked the addresses before its index.
BlockedSoFar == \A w \in Watchers :
  /\ watcher[w].phase \in {"alerted", "blocking", "blocked"} => watcher[w].i <= ip_count
  /\ watcher[w].phase = "alerted" => watcher[w].i = 0
  /\ watcher[w].phase \in {"blocking", "blocked"} =>
       \A n \in 0 .. watcher[w].i - 1 : suspicious_ips[n] \in blocked

IntervalInv ==
  /\ QuietBefore /\ CountIsExact /\ CountedInInterval
  /\ ListIsSound /\ ListIsComplete /\ BlockedSoFar
  /\ fault # "index"

----------------------------------------------------------------------------
(* How a step changes what a thread keeps                                  *)

Thr == [phase : Phases, edited : BOOLEAN, stale : BOOLEAN,
        port : Ports \union {0}, threshold : Thresholds \union {0},
        current_time : 0 .. MaxTime, i : 0 .. MaxIps, read : Nat, got : 0 .. MaxPackets]

ThrType == watcher \in [Watchers -> Thr]

LEMMA TypeGivesThr == TypeOK => ThrType
  BY DEF TypeOK, ThrType, Thr

LEMMA ConstantTypes ==
  /\ Interval \in Nat /\ Interval > 0 /\ MaxIps \in Nat /\ MaxIps > 0
  /\ RingSize \in Nat /\ RingSize > 0 /\ MaxPackets \in Nat /\ MaxTime \in Nat
  BY WatcherAssumption

\* The phases in which a thread holds a packet, and those in which it waits.
Holding == Handling \union {"alerted", "reported", "blocked"}

LEMMA PhaseNames ==
  /\ Handling \subseteq Phases /\ Waiting \subseteq Phases
  /\ {"free", "starting", "opening", "filtering", "looping", "ended"} \subseteq Phases
  /\ {"free", "starting", "opening", "filtering", "looping", "ended", "announced"}
       \intersect Holding = {}
  /\ {"free", "starting", "opening", "filtering", "looping", "ended"} \intersect Waiting = {}
  /\ Handling \intersect Waiting = {}
  BY DEF Phases, Handling, Waiting, Holding

\* Changing the phase of one thread changes nothing else of any.
LEMMA GotoFacts ==
  ASSUME ThrType, NEW w \in Watchers, NEW p \in Phases, Goto(w, p)
  PROVE  /\ ThrType'
         /\ watcher'[w].phase = p
         /\ \A v \in Watchers \ {w} : watcher'[v] = watcher[v]
         /\ \A v \in Watchers :
              /\ watcher'[v].edited = watcher[v].edited
              /\ watcher'[v].stale = watcher[v].stale
              /\ watcher'[v].port = watcher[v].port
              /\ watcher'[v].threshold = watcher[v].threshold
              /\ watcher'[v].current_time = watcher[v].current_time
              /\ watcher'[v].i = watcher[v].i
              /\ watcher'[v].read = watcher[v].read
              /\ watcher'[v].got = watcher[v].got
<1>1. watcher[w] \in Thr /\ DOMAIN watcher = Watchers
  BY DEF ThrType
<1>2. watcher' = [watcher EXCEPT ![w] = [watcher[w] EXCEPT !.phase = p]]
  BY DEF Goto
<1>3. [watcher[w] EXCEPT !.phase = p] \in Thr
  BY <1>1 DEF Thr
<1>4. watcher'[w] = [watcher[w] EXCEPT !.phase = p]
  BY <1>1, <1>2 DEF ThrType
<1>5. \A v \in Watchers \ {w} : watcher'[v] = watcher[v]
  BY <1>1, <1>2 DEF ThrType
<1>6. ThrType'
  BY <1>2, <1>3 DEF ThrType
<1>7. watcher'[w].phase = p /\ watcher'[w].edited = watcher[w].edited
      /\ watcher'[w].stale = watcher[w].stale /\ watcher'[w].port = watcher[w].port
      /\ watcher'[w].threshold = watcher[w].threshold
      /\ watcher'[w].current_time = watcher[w].current_time
      /\ watcher'[w].i = watcher[w].i /\ watcher'[w].read = watcher[w].read
      /\ watcher'[w].got = watcher[w].got
  BY <1>1, <1>4 DEF Thr
<1> QED
  BY <1>5, <1>6, <1>7

\* Closing the window or editing a field only marks threads.
LEMMA MarkFacts ==
  ASSUME ThrType, CloseWindow \/ \E f \in Forms : Edit(f)
  PROVE  /\ ThrType'
         /\ \A v \in Watchers :
              /\ watcher'[v].phase = watcher[v].phase
              /\ watcher[v].edited => watcher'[v].edited
              /\ watcher[v].stale => watcher'[v].stale
              /\ watcher'[v].port = watcher[v].port
              /\ watcher'[v].threshold = watcher[v].threshold
              /\ watcher'[v].current_time = watcher[v].current_time
              /\ watcher'[v].i = watcher[v].i
              /\ watcher'[v].read = watcher[v].read
<1>1. ASSUME NEW v \in Watchers PROVE watcher[v] \in Thr
  BY DEF ThrType
<1>2. CASE CloseWindow
  <2>1. ASSUME NEW v \in Watchers
        PROVE  watcher'[v] = [watcher[v] EXCEPT !.stale = @ \/ watcher[v].phase = "starting"]
    BY <1>2, <2>1 DEF CloseWindow
  <2>2. ASSUME NEW v \in Watchers
        PROVE  /\ watcher'[v] \in Thr
               /\ watcher'[v].phase = watcher[v].phase
               /\ watcher[v].edited => watcher'[v].edited
               /\ watcher[v].stale => watcher'[v].stale
               /\ watcher'[v].port = watcher[v].port
               /\ watcher'[v].threshold = watcher[v].threshold
               /\ watcher'[v].current_time = watcher[v].current_time
               /\ watcher'[v].i = watcher[v].i
               /\ watcher'[v].read = watcher[v].read
    <3> DEFINE b == watcher[v].stale \/ watcher[v].phase = "starting"
    <3>1. b \in BOOLEAN /\ (watcher[v].stale => b)
      OBVIOUS
    <3>2. watcher'[v] = [watcher[v] EXCEPT !.stale = b]
      BY <2>1
    <3> HIDE DEF b
    <3> QED
      BY <1>1, <3>1, <3>2 DEF Thr
  <2>3. watcher' = [v \in Watchers |-> watcher'[v]]
    BY <1>2 DEF CloseWindow
  <2> QED
    BY <2>2, <2>3 DEF ThrType
<1>3. CASE \E f \in Forms : Edit(f)
  <2>1. ASSUME NEW v \in Watchers
        PROVE  watcher'[v] = [watcher[v] EXCEPT !.edited = @ \/ watcher[v].phase = "starting"]
    BY <1>3, <2>1 DEF Edit
  <2>2. ASSUME NEW v \in Watchers
        PROVE  /\ watcher'[v] \in Thr
               /\ watcher'[v].phase = watcher[v].phase
               /\ watcher[v].edited => watcher'[v].edited
               /\ watcher[v].stale => watcher'[v].stale
               /\ watcher'[v].port = watcher[v].port
               /\ watcher'[v].threshold = watcher[v].threshold
               /\ watcher'[v].current_time = watcher[v].current_time
               /\ watcher'[v].i = watcher[v].i
               /\ watcher'[v].read = watcher[v].read
    <3> DEFINE b == watcher[v].edited \/ watcher[v].phase = "starting"
    <3>1. b \in BOOLEAN /\ (watcher[v].edited => b)
      OBVIOUS
    <3>2. watcher'[v] = [watcher[v] EXCEPT !.edited = b]
      BY <2>1
    <3> HIDE DEF b
    <3> QED
      BY <1>1, <3>1, <3>2 DEF Thr
  <2>3. watcher' = [v \in Watchers |-> watcher'[v]]
    BY <1>3 DEF Edit
  <2> QED
    BY <2>2, <2>3 DEF ThrType
<1> QED
  BY <1>2, <1>3

\* The new fields of one thread that takes a step.
LEMMA ThrFacts ==
  ASSUME ThrType, NEW w \in Watchers, NEW r \in Thr, watcher' = [watcher EXCEPT ![w] = r]
  PROVE  ThrType' /\ watcher'[w] = r /\ \A v \in Watchers \ {w} : watcher'[v] = watcher[v]
  BY DEF ThrType

\* The fields of a thread that its step leaves alone, and the other threads.
Others(w) == \A v \in Watchers \ {w} : watcher'[v] = watcher[v]

Start(w) ==
  /\ watcher'[w].edited = watcher[w].edited
  /\ watcher'[w].stale = watcher[w].stale
  /\ watcher'[w].port = watcher[w].port
  /\ watcher'[w].threshold = watcher[w].threshold

LEMMA ReadFieldsThr ==
  ASSUME ThrType, NEW w \in Watchers, NEW f \in Fields,
         watcher' = [watcher EXCEPT ![w].phase = "opening", ![w].port = f.port,
                                    ![w].threshold = f.seuil]
  PROVE  /\ ThrType' /\ Others(w) /\ watcher'[w].phase = "opening"
         /\ watcher'[w].edited = watcher[w].edited
         /\ watcher'[w].stale = watcher[w].stale
         /\ watcher'[w].port = f.port /\ watcher'[w].threshold = f.seuil
         /\ watcher'[w].current_time = watcher[w].current_time
         /\ watcher'[w].i = watcher[w].i /\ watcher'[w].read = watcher[w].read
<1>1. watcher[w] \in Thr /\ "opening" \in Phases
  BY PhaseNames DEF ThrType
<1>2. f.port \in Ports \union {0} /\ f.seuil \in Thresholds \union {0}
  BY DEF Fields
<1> QED
  BY <1>1, <1>2 DEF ThrType, Thr, Others

LEMMA AlertThr ==
  ASSUME ThrType, NEW w \in Watchers,
         watcher' = [watcher EXCEPT ![w].phase = "alerted", ![w].i = 0]
  PROVE  /\ ThrType' /\ Others(w) /\ Start(w) /\ watcher'[w].phase = "alerted"
         /\ watcher'[w].i = 0
         /\ watcher'[w].current_time = watcher[w].current_time
<1>1. watcher[w] \in Thr /\ "alerted" \in Phases /\ 0 \in 0 .. MaxIps
  BY PhaseNames, WatcherAssumption DEF ThrType, Waiting
<1> QED
  BY <1>1 DEF ThrType, Thr, Others, Start

LEMMA BlockIpThr ==
  ASSUME ThrType, NEW w \in Watchers, NEW n \in 0 .. MaxIps,
         watcher' = [watcher EXCEPT ![w].phase = "blocked", ![w].i = n]
  PROVE  /\ ThrType' /\ Others(w) /\ Start(w) /\ watcher'[w].phase = "blocked"
         /\ watcher'[w].i = n
         /\ watcher'[w].current_time = watcher[w].current_time
<1>1. watcher[w] \in Thr /\ "blocked" \in Phases
  BY PhaseNames DEF ThrType, Waiting
<1> QED
  BY <1>1 DEF ThrType, Thr, Others, Start

LEMMA HandleThr ==
  ASSUME ThrType, NEW w \in Watchers, NEW p \in {"judging", "noting"},
         clock \in 0 .. MaxTime,
         watcher' = [watcher EXCEPT ![w].current_time = clock, ![w].phase = p]
  PROVE  /\ ThrType' /\ Others(w) /\ Start(w) /\ watcher'[w].phase = p
         /\ watcher'[w].current_time = clock
         /\ watcher'[w].i = watcher[w].i
<1>1. watcher[w] \in Thr /\ p \in Phases
  BY PhaseNames DEF ThrType, Handling
<1> QED
  BY <1>1 DEF ThrType, Thr, Others, Start

LEMMA ReadThr ==
  ASSUME ThrType, NEW w \in Watchers, NEW p \in Phases, NEW n \in Nat,
         watcher' = [watcher EXCEPT ![w].phase = p, ![w].read = n]
  PROVE  /\ ThrType' /\ Others(w) /\ Start(w) /\ watcher'[w].phase = p
         /\ watcher'[w].read = n
         /\ watcher'[w].current_time = watcher[w].current_time
         /\ watcher'[w].i = watcher[w].i
<1>1. watcher[w] \in Thr
  BY DEF ThrType
<1> QED
  BY <1>1 DEF ThrType, Thr, Others, Start

LEMMA StoreThr ==
  ASSUME ThrType, NEW w \in Watchers,
         watcher' = [watcher EXCEPT ![w].phase = "looping", ![w].current_time = 0,
                                    ![w].i = 0, ![w].read = 0]
  PROVE  /\ ThrType' /\ Others(w) /\ Start(w) /\ watcher'[w].phase = "looping"
         /\ watcher'[w].current_time = 0
<1>1. watcher[w] \in Thr /\ "looping" \in Phases
  BY PhaseNames DEF ThrType
<1>2. 0 \in 0 .. MaxTime /\ 0 \in 0 .. MaxIps
  BY WatcherAssumption
<1> QED
  BY <1>1, <1>2 DEF ThrType, Thr, Others, Start

LEMMA ArriveThr ==
  ASSUME ThrType, NEW w \in Watchers, watcher[w].got < MaxPackets,
         watcher' = [watcher EXCEPT ![w].got = @ + 1]
  PROVE  /\ ThrType' /\ Others(w) /\ Start(w)
         /\ watcher'[w].phase = watcher[w].phase
         /\ watcher'[w].current_time = watcher[w].current_time
         /\ watcher'[w].i = watcher[w].i /\ watcher'[w].read = watcher[w].read
<1>1. watcher[w] \in Thr
  BY DEF ThrType
<1>2. watcher[w].got + 1 \in 0 .. MaxPackets
  BY <1>1, WatcherAssumption DEF Thr
<1> DEFINE n == watcher[w].got + 1
<1>3. watcher' = [watcher EXCEPT ![w] = [watcher[w] EXCEPT !.got = n]]
  OBVIOUS
<1>4. n \in 0 .. MaxPackets
  BY <1>2
<1> HIDE DEF n
<1> QED
  BY <1>1, <1>3, <1>4 DEF ThrType, Thr, Others, Start

----------------------------------------------------------------------------
(* The rings and the boxes                                                 *)

LEMMA BoxPutFirst ==
  ASSUME NEW S, NEW s \in Seq(S), NEW b \in S
  PROVE  /\ <<b>> \o s \in Seq(S)
         /\ Len(<<b>> \o s) = Len(s) + 1
         /\ (<<b>> \o s)[1] = b
         /\ \A k \in 1 .. Len(s) : (<<b>> \o s)[k + 1] = s[k]
<1>1. <<b>> \in Seq(S) /\ Len(<<b>>) = 1 /\ <<b>>[1] = b
  OBVIOUS
<1> QED
  BY <1>1

\* A step that shows no box and sets no waiting thread going.
LEMMA BoxesKept ==
  ASSUME BoxesWait, boxes \in Seq(Watchers \union {NULL}), boxes' = boxes,
         \A v \in Watchers : watcher[v].phase \in Waiting => watcher'[v].phase \in Waiting
  PROVE  BoxesWait'
<1>1. \A k \in 1 .. Len(boxes) : boxes[k] \in Watchers \union {NULL}
  OBVIOUS
<1> QED
  BY <1>1 DEF BoxesWait

\* The main thread's box, which no thread waits for.
LEMMA BoxesPlusMain ==
  ASSUME BoxesWait, boxes \in Seq(Watchers \union {NULL}), Show(NULL), UNCHANGED watcher
  PROVE  boxes' \in Seq(Watchers \union {NULL}) /\ BoxesWait'
<1>1. /\ boxes' \in Seq(Watchers \union {NULL})
      /\ Len(boxes') = Len(boxes) + 1 /\ boxes'[1] = NULL
      /\ \A k \in 1 .. Len(boxes) : boxes'[k + 1] = boxes[k]
  BY BoxPutFirst DEF Show
<1>2. ASSUME NEW k \in 1 .. Len(boxes'), k # 1
      PROVE  k - 1 \in 1 .. Len(boxes) /\ boxes'[k] = boxes[k - 1]
  <2>1. k - 1 \in 1 .. Len(boxes)
    BY <1>1, <1>2
  <2>2. boxes'[(k - 1) + 1] = boxes[k - 1]
    BY <1>1, <2>1
  <2> QED
    BY <2>1, <2>2
<1> HIDE DEF Show
<1>3. \A k \in 1 .. Len(boxes') : boxes'[k] # NULL => watcher'[boxes'[k]].phase \in Waiting
  BY <1>1, <1>2 DEF BoxesWait
<1>4. \A j, k \in 1 .. Len(boxes') : boxes'[j] = boxes'[k] /\ boxes'[k] # NULL => j = k
  <2> SUFFICES ASSUME NEW j \in 1 .. Len(boxes'), NEW k \in 1 .. Len(boxes'),
                      boxes'[j] = boxes'[k], boxes'[k] # NULL
               PROVE  j = k
    OBVIOUS
  <2>1. j # 1 /\ k # 1
    BY <1>1
  <2>2. /\ j - 1 \in 1 .. Len(boxes) /\ boxes'[j] = boxes[j - 1]
        /\ k - 1 \in 1 .. Len(boxes) /\ boxes'[k] = boxes[k - 1]
    BY <1>2, <2>1
  <2>3. j - 1 = k - 1
    BY <2>2 DEF BoxesWait
  <2> QED
    BY <2>3
<1> QED
  BY <1>1, <1>3, <1>4 DEF BoxesWait

\* The box of a thread that did not wait yet.
LEMMA BoxesPlusThread ==
  ASSUME BoxesWait, boxes \in Seq(Watchers \union {NULL}), NEW w \in Watchers, Show(w),
         watcher[w].phase \notin Waiting, watcher'[w].phase \in Waiting, Others(w)
  PROVE  boxes' \in Seq(Watchers \union {NULL}) /\ BoxesWait'
<1>1. /\ boxes' \in Seq(Watchers \union {NULL})
      /\ Len(boxes') = Len(boxes) + 1 /\ boxes'[1] = w
      /\ \A k \in 1 .. Len(boxes) : boxes'[k + 1] = boxes[k]
  BY BoxPutFirst DEF Show
<1>2. ASSUME NEW k \in 1 .. Len(boxes'), k # 1
      PROVE  k - 1 \in 1 .. Len(boxes) /\ boxes'[k] = boxes[k - 1]
  <2>1. k - 1 \in 1 .. Len(boxes)
    BY <1>1, <1>2
  <2>2. boxes'[(k - 1) + 1] = boxes[k - 1]
    BY <1>1, <2>1
  <2> QED
    BY <2>1, <2>2
<1>3. \A k \in 1 .. Len(boxes) : boxes[k] \in Watchers \union {NULL} /\ boxes[k] # w
  <2>1. w # NULL
    BY WatcherAssumption
  <2> QED
    BY <2>1 DEF BoxesWait
<1>4. \A k \in 1 .. Len(boxes') : boxes'[k] # NULL => watcher'[boxes'[k]].phase \in Waiting
  <2> SUFFICES ASSUME NEW k \in 1 .. Len(boxes'), boxes'[k] # NULL
               PROVE  watcher'[boxes'[k]].phase \in Waiting
    OBVIOUS
  <2>1. CASE k = 1
    BY <1>1, <2>1
  <2>2. CASE k # 1
    <3>1. k - 1 \in 1 .. Len(boxes) /\ boxes'[k] = boxes[k - 1]
      BY <1>2, <2>2
    <3>2. boxes'[k] \in Watchers \ {w} /\ watcher[boxes[k - 1]].phase \in Waiting
      BY <1>3, <3>1 DEF BoxesWait
    <3> QED
      BY <3>1, <3>2 DEF Others
  <2> QED
    BY <2>1, <2>2
<1>5. \A j, k \in 1 .. Len(boxes') : boxes'[j] = boxes'[k] /\ boxes'[k] # NULL => j = k
  <2> SUFFICES ASSUME NEW j \in 1 .. Len(boxes'), NEW k \in 1 .. Len(boxes'),
                      boxes'[j] = boxes'[k], boxes'[k] # NULL
               PROVE  j = k
    OBVIOUS
  <2>1. CASE j = 1
    BY <1>1, <1>2, <1>3, <2>1
  <2>2. CASE k = 1
    BY <1>1, <1>2, <1>3, <2>2
  <2>3. CASE j # 1 /\ k # 1
    <3>1. /\ j - 1 \in 1 .. Len(boxes) /\ boxes'[j] = boxes[j - 1]
          /\ k - 1 \in 1 .. Len(boxes) /\ boxes'[k] = boxes[k - 1]
      BY <1>2, <2>3
    <3>2. j - 1 = k - 1
      BY <3>1 DEF BoxesWait
    <3> QED
      BY <3>2
  <2> QED
    BY <2>1, <2>2, <2>3
<1> QED
  BY <1>1, <1>4, <1>5 DEF BoxesWait

\* The first box goes; its thread has no other.
LEMMA BoxesMinusFirst ==
  ASSUME BoxesWait, boxes \in Seq(Watchers \union {NULL}), boxes # <<>>, boxes' = Tail(boxes),
         \A v \in Watchers \ {Head(boxes)} : watcher'[v] = watcher[v]
  PROVE  boxes' \in Seq(Watchers \union {NULL}) /\ BoxesWait'
<1>1. /\ boxes' \in Seq(Watchers \union {NULL}) /\ Len(boxes) > 0
      /\ Len(boxes') = Len(boxes) - 1 /\ Head(boxes) = boxes[1]
      /\ \A k \in 1 .. Len(boxes') : boxes'[k] = boxes[k + 1]
  OBVIOUS
<1>2. \A k \in 1 .. Len(boxes) : boxes[k] \in Watchers \union {NULL}
  OBVIOUS
<1>3. ASSUME NEW k \in 1 .. Len(boxes'), boxes'[k] # NULL
      PROVE  boxes'[k] \in Watchers \ {Head(boxes)} /\ watcher[boxes'[k]].phase \in Waiting
  <2>1. k + 1 \in 1 .. Len(boxes) /\ 1 \in 1 .. Len(boxes) /\ k + 1 # 1
    BY <1>1
  <2>2. boxes[k + 1] # boxes[1]
    BY <1>1, <1>3, <2>1 DEF BoxesWait
  <2> QED
    BY <1>1, <1>2, <1>3, <2>1, <2>2 DEF BoxesWait
<1>4. \A k \in 1 .. Len(boxes') : boxes'[k] # NULL => watcher'[boxes'[k]].phase \in Waiting
  BY <1>3
<1>5. \A j, k \in 1 .. Len(boxes') : boxes'[j] = boxes'[k] /\ boxes'[k] # NULL => j = k
  <2> SUFFICES ASSUME NEW j \in 1 .. Len(boxes'), NEW k \in 1 .. Len(boxes'),
                      boxes'[j] = boxes'[k], boxes'[k] # NULL
               PROVE  j = k
    OBVIOUS
  <2>1. j + 1 \in 1 .. Len(boxes) /\ k + 1 \in 1 .. Len(boxes)
    BY <1>1
  <2>2. j + 1 = k + 1
    BY <1>1, <2>1 DEF BoxesWait
  <2> QED
    BY <2>2
<1> QED
  BY <1>1, <1>4, <1>5 DEF BoxesWait

\* A thread that starts to hold a packet has one in its ring, and one that holds a
\* packet keeps its ring.
LEMMA HoldingKept ==
  ASSUME HandledInRing,
         \A v \in Watchers : watcher'[v].phase \in Holding =>
           \/ ring'[v] # <<>>
           \/ watcher[v].phase \in Holding /\ ring'[v] = ring[v]
  PROVE  HandledInRing'
  BY DEF HandledInRing, Holding

----------------------------------------------------------------------------
(* The type invariant, the rings and the boxes, for any number of watchers *)

LEMMA InitTypeInv == Init => TypeInv
<1> SUFFICES ASSUME Init PROVE TypeInv
  OBVIOUS
<1>1. TypeOK
  <2>1. <<>> \in Seq(Packets) /\ <<>> \in Seq(Watchers \union {NULL}) /\ Len(<<>>) = 0
    OBVIOUS
  <2>2. 0 \in 0 .. MaxTime /\ 0 \in 0 .. MaxIps /\ 0 \in 0 .. MaxPackets /\ RingSize \in Nat
    BY WatcherAssumption
  <2>3. Empty \in Fields
    BY DEF Empty, Fields
  <2>4. watcher \in [Watchers ->
          [phase : Phases, edited : BOOLEAN, stale : BOOLEAN,
           port : Ports \union {0}, threshold : Thresholds \union {0},
           current_time : 0 .. MaxTime, i : 0 .. MaxIps, read : Nat, got : 0 .. MaxPackets]]
    BY <2>2, PhaseNames DEF Init
  <2>5. \A w \in Watchers : ring[w] = <<>>
    BY DEF Init
  <2>6. ring \in [Watchers -> Seq(Packets)] /\ \A w \in Watchers : Len(ring[w]) <= RingSize
    <3>1. ring \in [Watchers -> Seq(Packets)]
      BY <2>1 DEF Init
    <3> QED
      BY <2>1, <2>2, <2>5, <3>1
  <2>7. suspicious_ips \in [0 .. MaxIps - 1 -> Addresses]
    BY DEF Init, Addresses
  <2> QED
    BY <2>1, <2>2, <2>3, <2>4, <2>6, <2>7 DEF Init, TypeOK
<1>2. CountedType
  BY DEF Init, CountedType
<1>3. HandledInRing
  BY PhaseNames DEF Init, HandledInRing, Holding
<1>4. BoxesWait
  BY DEF Init, BoxesWait
<1> QED
  BY <1>1, <1>2, <1>3, <1>4 DEF TypeInv

\* The steps of the user and of the main loop.
LEMMA UserTypeInv ==
  ASSUME TypeInv,
         \/ OpenWindow \/ CloseWindow \/ (\E f \in Forms : Edit(f)) \/ Exit
         \/ RunQueuedError \/ Tick
  PROVE  TypeInv'
<1> USE DEF TypeInv
<1>0. boxes \in Seq(Watchers \union {NULL}) /\ ThrType
  BY TypeGivesThr DEF TypeOK
<1>1. CASE OpenWindow
  <2>1. boxes' \in Seq(Watchers \union {NULL}) /\ BoxesWait'
    BY <1>0, <1>1, BoxesKept, BoxesPlusMain DEF OpenWindow
  <2>2. Empty \in Fields
    BY DEF Empty, Fields
  <2>3. TypeOK'
    BY <1>1, <2>1, <2>2 DEF OpenWindow, TypeOK, shared, ghosts
  <2>4. CountedType' /\ HandledInRing'
    BY <1>1 DEF OpenWindow, CountedType, HandledInRing, ghosts
  <2> QED
    BY <2>1, <2>3, <2>4
<1>2. CASE CloseWindow \/ \E f \in Forms : Edit(f)
  <2>1. ThrType' /\ \A v \in Watchers : watcher'[v].phase = watcher[v].phase
    BY <1>0, <1>2, MarkFacts
  <2>2. fields' \in Fields /\ open' \in BOOLEAN
    <3>1. Forms \subseteq Fields /\ Empty \in Fields /\ open \in BOOLEAN
      BY WatcherAssumption DEF Fields, Empty, TypeOK
    <3>2. CASE CloseWindow
      BY <3>1, <3>2 DEF CloseWindow
    <3>3. CASE \E f \in Forms : Edit(f)
      BY <3>1, <3>3 DEF Edit
    <3> QED
      BY <1>2, <3>2, <3>3
  <2>3. UNCHANGED <<loop, ring, boxes, errors, clock, shared, ghosts, fault>>
    BY <1>2 DEF CloseWindow, Edit
  <2>4. TypeOK'
    BY <2>1, <2>2, <2>3 DEF TypeOK, ThrType, Thr, shared, ghosts
  <2>5. BoxesWait'
    BY <1>0, <2>1, <2>3, BoxesKept
  <2>6. CountedType' /\ HandledInRing'
    BY <2>1, <2>3 DEF CountedType, HandledInRing, ghosts
  <2> QED
    BY <2>4, <2>5, <2>6
<1>3. CASE Exit \/ RunQueuedError \/ Tick
  <2>1. UNCHANGED <<user, watcher, ring, boxes, shared, ghosts>>
    BY <1>3 DEF Exit, RunQueuedError, Tick
  <2>2. loop' \in {"running", "exited"} /\ errors' \in Nat
        /\ fault' \in {"none", "fields", "error", "index"}
    BY <1>3 DEF Exit, RunQueuedError, Tick, Undefined, TypeOK
  <2>3. clock' \in 0 .. MaxTime
    BY <1>3, WatcherAssumption DEF Exit, RunQueuedError, Tick, TypeOK
  <2>4. TypeOK'
    BY <2>1, <2>2, <2>3 DEF TypeOK, user, shared, ghosts
  <2>5. CountedType' /\ HandledInRing' /\ BoxesWait'
    BY <2>1 DEF CountedType, HandledInRing, BoxesWait, ghosts
  <2> QED
    BY <2>4, <2>5
<1> QED
  BY <1>1, <1>2, <1>3

LEMMA AfterBoxPhase ==
  ASSUME NEW p \in Waiting
  PROVE  /\ AfterBox(p) \in Phases \ Waiting
         /\ p = "announced" => AfterBox(p) = "filtering"
         /\ p # "announced" => AfterBox(p) \in {"reset_count", "blocking"}
         /\ p = "reported" => AfterBox(p) = "reset_count"
         /\ p \in {"alerted", "blocked"} => AfterBox(p) = "blocking"
<1>1. /\ p = "announced" => AfterBox(p) = "filtering"
      /\ p = "reported" => AfterBox(p) = "reset_count"
      /\ p \in {"alerted", "blocked"} => AfterBox(p) = "blocking"
  BY DEF AfterBox
<1>2. p \in {"announced", "reported", "alerted", "blocked"}
  BY DEF Waiting
<1>3. {"filtering", "reset_count", "blocking"} \subseteq Phases \ Waiting
  BY DEF Phases, Waiting, Handling
<1> QED
  BY <1>1, <1>2, <1>3

\* Which thread a box sets going.
LEMMA AnswerBoxFacts ==
  ASSUME TypeInv, AnswerBox
  PROVE  \/ UNCHANGED watcher
         \/ /\ Head(boxes) \in Watchers
            /\ watcher[Head(boxes)].phase \in Waiting
            /\ Goto(Head(boxes), AfterBox(watcher[Head(boxes)].phase))
<1>1. boxes # <<>> /\ boxes \in Seq(Watchers \union {NULL})
  BY DEF AnswerBox, TypeInv, TypeOK
<1>2. 1 \in 1 .. Len(boxes) /\ Head(boxes) = boxes[1] /\ boxes[1] \in Watchers \union {NULL}
  BY <1>1
<1>3. Head(boxes) # NULL => watcher[Head(boxes)].phase \in Waiting
  BY <1>2 DEF TypeInv, BoxesWait
<1> QED
  BY <1>2, <1>3 DEF AnswerBox

LEMMA AnswerTypeInv ==
  ASSUME TypeInv, AnswerBox
  PROVE  TypeInv'
<1> USE DEF TypeInv
<1>0. boxes \in Seq(Watchers \union {NULL}) /\ ThrType /\ boxes # <<>> /\ boxes' = Tail(boxes)
      /\ UNCHANGED <<user, loop, ring, errors, clock, shared, ghosts, fault>>
  BY TypeGivesThr DEF TypeOK, AnswerBox
<1>1. /\ ThrType' /\ \A v \in Watchers \ {Head(boxes)} : watcher'[v] = watcher[v]
      /\ \A v \in Watchers : watcher'[v].phase \in Holding => watcher[v].phase \in Holding
  <2>1. CASE UNCHANGED watcher
    BY <1>0, <2>1 DEF ThrType
  <2>2. CASE /\ Head(boxes) \in Watchers
             /\ watcher[Head(boxes)].phase \in Waiting
             /\ Goto(Head(boxes), AfterBox(watcher[Head(boxes)].phase))
    <3> DEFINE w == Head(boxes)
               p == AfterBox(watcher[w].phase)
    <3>1. p \in Phases /\ (p = "filtering" \/ watcher[w].phase # "announced")
      BY <2>2, AfterBoxPhase
    <3>2. ThrType' /\ watcher'[w].phase = p /\ \A v \in Watchers \ {w} : watcher'[v] = watcher[v]
      BY <1>0, <2>2, <3>1, GotoFacts
    <3>3. watcher[w].phase # "announced" => watcher[w].phase \in Holding
      BY <2>2 DEF Waiting, Holding
    <3>4. "filtering" \notin Holding
      BY PhaseNames
    <3> QED
      BY <3>1, <3>2, <3>3, <3>4
  <2> QED
    BY <2>1, <2>2, AnswerBoxFacts
<1>2. boxes' \in Seq(Watchers \union {NULL}) /\ BoxesWait'
  BY <1>0, <1>1, BoxesMinusFirst
<1>3. HandledInRing'
  BY <1>0, <1>1, HoldingKept
<1>4. CountedType'
  BY <1>0 DEF CountedType, ghosts
<1>5. TypeOK'
  BY <1>0, <1>1, <1>2 DEF TypeOK, ThrType, Thr, user, shared, ghosts
<1> QED
  BY <1>2, <1>3, <1>4, <1>5

\* The steps of a thread outside packetHandler, and the click that starts it.
LEMMA CaptureTypeInv ==
  ASSUME TypeInv, NEW w \in Watchers,
         \/ Click(w) \/ ReadFields(w) \/ ReadDestroyedFields(w) \/ Fail(w)
         \/ OpenDevice(w) \/ StartLoop(w) \/ EndLoop(w)
  PROVE  TypeInv'
<1> USE DEF TypeInv
<1>0. boxes \in Seq(Watchers \union {NULL}) /\ ThrType
  BY TypeGivesThr DEF TypeOK
<1>1. CASE Click(w) /\ ~ Valid
  <2>1. boxes' \in Seq(Watchers \union {NULL}) /\ BoxesWait'
    BY <1>0, <1>1, BoxesPlusMain DEF Click
  <2>2. TypeOK'
    BY <1>1, <2>1 DEF Click, TypeOK, user, shared, ghosts
  <2>3. CountedType' /\ HandledInRing'
    BY <1>1 DEF Click, CountedType, HandledInRing, ghosts
  <2> QED
    BY <2>1, <2>2, <2>3
<1>2. CASE \/ Click(w) /\ Valid
           \/ ReadFields(w) \/ ReadDestroyedFields(w) \/ StartLoop(w)
  <2>1. /\ ThrType' /\ Others(w)
        /\ watcher'[w].phase \in {"starting", "opening", "looping"}
        /\ watcher[w].phase \in {"free", "starting", "filtering"}
    <3>1. CASE Click(w) /\ Valid
      BY <1>0, <3>1, GotoFacts, PhaseNames DEF Click, Others
    <3>2. CASE ReadFields(w)
      <4>1. fields \in Fields
        BY DEF TypeOK
      <4> QED
        BY <1>0, <3>2, <4>1, ReadFieldsThr DEF ReadFields, At
    <3>3. CASE ReadDestroyedFields(w)
      BY <1>0, <3>3, ReadFieldsThr DEF ReadDestroyedFields, At
    <3>4. CASE StartLoop(w)
      BY <1>0, <3>4, GotoFacts, PhaseNames DEF StartLoop, Others, At
    <3> QED
      BY <1>2, <3>1, <3>2, <3>3, <3>4
  <2>2. UNCHANGED <<user, ring, boxes, errors, clock, ghosts,
                    packet_count, suspicious_ips, ip_count>>
    BY <1>2 DEF Click, ReadFields, ReadDestroyedFields, StartLoop, shared
  <2>3. loop' \in {"running", "exited"} /\ fault' \in {"none", "fields", "error", "index"}
    BY <1>2 DEF Click, ReadFields, ReadDestroyedFields, StartLoop, Undefined, TypeOK
  <2>4. start_time' \in 0 .. MaxTime
    BY <1>2 DEF Click, ReadFields, ReadDestroyedFields, StartLoop, shared, TypeOK
  <2>5. watcher'[w].phase \notin Holding /\ watcher[w].phase \notin Waiting
    BY <2>1, PhaseNames
  <2>6. HandledInRing'
    BY <2>1, <2>2, <2>5, HoldingKept DEF Others
  <2>7. BoxesWait'
    BY <1>0, <2>1, <2>2, <2>5, BoxesKept DEF Others
  <2>8. TypeOK'
    BY <2>1, <2>2, <2>3, <2>4 DEF TypeOK, ThrType, Thr, user, ghosts
  <2> QED
    BY <2>2, <2>6, <2>7, <2>8 DEF CountedType, ghosts
<1>3. CASE OpenDevice(w)
  <2>1. /\ ThrType' /\ Others(w) /\ watcher'[w].phase = "announced"
        /\ watcher[w].phase = "opening"
    BY <1>0, <1>3, GotoFacts, PhaseNames DEF OpenDevice, Others, At, Waiting
  <2>2. watcher'[w].phase \notin Holding /\ watcher[w].phase \notin Waiting
        /\ watcher'[w].phase \in Waiting
    BY <2>1, PhaseNames DEF Waiting
  <2>3. boxes' \in Seq(Watchers \union {NULL}) /\ BoxesWait'
    BY <1>0, <1>3, <2>1, <2>2, BoxesPlusThread DEF OpenDevice
  <2>4. HandledInRing'
    BY <1>3, <2>1, <2>2, HoldingKept DEF OpenDevice, Others
  <2>5. TypeOK'
    BY <1>3, <2>1, <2>3 DEF OpenDevice, TypeOK, ThrType, Thr, user, shared, ghosts
  <2> QED
    BY <1>3, <2>3, <2>4, <2>5 DEF OpenDevice, CountedType, ghosts
<1>4. CASE Fail(w) \/ EndLoop(w)
  <2>1. /\ ThrType' /\ Others(w) /\ watcher'[w].phase = "ended"
        /\ watcher[w].phase \in {"opening", "filtering", "looping"}
    BY <1>0, <1>4, GotoFacts, PhaseNames DEF Fail, EndLoop, Others, At
  <2>2. watcher'[w].phase \notin Holding /\ watcher[w].phase \notin Waiting
    BY <2>1, PhaseNames
  <2>3. /\ ring' = [ring EXCEPT ![w] = <<>>] /\ errors' \in Nat
        /\ UNCHANGED <<user, loop, boxes, clock, shared, ghosts, fault>>
    BY <1>4 DEF Fail, EndLoop, TypeOK
  <2>4. \A v \in Watchers \ {w} : ring'[v] = ring[v]
    BY <2>3 DEF TypeOK
  <2>5. HandledInRing'
    BY <2>1, <2>2, <2>4, HoldingKept DEF Others
  <2>6. BoxesWait'
    BY <1>0, <2>1, <2>2, <2>3, BoxesKept DEF Others
  <2>7. ring' \in [Watchers -> Seq(Packets)] /\ \A v \in Watchers : Len(ring'[v]) <= RingSize
    <3>1. <<>> \in Seq(Packets) /\ Len(<<>>) = 0 /\ RingSize \in Nat
      BY WatcherAssumption
    <3>2. ring'[w] = <<>>
      BY <2>3 DEF TypeOK
    <3>3. ring' \in [Watchers -> Seq(Packets)]
      BY <2>3, <3>1 DEF TypeOK
    <3>4. \A v \in Watchers \ {w} : Len(ring'[v]) <= RingSize
      BY <2>4 DEF TypeOK
    <3>5. Len(ring'[w]) <= RingSize
      BY <3>1, <3>2
    <3> QED
      BY <3>3, <3>4, <3>5
  <2>8. TypeOK'
    BY <2>1, <2>3, <2>7 DEF TypeOK, ThrType, Thr, user, shared, ghosts
  <2> QED
    BY <2>3, <2>5, <2>6, <2>8 DEF CountedType, ghosts
<1> QED
  BY <1>1, <1>2, <1>3, <1>4

\* The ring of a handler: its head is the packet in hand.
LEMMA PacketType ==
  ASSUME TypeOK, NEW w \in Watchers, ring[w] # <<>>
  PROVE  Packet(w) \in Packets /\ Packet(w).seen \in Addresses
<1>1. ring[w] \in Seq(Packets)
  BY DEF TypeOK
<1>2. Packet(w) \in Packets
  BY <1>1 DEF Packet
<1> QED
  BY <1>2 DEF Packets

\* The steps of packetHandler that change nothing but the phase of the thread, its
\* index or what it read, and show at most a box.
LEMMA QuietHandlerTypeInv ==
  ASSUME TypeInv, NEW w \in Watchers,
         \/ Handle(w) \/ Alert(w) \/ Report(w) \/ BlockIp(w) \/ BlockDone(w)
         \/ Note(w) \/ ReadCount(w)
  PROVE  TypeInv'
<1> USE DEF TypeInv
<1>0. boxes \in Seq(Watchers \union {NULL}) /\ ThrType /\ watcher[w] \in Thr
  BY TypeGivesThr DEF TypeOK, ThrType
<1>1. CASE Alert(w) \/ Report(w) \/ BlockIp(w)
  <2>1. /\ ThrType' /\ Others(w) /\ watcher'[w].phase \in {"alerted", "reported", "blocked"}
        /\ watcher[w].phase \in {"judging", "blocking"}
    <3>1. CASE Alert(w)
      BY <1>0, <3>1, AlertThr DEF Alert, At
    <3>2. CASE Report(w)
      BY <1>0, <3>2, GotoFacts, PhaseNames DEF Report, At, Others, Waiting
    <3>3. CASE BlockIp(w)
      <4>1. NextIndex(w) \in 0 .. MaxIps
        <5>1. watcher[w].i \in Nat /\ ip_count \in Nat /\ ip_count <= MaxIps
              /\ watcher[w].i < ip_count
          BY <1>0, <3>3, ConstantTypes DEF BlockIp, Thr, TypeOK
        <5> QED
          BY <5>1, ConstantTypes DEF NextIndex
      <4> QED
        BY <1>0, <3>3, <4>1, BlockIpThr DEF BlockIp, At
    <3> QED
      BY <1>1, <3>1, <3>2, <3>3
  <2>2. watcher'[w].phase \in Waiting /\ watcher[w].phase \notin Waiting
        /\ watcher[w].phase \in Holding
    BY <2>1, PhaseNames DEF Waiting, Handling, Holding
  <2>3. /\ Show(w)
        /\ UNCHANGED <<user, loop, ring, errors, clock, shared, counted, fault>>
    BY <1>1 DEF Alert, Report, BlockIp, ghosts
  <2>4. boxes' \in Seq(Watchers \union {NULL}) /\ BoxesWait'
    BY <1>0, <2>1, <2>2, <2>3, BoxesPlusThread
  <2>5. HandledInRing'
    BY <2>1, <2>2, <2>3, HoldingKept DEF Others
  <2>6. blocked' \subseteq Addresses
    <3>1. CASE Alert(w) \/ Report(w)
      BY <3>1 DEF Alert, Report, ghosts, TypeOK
    <3>2. CASE BlockIp(w)
      <4>1. watcher[w].i \in 0 .. MaxIps - 1
        <5>1. watcher[w].i \in 0 .. MaxIps /\ watcher[w].i < ip_count
          BY <1>0, <3>2 DEF BlockIp, Thr
        <5>2. ip_count \in 0 .. MaxIps /\ MaxIps \in Nat
          BY WatcherAssumption DEF TypeOK
        <5> QED
          BY <5>1, <5>2
      <4>2. suspicious_ips[watcher[w].i] \in Addresses
        BY <4>1 DEF TypeOK
      <4> QED
        BY <3>2, <4>2 DEF BlockIp, TypeOK
    <3> QED
      BY <1>1, <3>1, <3>2
  <2>7. TypeOK'
    BY <2>1, <2>3, <2>4, <2>6 DEF TypeOK, ThrType, Thr, user, shared
  <2> QED
    BY <2>3, <2>4, <2>5, <2>7 DEF CountedType
<1>2. CASE Handle(w) \/ BlockDone(w) \/ Note(w) \/ ReadCount(w)
  <2>1. /\ ThrType' /\ Others(w) /\ watcher'[w].phase \in Handling
        /\ watcher[w].phase \notin Waiting
        /\ ring[w] # <<>>
    <3>1. CASE Handle(w)
      <4> DEFINE p == IF Due THEN "judging" ELSE "noting"
      <4>1. p \in {"judging", "noting"} /\ {"judging", "noting"} \subseteq Handling
        BY DEF Handling
      <4>2. watcher' = [watcher EXCEPT ![w].current_time = clock, ![w].phase = p]
        BY <3>1 DEF Handle
      <4>3. clock \in 0 .. MaxTime
        BY DEF TypeOK
      <4> HIDE DEF p
      <4>4. ThrType' /\ Others(w) /\ watcher'[w].phase = p
        BY <1>0, <4>1, <4>2, <4>3, HandleThr
      <4> QED
        BY <3>1, <4>1, <4>4, PhaseNames DEF Handle, At
    <3>2. CASE BlockDone(w)
      <4>1. {"reset_count", "blocking"} \subseteq Handling
        BY DEF Handling
      <4>2. watcher[w].phase = "blocking" /\ ring[w] # <<>>
        BY <3>2, <4>1 DEF BlockDone, At, HandledInRing
      <4> QED
        BY <1>0, <3>2, <4>1, <4>2, GotoFacts, PhaseNames DEF BlockDone, Others
    <3>3. CASE Note(w)
      <4> DEFINE p == IF Packet(w).seen # NULL /\ ~ Found(Packet(w).seen) /\ Room
                      THEN "appending" ELSE "counting"
      <4>1. p \in Handling /\ "noting" \in Handling /\ p \in Phases
        BY PhaseNames DEF Handling
      <4>2. watcher' = [watcher EXCEPT ![w].phase = p, ![w].read = ip_count]
        BY <3>3 DEF Note
      <4>3. ip_count \in Nat
        BY WatcherAssumption DEF TypeOK
      <4> HIDE DEF p
      <4>4. ThrType' /\ Others(w) /\ watcher'[w].phase = p
        BY <1>0, <4>1, <4>2, <4>3, ReadThr
      <4>5. watcher[w].phase = "noting" /\ ring[w] # <<>>
        BY <3>3, <4>1 DEF Note, At, HandledInRing
      <4> QED
        BY <4>1, <4>4, <4>5, PhaseNames
    <3>4. CASE ReadCount(w)
      <4>1. {"counting", "storing"} \subseteq Handling
        BY DEF Handling
      <4>2. watcher[w].phase = "counting" /\ ring[w] # <<>>
        BY <3>4, <4>1 DEF ReadCount, At, HandledInRing
      <4>3. packet_count \in Nat /\ "storing" \in Phases
        BY <4>1, PhaseNames DEF TypeOK
      <4>4. ThrType' /\ Others(w) /\ watcher'[w].phase = "storing"
        BY <1>0, <3>4, <4>3, ReadThr DEF ReadCount
      <4> QED
        BY <4>1, <4>2, <4>4, PhaseNames
    <3> QED
      BY <1>2, <3>1, <3>2, <3>3, <3>4
  <2>2. UNCHANGED <<user, loop, ring, boxes, errors, clock, shared, ghosts, fault>>
    BY <1>2 DEF Handle, BlockDone, Note, ReadCount
  <2>3. HandledInRing'
    BY <2>1, <2>2, HoldingKept DEF Others
  <2>4. BoxesWait'
    BY <1>0, <2>1, <2>2, BoxesKept DEF Others
  <2>5. TypeOK'
    BY <2>1, <2>2 DEF TypeOK, ThrType, Thr, user, shared, ghosts
  <2> QED
    BY <2>2, <2>3, <2>4, <2>5 DEF CountedType, ghosts
<1> QED
  BY <1>1, <1>2

\* The steps of packetHandler that write what the watchers share.
LEMMA WriteHandlerTypeInv ==
  ASSUME TypeInv, NEW w \in Watchers,
         \/ ResetCount(w) \/ ResetTime(w) \/ ResetIps(w) \/ AppendIp(w)
  PROVE  TypeInv'
<1> USE DEF TypeInv
<1>0. boxes \in Seq(Watchers \union {NULL}) /\ ThrType /\ watcher[w] \in Thr
  BY TypeGivesThr DEF TypeOK, ThrType
<1>1. {"reset_count", "reset_time", "reset_ips", "noting", "appending", "counting"}
        \subseteq Handling
  BY DEF Handling
<1>2. /\ ThrType' /\ Others(w) /\ watcher'[w].phase \in Handling
      /\ watcher[w].phase \in Handling
  BY <1>0, <1>1, GotoFacts, PhaseNames DEF ResetCount, ResetTime, ResetIps, AppendIp, At, Others
<1>3. ring[w] # <<>> /\ watcher[w].phase \notin Waiting
  BY <1>2, PhaseNames DEF HandledInRing
<1>4. UNCHANGED <<user, loop, ring, boxes, errors, clock, blocked>>
  BY DEF ResetCount, ResetTime, ResetIps, AppendIp, ghosts
<1>5. HandledInRing'
  BY <1>2, <1>3, <1>4, HoldingKept DEF Others
<1>6. BoxesWait'
  BY <1>0, <1>2, <1>3, <1>4, BoxesKept DEF Others
<1>7. CountedType'
  <2>1. counted' = counted \/ counted' = <<>>
    BY DEF ResetCount, ResetTime, ResetIps, AppendIp, ghosts
  <2>2. <<>> \in Seq(Counted)
    OBVIOUS
  <2> QED
    BY <2>1, <2>2 DEF CountedType
<1>8. /\ packet_count' \in Nat
      /\ start_time' \in 0 .. MaxTime
      /\ suspicious_ips' \in [0 .. MaxIps - 1 -> Addresses]
      /\ ip_count' \in 0 .. MaxIps
      /\ fault' \in {"none", "fields", "error", "index"}
  <2>1. CASE ResetCount(w) \/ ResetTime(w) \/ ResetIps(w)
    <3>1. UNCHANGED <<suspicious_ips, fault>>
      BY <2>1 DEF ResetCount, ResetTime, ResetIps
    <3>2. packet_count' \in {packet_count, 0} /\ ip_count' \in {ip_count, 0}
          /\ start_time' \in {start_time, watcher[w].current_time}
      BY <2>1 DEF ResetCount, ResetTime, ResetIps, NewStart, NewIpCount
    <3>3. watcher[w].current_time \in 0 .. MaxTime /\ 0 \in 0 .. MaxIps
      BY <1>0, ConstantTypes DEF Thr
    <3> QED
      BY <3>1, <3>2, <3>3 DEF TypeOK
  <2>2. CASE AppendIp(w)
    <3>1. Packet(w).seen \in Addresses
      BY <1>3, PacketType
    <3>2. PICK n \in {watcher[w].read, ip_count} :
            IF n < MaxIps
            THEN /\ suspicious_ips' = [suspicious_ips EXCEPT ![n] = Packet(w).seen]
                 /\ ip_count' = n + 1
                 /\ UNCHANGED fault
            ELSE Undefined("index") /\ UNCHANGED <<suspicious_ips, ip_count>>
      BY <2>2 DEF AppendIp
    <3>3. n \in Nat /\ MaxIps \in Nat /\ packet_count \in Nat /\ start_time \in 0 .. MaxTime
      BY <1>0, WatcherAssumption DEF Thr, TypeOK
    <3>4. CASE n < MaxIps
      BY <2>2, <3>1, <3>2, <3>3, <3>4 DEF AppendIp, TypeOK
    <3>5. CASE ~ (n < MaxIps)
      BY <2>2, <3>2, <3>3, <3>5 DEF AppendIp, Undefined, TypeOK
    <3> QED
      BY <3>4, <3>5
  <2> QED
    BY <2>1, <2>2
<1>9. TypeOK'
  BY <1>2, <1>4, <1>8 DEF TypeOK, ThrType, Thr, user
<1> QED
  BY <1>5, <1>6, <1>7, <1>9

\* A packet enters the ring, or leaves it at the end of its handler.
LEMMA RingTypeInv ==
  ASSUME TypeInv, NEW w \in Watchers,
         StoreCount(w) \/ \E s \in Addresses : Arrive(w, s)
  PROVE  TypeInv'
<1> USE DEF TypeInv
<1>0. boxes \in Seq(Watchers \union {NULL}) /\ ThrType /\ watcher[w] \in Thr
      /\ ring \in [Watchers -> Seq(Packets)] /\ ring[w] \in Seq(Packets)
      /\ Len(ring[w]) <= RingSize
  BY TypeGivesThr DEF TypeOK, ThrType
<1>1. CASE StoreCount(w)
  <2>1. ThrType' /\ Others(w) /\ watcher'[w].phase = "looping" /\ watcher[w].phase = "storing"
    BY <1>0, <1>1, StoreThr DEF StoreCount, At
  <2>2. ring[w] # <<>> /\ watcher[w].phase \notin Waiting /\ watcher'[w].phase \notin Holding
    BY <2>1, PhaseNames DEF HandledInRing, Handling
  <2>3. /\ ring'[w] = Tail(ring[w]) /\ \A v \in Watchers \ {w} : ring'[v] = ring[v]
        /\ Tail(ring[w]) \in Seq(Packets) /\ Len(Tail(ring[w])) <= RingSize
        /\ ring' \in [Watchers -> Seq(Packets)]
    <3>1. Tail(ring[w]) \in Seq(Packets) /\ Len(Tail(ring[w])) <= Len(ring[w])
      BY <1>0, <2>2
    <3>2. Len(Tail(ring[w])) <= RingSize
      <4>1. Len(Tail(ring[w])) \in Nat /\ Len(ring[w]) \in Nat /\ RingSize \in Nat
        BY <1>0, <3>1, WatcherAssumption
      <4> QED
        BY <1>0, <3>1, <4>1
    <3>3. ring' = [ring EXCEPT ![w] = Tail(ring[w])]
      BY <1>1 DEF StoreCount
    <3> QED
      BY <1>0, <3>1, <3>2, <3>3
  <2>4. HandledInRing'
    BY <2>1, <2>2, <2>3, HoldingKept DEF Others
  <2>5. UNCHANGED <<user, loop, boxes, errors, clock, start_time, suspicious_ips, ip_count,
                    blocked, fault>>
    BY <1>1 DEF StoreCount
  <2>6. BoxesWait'
    BY <1>0, <2>1, <2>2, <2>5, BoxesKept DEF Others
  <2>7. CountedType'
    <3>1. Packet(w) \in Packets /\ watcher[w].current_time \in 0 .. MaxTime
      BY <1>0, <2>2, PacketType DEF Thr
    <3>2. [by |-> w, packet |-> Packet(w), handled |-> watcher[w].current_time] \in Counted
      BY <3>1 DEF Counted
    <3> QED
      BY <1>1, <3>2 DEF StoreCount, CountedType
  <2>8. packet_count' \in Nat
    BY <1>0, <1>1 DEF StoreCount, Thr
  <2>9. TypeOK'
    BY <2>1, <2>3, <2>5, <2>8 DEF TypeOK, ThrType, Thr, user
  <2> QED
    BY <2>4, <2>6, <2>7, <2>9
<1>2. CASE \E s \in Addresses : Arrive(w, s)
  <2>1. PICK s \in Addresses : Arrive(w, s)
    BY <1>2
  <2>2. /\ ThrType' /\ Others(w) /\ watcher'[w].phase = watcher[w].phase
    BY <1>0, <2>1, ArriveThr DEF Arrive
  <2>3. /\ ring'[w] = Append(ring[w], [seen |-> s, at |-> clock])
        /\ \A v \in Watchers \ {w} : ring'[v] = ring[v]
        /\ ring'[w] \in Seq(Packets) /\ Len(ring'[w]) <= RingSize /\ ring'[w] # <<>>
        /\ ring' \in [Watchers -> Seq(Packets)]
    <3> DEFINE r == Append(ring[w], [seen |-> s, at |-> clock])
    <3>1. [seen |-> s, at |-> clock] \in Packets
      BY DEF Packets, TypeOK
    <3>2. r \in Seq(Packets) /\ Len(r) = Len(ring[w]) + 1 /\ r # <<>>
      <4>1. \A q \in Seq(Packets), x \in Packets :
              Append(q, x) \in Seq(Packets) /\ Len(Append(q, x)) = Len(q) + 1 /\ Append(q, x) # <<>>
        OBVIOUS
      <4>2. ring[w] \in Seq(Packets)
        BY <1>0
      <4> QED
        BY <3>1, <4>1, <4>2, Zenon
    <3>3. Len(r) <= RingSize
      <4>1. Len(ring[w]) < RingSize
        BY <2>1 DEF Arrive
      <4> QED
        BY <1>0, <3>2, <4>1, WatcherAssumption
    <3>4. ring' = [ring EXCEPT ![w] = r]
      BY <2>1 DEF Arrive
    <3> HIDE DEF r
    <3>5. ring'[w] = r /\ \A v \in Watchers \ {w} : ring'[v] = ring[v]
      BY <1>0, <3>4
    <3>6. ring' \in [Watchers -> Seq(Packets)]
      BY <1>0, <3>2, <3>4
    <3> QED
      BY <3>2, <3>3, <3>5, <3>6 DEF r
  <2>4. HandledInRing'
    BY <2>2, <2>3, HoldingKept DEF Others
  <2>5. UNCHANGED <<user, loop, boxes, errors, clock, shared, ghosts, fault>>
    BY <2>1 DEF Arrive
  <2>6. BoxesWait'
    BY <1>0, <2>2, <2>5, BoxesKept DEF Others
  <2>7. TypeOK'
    BY <2>2, <2>3, <2>5 DEF TypeOK, ThrType, Thr, user, shared, ghosts
  <2> QED
    BY <2>4, <2>5, <2>6, <2>7 DEF CountedType, ghosts
<1> QED
  BY <1>1, <1>2

LEMMA NextTypeInv ==
  ASSUME TypeInv, [Next]_vars
  PROVE  TypeInv'
<1>1. CASE UNCHANGED vars
  BY <1>1 DEF vars, user, shared, ghosts, TypeInv, TypeOK, CountedType, HandledInRing, BoxesWait
<1>2. CASE Next
  BY <1>2, UserTypeInv, AnswerTypeInv, CaptureTypeInv, QuietHandlerTypeInv, WriteHandlerTypeInv,
     RingTypeInv DEF Next, Thread, Handler
<1> QED
  BY <1>1, <1>2

\* The rings, the boxes and the threads agree in every reachable state: who handles
\* a packet has one, and a thread waits for one box at most.
THEOREM TypeInvHolds == Spec => []TypeInv
  BY InitTypeInv, NextTypeInv, PTL DEF Spec

\* Every variable has its type, for any number of watchers: no index of a loop over
\* suspicious_ips passes its end, and no handler takes a packet from an empty ring.
THEOREM TypeOKHolds == Spec => []TypeOK
<1>1. TypeInv => TypeOK
  BY DEF TypeInv
<1> QED
  BY <1>1, TypeInvHolds, PTL

----------------------------------------------------------------------------
(* What each step does to the thread that takes it                         *)

Moves(w, p, q) ==
  Others(w) /\ Start(w) /\ watcher[w].phase = p /\ watcher'[w].phase = q

Locals(w) ==
  /\ watcher'[w].current_time = watcher[w].current_time
  /\ watcher'[w].i = watcher[w].i
  /\ watcher'[w].read = watcher[w].read

LEMMA GotoMoves ==
  ASSUME TypeInv, NEW w \in Watchers, NEW p \in Phases, Goto(w, p)
  PROVE  Moves(w, watcher[w].phase, p) /\ Locals(w)
<1>1. ThrType
  BY TypeGivesThr DEF TypeInv
<1> QED
  BY <1>1, GotoFacts DEF Moves, Locals, Others, Start

LEMMA CaptureMoves ==
  ASSUME TypeInv, NEW w \in Watchers
  PROVE  /\ Click(w) => \/ Moves(w, "free", "starting") /\ Locals(w) /\ Valid
                        \/ UNCHANGED watcher
         /\ OpenDevice(w) => Moves(w, "opening", "announced") /\ Locals(w)
         /\ StartLoop(w) => Moves(w, "filtering", "looping") /\ Locals(w)
         /\ Fail(w) => /\ Moves(w, watcher[w].phase, "ended") /\ Locals(w)
                       /\ watcher[w].phase \in {"opening", "filtering"}
         /\ EndLoop(w) => Moves(w, "looping", "ended") /\ Locals(w)
<1>1. Click(w) => \/ Moves(w, "free", "starting") /\ Locals(w) /\ Valid
                  \/ UNCHANGED watcher
  BY GotoMoves, PhaseNames DEF Click
<1>2. OpenDevice(w) => Moves(w, "opening", "announced") /\ Locals(w)
  BY GotoMoves, PhaseNames DEF OpenDevice, At, Waiting
<1>3. StartLoop(w) => Moves(w, "filtering", "looping") /\ Locals(w)
  BY GotoMoves, PhaseNames DEF StartLoop, At
<1>4. Fail(w) => /\ Moves(w, watcher[w].phase, "ended") /\ Locals(w)
                 /\ watcher[w].phase \in {"opening", "filtering"}
  BY GotoMoves, PhaseNames DEF Fail, At
<1>5. EndLoop(w) => Moves(w, "looping", "ended") /\ Locals(w)
  BY GotoMoves, PhaseNames DEF EndLoop, At
<1> QED
  BY <1>1, <1>2, <1>3, <1>4, <1>5

LEMMA HandlerMoves ==
  ASSUME TypeInv, NEW w \in Watchers
  PROVE  /\ Handle(w) => /\ Moves(w, "looping", IF Due THEN "judging" ELSE "noting")
                         /\ watcher'[w].current_time = clock
                         /\ watcher'[w].i = watcher[w].i
         /\ Alert(w) => /\ Moves(w, "judging", "alerted")
                        /\ watcher'[w].i = 0
                        /\ watcher'[w].current_time = watcher[w].current_time
         /\ Report(w) => Moves(w, "judging", "reported") /\ Locals(w)
         /\ BlockIp(w) => /\ Moves(w, "blocking", "blocked")
                          /\ watcher'[w].i = watcher[w].i + 1
                          /\ watcher'[w].current_time = watcher[w].current_time
         /\ BlockDone(w) => Moves(w, "blocking", "reset_count") /\ Locals(w)
         /\ ResetCount(w) => Moves(w, "reset_count", "reset_time") /\ Locals(w)
         /\ ResetTime(w) => Moves(w, "reset_time", "reset_ips") /\ Locals(w)
         /\ ResetIps(w) => Moves(w, "reset_ips", "noting") /\ Locals(w)
         /\ AppendIp(w) => Moves(w, "appending", "counting") /\ Locals(w)
         /\ ReadCount(w) => /\ Moves(w, "counting", "storing")
                            /\ watcher'[w].read = packet_count
                            /\ watcher'[w].i = watcher[w].i
                            /\ watcher'[w].current_time = watcher[w].current_time
         /\ StoreCount(w) => Moves(w, "storing", "looping") /\ watcher'[w].current_time = 0
<1>1. ThrType /\ watcher[w] \in Thr /\ clock \in 0 .. MaxTime /\ ip_count \in 0 .. MaxIps
      /\ packet_count \in Nat
  BY TypeGivesThr DEF TypeInv, TypeOK, ThrType
<1>2. {"judging", "blocking", "reset_count", "reset_time", "reset_ips", "noting", "appending",
       "counting", "storing", "reported", "looping"} \subseteq Phases
  BY DEF Phases, Handling, Waiting
<1>3. Handle(w) => /\ Moves(w, "looping", IF Due THEN "judging" ELSE "noting")
                   /\ watcher'[w].current_time = clock
                   /\ watcher'[w].i = watcher[w].i
  <2> DEFINE p == IF Due THEN "judging" ELSE "noting"
  <2>1. p \in {"judging", "noting"}
    OBVIOUS
  <2>2. Handle(w) => watcher' = [watcher EXCEPT ![w].current_time = clock, ![w].phase = p]
    BY DEF Handle
  <2>3. Handle(w) => watcher[w].phase = "looping"
    BY DEF Handle, At
  <2> HIDE DEF p
  <2>4. Handle(w) => /\ Moves(w, "looping", p)
                     /\ watcher'[w].current_time = clock
                     /\ watcher'[w].i = watcher[w].i
    BY <1>1, <2>1, <2>2, <2>3, HandleThr DEF Moves
  <2> QED
    BY <2>4 DEF p
<1>4. Alert(w) => /\ Moves(w, "judging", "alerted")
                  /\ watcher'[w].i = 0
                  /\ watcher'[w].current_time = watcher[w].current_time
  BY <1>1, AlertThr DEF Alert, At, Moves
<1>5. BlockIp(w) => /\ Moves(w, "blocking", "blocked")
                    /\ watcher'[w].i = watcher[w].i + 1
                    /\ watcher'[w].current_time = watcher[w].current_time
  <2>1. SUFFICES ASSUME BlockIp(w)
        PROVE  /\ Moves(w, "blocking", "blocked")
               /\ watcher'[w].i = watcher[w].i + 1
               /\ watcher'[w].current_time = watcher[w].current_time
    OBVIOUS
  <2>2. watcher[w].i \in Nat /\ ip_count \in Nat /\ ip_count <= MaxIps
        /\ watcher[w].i < ip_count
    BY <1>1, <2>1, ConstantTypes DEF BlockIp, Thr
  <2>3. NextIndex(w) \in 0 .. MaxIps
    BY <2>2, ConstantTypes DEF NextIndex
  <2> QED
    BY <1>1, <2>1, <2>3, BlockIpThr DEF BlockIp, At, Moves, NextIndex
<1>6. ReadCount(w) => /\ Moves(w, "counting", "storing")
                      /\ watcher'[w].read = packet_count
                      /\ watcher'[w].i = watcher[w].i
                      /\ watcher'[w].current_time = watcher[w].current_time
  <2>1. "storing" \in Phases
    BY <1>2
  <2>2. ReadCount(w) => /\ watcher[w].phase = "counting"
                        /\ watcher' = [watcher EXCEPT ![w].phase = "storing",
                                                     ![w].read = packet_count]
    BY DEF ReadCount, At
  <2> QED
    BY <1>1, <2>1, <2>2, ReadThr DEF Moves
<1>7. StoreCount(w) => Moves(w, "storing", "looping") /\ watcher'[w].current_time = 0
  BY <1>1, StoreThr DEF StoreCount, At, Moves
<1>8. /\ Report(w) => Moves(w, "judging", "reported") /\ Locals(w)
      /\ BlockDone(w) => Moves(w, "blocking", "reset_count") /\ Locals(w)
      /\ ResetCount(w) => Moves(w, "reset_count", "reset_time") /\ Locals(w)
      /\ ResetTime(w) => Moves(w, "reset_time", "reset_ips") /\ Locals(w)
      /\ ResetIps(w) => Moves(w, "reset_ips", "noting") /\ Locals(w)
      /\ AppendIp(w) => Moves(w, "appending", "counting") /\ Locals(w)
  BY <1>2, GotoMoves DEF Report, BlockDone, ResetCount, ResetTime, ResetIps, AppendIp, At
<1> QED
  BY <1>3, <1>4, <1>5, <1>6, <1>7, <1>8

LEMMA NoteMoves ==
  ASSUME TypeInv, NEW w \in Watchers, Note(w)
  PROVE  LET new == Packet(w).seen # NULL /\ ~ Found(Packet(w).seen) /\ Room
         IN  /\ Moves(w, "noting", IF new THEN "appending" ELSE "counting")
             /\ watcher'[w].read = ip_count
             /\ watcher'[w].i = watcher[w].i
             /\ watcher'[w].current_time = watcher[w].current_time
<1>1. ThrType /\ ip_count \in Nat
  BY TypeGivesThr, ConstantTypes DEF TypeInv, TypeOK
<1> DEFINE new == Packet(w).seen # NULL /\ ~ Found(Packet(w).seen) /\ Room
           p == IF new THEN "appending" ELSE "counting"
<1>2. p \in Phases
  BY DEF Phases, Handling
<1>3. watcher' = [watcher EXCEPT ![w].phase = p, ![w].read = ip_count]
      /\ watcher[w].phase = "noting"
  BY DEF Note, At
<1> HIDE DEF p
<1>4. /\ Moves(w, "noting", p)
      /\ watcher'[w].read = ip_count
      /\ watcher'[w].i = watcher[w].i
      /\ watcher'[w].current_time = watcher[w].current_time
  <2>1. /\ Others(w) /\ Start(w) /\ watcher'[w].phase = p
        /\ watcher'[w].read = ip_count
        /\ watcher'[w].current_time = watcher[w].current_time
        /\ watcher'[w].i = watcher[w].i
    <3>1. PICK n \in Nat : n = ip_count
      BY <1>1
    <3>2. watcher' = [watcher EXCEPT ![w].phase = p, ![w].read = n]
      BY <1>3, <3>1
    <3>3. watcher[w] \in Thr
      BY <1>1 DEF ThrType
    <3> QED
      BY <1>1, <1>2, <3>1, <3>2, <3>3 DEF ThrType, Thr, Others, Start
  <2> QED
    BY <1>3, <2>1 DEF Moves
<1> QED
  BY <1>4 DEF p

LEMMA ArriveMoves ==
  ASSUME TypeInv, NEW w \in Watchers, NEW s \in Addresses, Arrive(w, s)
  PROVE  Moves(w, watcher[w].phase, watcher[w].phase) /\ Locals(w)
<1>1. ThrType
  BY TypeGivesThr DEF TypeInv
<1> QED
  BY <1>1, ArriveThr DEF Arrive, Moves, Locals

----------------------------------------------------------------------------
(* What the threads read of the window, for any number of watchers         *)

\* A step of a thread that has started its capture.
LEMMA LaterMoves ==
  ASSUME TypeInv, NEW w \in Watchers,
         \/ OpenDevice(w) \/ StartLoop(w) \/ Fail(w) \/ EndLoop(w) \/ Handle(w) \/ Handler(w)
         \/ \E s \in Addresses : Arrive(w, s)
  PROVE  /\ Others(w) /\ Start(w) /\ UNCHANGED user
         /\ watcher[w].phase \notin {"free", "starting"}
         /\ watcher'[w].phase \notin {"free", "starting"}
<1>1. CASE OpenDevice(w) \/ StartLoop(w) \/ Fail(w) \/ EndLoop(w)
  BY <1>1, CaptureMoves DEF OpenDevice, StartLoop, Fail, EndLoop, Moves
<1>2. CASE Handle(w)
  <2>1. UNCHANGED user
    BY <1>2 DEF Handle
  <2>2. Moves(w, "looping", "judging") \/ Moves(w, "looping", "noting")
    BY <1>2, HandlerMoves
  <2> QED
    BY <2>1, <2>2 DEF Moves
<1>3. CASE Handler(w)
  <2>1. UNCHANGED user
    BY <1>3 DEF Handler, Alert, Report, BlockIp, BlockDone, ResetCount, ResetTime, ResetIps,
         Note, AppendIp, ReadCount, StoreCount
  <2>2. CASE Note(w)
    BY <2>1, <2>2, NoteMoves DEF Moves
  <2>3. CASE ~ Note(w)
    BY <1>3, <2>1, <2>3, HandlerMoves DEF Handler, Moves
  <2> QED
    BY <2>2, <2>3
<1>4. CASE \E s \in Addresses : Arrive(w, s)
  <2>1. PICK s \in Addresses : Arrive(w, s)
    BY <1>4
  <2>2. watcher[w].phase \notin {"free", "starting"}
    BY <2>1 DEF Arrive, Waiting, Handling
  <2> QED
    BY <2>1, <2>2, ArriveMoves DEF Moves, Arrive
<1> QED
  BY <1>1, <1>2, <1>3, <1>4

LEMMA InitHasteInv == Init => HasteInv
  BY DEF Init, HasteInv, CheckedFieldsKept, RefusedValuesNeedHaste

\* A step that leaves the window alone and starts no thread.
LEMMA HasteKept ==
  ASSUME HasteInv, UNCHANGED user,
         \A v \in Watchers :
           /\ watcher'[v].edited = watcher[v].edited /\ watcher'[v].stale = watcher[v].stale
           /\ watcher'[v].port = watcher[v].port
           /\ watcher'[v].threshold = watcher[v].threshold
           /\ watcher'[v].phase = "starting" => watcher[v].phase = "starting"
           /\ watcher'[v].phase \notin {"free", "starting"} =>
                watcher[v].phase \notin {"free", "starting"}
  PROVE  HasteInv'
<1>1. Valid' = Valid
  BY DEF Valid, user
<1> QED
  BY <1>1 DEF HasteInv, CheckedFieldsKept, RefusedValuesNeedHaste, user

LEMMA NextHasteInv ==
  ASSUME TypeInv, HasteInv, [Next]_vars
  PROVE  HasteInv'
<1>1. CASE UNCHANGED vars \/ Exit \/ RunQueuedError \/ Tick
  <2>1. UNCHANGED <<user, watcher>>
    BY <1>1 DEF vars, Exit, RunQueuedError, Tick
  <2> QED
    BY <2>1, HasteKept
<1>2. CASE OpenWindow
  <2>1. UNCHANGED watcher /\ ~ open /\ open'
    BY <1>2 DEF OpenWindow
  <2>2. \A v \in Watchers : watcher[v].phase = "starting" => watcher[v].stale
    BY <2>1 DEF HasteInv, CheckedFieldsKept
  <2> QED
    BY <2>1, <2>2 DEF HasteInv, CheckedFieldsKept, RefusedValuesNeedHaste
<1>3. CASE CloseWindow
  <2>1. /\ \A v \in Watchers :
             /\ watcher'[v].phase = watcher[v].phase
             /\ watcher[v].edited => watcher'[v].edited
             /\ watcher[v].stale => watcher'[v].stale
             /\ watcher'[v].port = watcher[v].port
             /\ watcher'[v].threshold = watcher[v].threshold
    BY <1>3, MarkFacts, TypeGivesThr DEF TypeInv
  <2>2. \A v \in Watchers : watcher[v].phase = "starting" => watcher'[v].stale
    <3> SUFFICES ASSUME NEW v \in Watchers, watcher[v].phase = "starting"
                 PROVE  watcher'[v].stale
      OBVIOUS
    <3>1. watcher'[v] = [watcher[v] EXCEPT !.stale = @ \/ watcher[v].phase = "starting"]
      BY <1>3 DEF CloseWindow
    <3> DEFINE b == watcher[v].stale \/ watcher[v].phase = "starting"
    <3>2. b /\ b \in BOOLEAN
      OBVIOUS
    <3>3. watcher'[v] = [watcher[v] EXCEPT !.stale = b]
      BY <3>1
    <3>4. watcher[v] \in Thr
      BY TypeGivesThr DEF TypeInv, ThrType
    <3> HIDE DEF b
    <3>5. watcher'[v].stale = b
      BY <3>3, <3>4 DEF Thr
    <3> QED
      BY <3>2, <3>5
  <2> QED
    BY <2>1, <2>2 DEF HasteInv, CheckedFieldsKept, RefusedValuesNeedHaste
<1>4. CASE \E f \in Forms : Edit(f)
  <2>1. PICK f \in Forms : Edit(f)
    BY <1>4
  <2>2. /\ \A v \in Watchers :
             /\ watcher'[v].phase = watcher[v].phase
             /\ watcher[v].edited => watcher'[v].edited
             /\ watcher[v].stale => watcher'[v].stale
             /\ watcher'[v].port = watcher[v].port
             /\ watcher'[v].threshold = watcher[v].threshold
    BY <1>4, MarkFacts, TypeGivesThr DEF TypeInv
  <2>3. \A v \in Watchers : watcher[v].phase = "starting" => watcher'[v].edited
    <3> SUFFICES ASSUME NEW v \in Watchers, watcher[v].phase = "starting"
                 PROVE  watcher'[v].edited
      OBVIOUS
    <3>1. watcher'[v] = [watcher[v] EXCEPT !.edited = @ \/ watcher[v].phase = "starting"]
      BY <2>1 DEF Edit
    <3> DEFINE b == watcher[v].edited \/ watcher[v].phase = "starting"
    <3>2. b /\ b \in BOOLEAN
      OBVIOUS
    <3>3. watcher'[v] = [watcher[v] EXCEPT !.edited = b]
      BY <3>1
    <3>4. watcher[v] \in Thr
      BY TypeGivesThr DEF TypeInv, ThrType
    <3> HIDE DEF b
    <3>5. watcher'[v].edited = b
      BY <3>3, <3>4 DEF Thr
    <3> QED
      BY <3>2, <3>5
  <2>4. open /\ open' = open
    BY <2>1 DEF Edit
  <2> QED
    BY <2>2, <2>3, <2>4 DEF HasteInv, CheckedFieldsKept, RefusedValuesNeedHaste
<1>5. CASE AnswerBox
  <2>1. UNCHANGED user
    BY <1>5 DEF AnswerBox
  <2>2. CASE UNCHANGED watcher
    BY <2>1, <2>2, HasteKept
  <2>3. CASE /\ Head(boxes) \in Watchers
             /\ watcher[Head(boxes)].phase \in Waiting
             /\ Goto(Head(boxes), AfterBox(watcher[Head(boxes)].phase))
    <3> DEFINE w == Head(boxes)
               p == AfterBox(watcher[w].phase)
    <3>1. p \in Phases /\ p \in {"filtering", "reset_count", "blocking"}
      BY <2>3, AfterBoxPhase
    <3>2. Moves(w, watcher[w].phase, p)
      BY <2>3, <3>1, GotoMoves
    <3>3. watcher[w].phase \notin {"free", "starting"}
      BY <2>3, PhaseNames
    <3> QED
      BY <2>1, <3>1, <3>2, <3>3, HasteKept DEF Moves, Others, Start
  <2> QED
    BY <1>5, <2>2, <2>3, AnswerBoxFacts
<1>6. ASSUME NEW w \in Watchers, Click(w)
      PROVE  HasteInv'
  <2>1. UNCHANGED user
    BY <1>6 DEF Click
  <2>2. CASE UNCHANGED watcher
    BY <2>1, <2>2, HasteKept
  <2>3. CASE Moves(w, "free", "starting") /\ Valid
    <3>1. Valid' /\ open'
      BY <1>6, <2>1, <2>3 DEF Valid, user, Click
    <3> QED
      BY <2>1, <2>3, <3>1 DEF Moves, Others, Start, HasteInv, CheckedFieldsKept,
         RefusedValuesNeedHaste, user, Valid
  <2> QED
    BY <1>6, <2>2, <2>3, CaptureMoves
<1>7. ASSUME NEW w \in Watchers, ReadFields(w) \/ ReadDestroyedFields(w)
      PROVE  HasteInv'
  <2>1. PICK f \in Fields :
          /\ watcher' = [watcher EXCEPT ![w].phase = "opening", ![w].port = f.port,
                                        ![w].threshold = f.seuil]
          /\ watcher[w].stale \/ f = fields
    BY <1>7 DEF ReadFields, ReadDestroyedFields, TypeInv, TypeOK
  <2>2. UNCHANGED user /\ watcher[w].phase = "starting"
    BY <1>7 DEF ReadFields, ReadDestroyedFields, At
  <2>3. /\ Others(w) /\ watcher'[w].phase = "opening"
        /\ watcher'[w].edited = watcher[w].edited
        /\ watcher'[w].stale = watcher[w].stale
        /\ watcher'[w].port = f.port /\ watcher'[w].threshold = f.seuil
    BY <2>1, ReadFieldsThr, TypeGivesThr DEF TypeInv
  <2>4. watcher[w].edited \/ watcher[w].stale \/ (f.port # 0 /\ f.seuil # 0)
    <3>1. watcher[w].edited \/ watcher[w].stale \/ Valid
      BY <2>2 DEF HasteInv, CheckedFieldsKept
    <3>2. Valid => fields.port # 0 /\ fields.seuil # 0
      BY DEF Valid
    <3>3. Valid /\ f = fields => f.port # 0 /\ f.seuil # 0
      BY <3>2
    <3> QED
      BY <2>1, <3>1, <3>3
  <2>5. Valid' = Valid
    BY <2>2 DEF Valid, user
  <2> QED
    BY <2>2, <2>3, <2>4, <2>5 DEF Others, HasteInv, CheckedFieldsKept, RefusedValuesNeedHaste, user
<1>8. ASSUME NEW w \in Watchers,
             \/ OpenDevice(w) \/ StartLoop(w) \/ Fail(w) \/ EndLoop(w) \/ Handle(w) \/ Handler(w)
             \/ \E s \in Addresses : Arrive(w, s)
      PROVE  HasteInv'
  BY <1>8, LaterMoves, HasteKept DEF Others, Start
<1> QED
  BY <1>1, <1>2, <1>3, <1>4, <1>5, <1>6, <1>7, <1>8 DEF Next, Thread

\* A thread that captures on a port or with a threshold that initWatcher refuses was
\* started with good ones: the user changed or destroyed the fields in between.
THEOREM RefusedValuesNeedHasteHolds == Spec => []RefusedValuesNeedHaste
<1>1. HasteInv => RefusedValuesNeedHaste
  BY DEF HasteInv
<1> QED
  BY <1>1, InitHasteInv, NextHasteInv, TypeInvHolds, PTL DEF Spec

----------------------------------------------------------------------------
(* One watcher alone                                                       *)

Early == {"free", "starting", "opening", "announced", "filtering"}

LEMMA InitIntervalInv == Init => IntervalInv
<1> SUFFICES ASSUME Init PROVE IntervalInv
  OBVIOUS
<1>1. /\ counted = <<>> /\ ip_count = 0 /\ packet_count = 0 /\ start_time = 0 /\ clock = 0
      /\ fault = "none" /\ Len(<<>>) = 0
      /\ \A w \in Watchers : watcher[w].phase = "free" /\ watcher[w].current_time = 0
  BY DEF Init
<1>2. QuietBefore /\ CountIsExact /\ CountedInInterval
  BY <1>1 DEF QuietBefore, CountIsExact, CountedInInterval
<1>3. ListIsSound /\ ListIsComplete /\ BlockedSoFar
  BY <1>1 DEF ListIsSound, ListIsComplete, BlockedSoFar
<1> QED
  BY <1>1, <1>2, <1>3 DEF IntervalInv

\* What the packet in hand must meet before it is appended, and before it is counted.
MayAppend(w) ==
  /\ watcher[w].read = ip_count /\ ip_count < MaxIps
  /\ Packet(w).seen # NULL /\ ~ Found(Packet(w).seen)

Noted(w) == Packet(w).seen = NULL \/ Found(Packet(w).seen) \/ ip_count = MaxIps

Blocking(w) ==
  /\ watcher[w].i <= ip_count
  /\ watcher[w].phase = "alerted" => watcher[w].i = 0
  /\ watcher[w].phase \in {"blocking", "blocked"} =>
       \A n \in 0 .. watcher[w].i - 1 : suspicious_ips[n] \in blocked

\* A step that writes nothing of what the watchers share.
LEMMA QuietStep ==
  ASSUME IntervalInv, NEW w, Watchers = {w},
         UNCHANGED <<shared, counted>>, fault' # "index", clock' >= clock,
         start_time \in Int, clock \in Int, clock' \in Int,
         watcher'[w].phase \in Early => watcher[w].phase \in Early,
         watcher'[w].phase = "storing" => watcher'[w].read = packet_count,
         watcher'[w].current_time <= clock',
         watcher[w].phase \in {"reset_time", "reset_ips"}
           <=> watcher'[w].phase \in {"reset_time", "reset_ips"},
         watcher'[w].phase \in {"reset_ips", "noting", "appending", "counting", "storing"} =>
           watcher'[w].current_time \in start_time .. start_time + Interval - 1,
         watcher[w].phase \in {"counting", "storing"} =>
           watcher'[w].phase \in {"counting", "storing"} /\ Packet(w)' = Packet(w),
         watcher'[w].phase = "appending" => MayAppend(w)',
         watcher'[w].phase \in {"counting", "storing"} => Noted(w)',
         watcher'[w].phase \in {"alerted", "blocking", "blocked"} => Blocking(w)'
  PROVE  IntervalInv'
<1>1. QuietBefore'
  BY DEF IntervalInv, QuietBefore, Early, shared
<1>2. CountIsExact'
  BY DEF IntervalInv, CountIsExact, shared
<1>3. CountedInInterval'
  BY DEF IntervalInv, CountedInInterval, shared
<1>4. ListIsSound'
  <2>1. /\ \A i, j \in 0 .. ip_count' - 1 : suspicious_ips'[i] = suspicious_ips'[j] => i = j
        /\ \A i \in 0 .. ip_count' - 1 : suspicious_ips'[i] # NULL
    BY DEF IntervalInv, ListIsSound, shared
  <2>2. ASSUME watcher'[w].phase \notin {"reset_time", "reset_ips"},
               NEW i \in 0 .. ip_count' - 1
        PROVE  IsCounted(suspicious_ips[i])' \/ InHand(w, suspicious_ips[i])'
    <3>1. IsCounted(suspicious_ips[i]) \/ InHand(w, suspicious_ips[i])
      BY <2>2 DEF IntervalInv, ListIsSound, shared
    <3> QED
      BY <3>1 DEF IsCounted, InHand, shared
  <2>3. watcher'[w].phase = "appending" => MayAppend(w)'
    OBVIOUS
  <2> QED
    BY <2>1, <2>2, <2>3 DEF ListIsSound, MayAppend
<1>5. ListIsComplete'
  <2>1. ASSUME NEW k \in 1 .. Len(counted')
        PROVE  (\/ counted[k].packet.seen = NULL \/ Found(counted[k].packet.seen)
                \/ ip_count = MaxIps)'
    <3>1. \/ counted[k].packet.seen = NULL \/ Found(counted[k].packet.seen)
          \/ ip_count = MaxIps
      BY DEF IntervalInv, ListIsComplete
    <3> QED
      BY <3>1 DEF Found, shared
  <2> QED
    BY <2>1 DEF ListIsComplete, Noted
<1>6. BlockedSoFar'
  BY DEF BlockedSoFar, Blocking
<1> QED
  BY <1>1, <1>2, <1>3, <1>4, <1>5, <1>6 DEF IntervalInv

\* A step that moves no thread and writes nothing that the watchers share.
LEMMA CalmStep ==
  ASSUME TypeInv, IntervalInv, NEW w, Watchers = {w}, UNCHANGED <<shared, ghosts>>,
         fault' # "index", clock' >= clock, clock' \in Int,
         watcher'[w].phase = watcher[w].phase, Locals(w),
         watcher[w].phase \in Holding => Packet(w)' = Packet(w)
  PROVE  IntervalInv'
<1>1. start_time \in Int /\ clock \in Int /\ watcher[w].current_time \in Int
  <2>1. watcher[w] \in Thr
    BY TypeGivesThr DEF TypeInv, ThrType
  <2> QED
    BY <2>1 DEF TypeInv, TypeOK, Thr
<1>2. UNCHANGED <<shared, counted, blocked>>
  BY DEF ghosts
<1>3. watcher'[w].phase = "storing" => watcher'[w].read = packet_count
  BY DEF IntervalInv, CountIsExact, Locals
<1>4. watcher'[w].current_time <= clock'
  BY <1>1 DEF IntervalInv, CountedInInterval, Locals
<1>5. watcher'[w].phase \in {"reset_ips", "noting", "appending", "counting", "storing"} =>
        watcher'[w].current_time \in start_time .. start_time + Interval - 1
  BY DEF IntervalInv, CountedInInterval, Locals
<1>6. {"appending", "counting", "storing"} \subseteq Holding
  BY DEF Holding, Handling
<1>7. watcher'[w].phase = "appending" => MayAppend(w)'
  BY <1>2, <1>6 DEF IntervalInv, ListIsSound, Locals, MayAppend, Found, shared
<1>8. watcher'[w].phase \in {"counting", "storing"} => Noted(w)'
  BY <1>2, <1>6 DEF IntervalInv, ListIsComplete, Noted, Found, shared
<1>9. Blocking(w)' \/ watcher'[w].phase \notin {"alerted", "blocking", "blocked"}
  BY <1>2 DEF IntervalInv, BlockedSoFar, Blocking, Locals, shared
<1> QED
  BY <1>1, <1>2, <1>3, <1>4, <1>5, <1>6, <1>7, <1>8, <1>9, QuietStep

LEMMA OneWatcherUser ==
  ASSUME TypeInv, IntervalInv, NEW w, Watchers = {w},
         \/ UNCHANGED vars \/ OpenWindow \/ CloseWindow \/ (\E f \in Forms : Edit(f)) \/ Exit
         \/ RunQueuedError \/ Tick \/ \E s \in Addresses : Arrive(w, s)
  PROVE  IntervalInv'
<1>1. UNCHANGED <<shared, ghosts>>
  BY DEF vars, OpenWindow, CloseWindow, Edit, Exit, RunQueuedError, Tick, Arrive
<1>2. clock' \in Int /\ clock' >= clock
  <2>1. clock' = clock \/ clock' = clock + 1
    BY DEF vars, OpenWindow, CloseWindow, Edit, Exit, RunQueuedError, Tick, Arrive
  <2>2. clock \in Int
    BY DEF TypeInv, TypeOK
  <2> QED
    BY <2>1, <2>2
<1>3. fault' # "index"
  BY DEF vars, OpenWindow, CloseWindow, Edit, Exit, RunQueuedError, Tick, Arrive, Undefined,
     IntervalInv
<1>4. watcher'[w].phase = watcher[w].phase /\ Locals(w)
  <2>1. CASE CloseWindow \/ \E f \in Forms : Edit(f)
    BY <2>1, MarkFacts, TypeGivesThr DEF TypeInv, Locals
  <2>2. CASE \E s \in Addresses : Arrive(w, s)
    BY <2>2, ArriveMoves DEF Moves
  <2>3. CASE UNCHANGED vars \/ OpenWindow \/ Exit \/ RunQueuedError \/ Tick
    BY <2>3 DEF vars, OpenWindow, Exit, RunQueuedError, Tick, Locals
  <2> QED
    BY <2>1, <2>2, <2>3
<1>5. ASSUME watcher[w].phase \in Holding
      PROVE  Packet(w)' = Packet(w)
  <2>1. CASE \E s \in Addresses : Arrive(w, s)
    <3>1. ring[w] # <<>> /\ ring[w] \in Seq(Packets) /\ ring \in [Watchers -> Seq(Packets)]
      BY <1>5 DEF TypeInv, TypeOK, HandledInRing, Holding
    <3>2. PICK s \in Addresses : ring' = [ring EXCEPT ![w] = Append(@, [seen |-> s, at |-> clock])]
      BY <2>1 DEF Arrive
    <3>3. ring'[w] = Append(ring[w], [seen |-> s, at |-> clock])
      BY <3>1, <3>2
    <3>4. [seen |-> s, at |-> clock] \in Packets
      BY DEF Packets, TypeInv, TypeOK
    <3>5. Head(ring'[w]) = Head(ring[w])
      BY <3>1, <3>3, <3>4
    <3> QED
      BY <3>5 DEF Packet
  <2>2. CASE \/ UNCHANGED vars \/ OpenWindow \/ CloseWindow \/ (\E f \in Forms : Edit(f))
             \/ Exit \/ RunQueuedError \/ Tick
    BY <2>2 DEF vars, OpenWindow, CloseWindow, Edit, Exit, RunQueuedError, Tick, Packet
  <2> QED
    BY <2>1, <2>2
<1> QED
  BY <1>1, <1>2, <1>3, <1>4, <1>5, CalmStep

\* The window, the box of the main thread, and the life of a capture.
LEMMA OneWatcherCapture ==
  ASSUME TypeInv, IntervalInv, NEW w, Watchers = {w},
         \/ Click(w) \/ ReadFields(w) \/ ReadDestroyedFields(w) \/ OpenDevice(w) \/ Fail(w)
         \/ EndLoop(w)
  PROVE  IntervalInv'
<1>1. start_time \in Int /\ clock \in Int /\ watcher[w].current_time \in Int
  <2>1. watcher[w] \in Thr
    BY TypeGivesThr DEF TypeInv, ThrType
  <2> QED
    BY <2>1 DEF TypeInv, TypeOK, Thr
<1>2. UNCHANGED <<shared, counted, clock>>
  BY DEF Click, ReadFields, ReadDestroyedFields, OpenDevice, Fail, EndLoop, ghosts
<1>3. fault' # "index"
  BY DEF Click, ReadFields, ReadDestroyedFields, OpenDevice, Fail, EndLoop, Undefined, IntervalInv
<1>4. CASE watcher' = watcher
  <2>1. UNCHANGED <<ring, ghosts>>
    BY <1>4, CaptureMoves
    DEF Click, ReadFields, ReadDestroyedFields, OpenDevice, Fail, EndLoop, Moves
  <2>2. Locals(w) /\ Packet(w)' = Packet(w)
    BY <1>4, <2>1 DEF Locals, Packet
  <2> QED
    BY <1>1, <1>2, <1>3, <1>4, <2>1, <2>2, CalmStep
<1>5. CASE /\ watcher[w].phase \in {"free", "starting", "opening", "filtering", "looping"}
           /\ watcher'[w].phase \in {"starting", "opening", "announced", "ended"}
           /\ watcher'[w].phase # "ended" => watcher[w].phase \in Early
           /\ watcher'[w].current_time = watcher[w].current_time
  <2>1. watcher'[w].current_time <= clock'
    BY <1>2, <1>5 DEF IntervalInv, CountedInInterval
  <2> QED
    BY <1>1, <1>2, <1>3, <1>5, <2>1, QuietStep DEF Early
<1>6. \/ watcher' = watcher
      \/ /\ watcher[w].phase \in {"free", "starting", "opening", "filtering", "looping"}
         /\ watcher'[w].phase \in {"starting", "opening", "announced", "ended"}
         /\ watcher'[w].phase # "ended" => watcher[w].phase \in Early
         /\ watcher'[w].current_time = watcher[w].current_time
  <2>1. CASE Click(w) \/ OpenDevice(w) \/ Fail(w) \/ EndLoop(w)
    BY <2>1, CaptureMoves DEF Moves, Locals, Early
  <2>2. CASE ReadFields(w) \/ ReadDestroyedFields(w)
    <3>1. PICK f \in Fields :
            watcher' = [watcher EXCEPT ![w].phase = "opening", ![w].port = f.port,
                                       ![w].threshold = f.seuil]
      BY <2>2 DEF ReadFields, ReadDestroyedFields, TypeInv, TypeOK
    <3>2. watcher[w].phase = "starting"
      BY <2>2 DEF ReadFields, ReadDestroyedFields, At
    <3>3. watcher'[w].phase = "opening" /\ watcher'[w].current_time = watcher[w].current_time
      BY <3>1, ReadFieldsThr, TypeGivesThr DEF TypeInv
    <3> QED
      BY <3>2, <3>3 DEF Early
  <2> QED
    BY <2>1, <2>2
<1> QED
  BY <1>4, <1>5, <1>6

\* The capture starts: nothing has been counted.
LEMMA OneWatcherStart ==
  ASSUME TypeInv, IntervalInv, NEW w, Watchers = {w}, StartLoop(w)
  PROVE  IntervalInv'
<1>1. watcher[w].phase = "filtering" /\ watcher'[w].phase = "looping" /\ Locals(w)
  BY CaptureMoves DEF Moves
<1>2. counted = <<>> /\ ip_count = 0 /\ clock \in Int
  BY <1>1 DEF IntervalInv, QuietBefore, TypeInv, TypeOK
<1>3. /\ UNCHANGED <<clock, packet_count, suspicious_ips, ip_count, counted, blocked, fault>>
      /\ start_time' = clock
  BY DEF StartLoop, ghosts
<1>4. QuietBefore' /\ CountIsExact'
  BY <1>1, <1>2, <1>3 DEF IntervalInv, QuietBefore, CountIsExact
<1>5. CountedInInterval'
  BY <1>1, <1>2, <1>3 DEF IntervalInv, CountedInInterval, Locals
<1>6. ListIsSound' /\ ListIsComplete' /\ BlockedSoFar'
  BY <1>1, <1>2, <1>3 DEF ListIsSound, ListIsComplete, BlockedSoFar
<1> QED
  BY <1>3, <1>4, <1>5, <1>6 DEF IntervalInv

\* The answer to a box: the handler goes on, the index not having moved.
LEMMA OneWatcherAnswer ==
  ASSUME TypeInv, IntervalInv, NEW w, Watchers = {w}, AnswerBox
  PROVE  IntervalInv'
<1>1. start_time \in Int /\ clock \in Int /\ watcher[w].i \in Nat
  <2>1. watcher[w] \in Thr
    BY TypeGivesThr DEF TypeInv, ThrType
  <2> QED
    BY <2>1, ConstantTypes DEF TypeInv, TypeOK, Thr
<1>2. UNCHANGED <<shared, ghosts, clock, fault, ring>>
  BY DEF AnswerBox
<1>3. CASE UNCHANGED watcher
  BY <1>1, <1>2, <1>3, CalmStep DEF Locals, Packet, IntervalInv
<1>4. CASE /\ Head(boxes) \in Watchers
           /\ watcher[Head(boxes)].phase \in Waiting
           /\ Goto(Head(boxes), AfterBox(watcher[Head(boxes)].phase))
  <2> DEFINE p == watcher[w].phase
             q == AfterBox(p)
  <2>1. Head(boxes) = w /\ p \in Waiting /\ Goto(w, q)
    BY <1>4
  <2>2. /\ q \in Phases /\ q \in {"filtering", "reset_count", "blocking"}
        /\ q = "filtering" => p = "announced"
        /\ q = "blocking" => p \in {"alerted", "blocked"}
    BY <2>1, AfterBoxPhase DEF Waiting
  <2>3. watcher'[w].phase = q /\ Locals(w)
    BY <2>1, <2>2, GotoMoves DEF Moves
  <2>4. p \notin {"reset_time", "reset_ips", "counting", "storing"}
    BY <2>1 DEF Waiting
  <2>5. UNCHANGED <<shared, counted, blocked>>
    BY <1>2 DEF ghosts
  <2>6. q = "blocking" => Blocking(w)'
    <3> SUFFICES ASSUME q = "blocking" PROVE Blocking(w)'
      OBVIOUS
    <3>1. /\ watcher[w].i <= ip_count
          /\ p = "alerted" => watcher[w].i = 0
          /\ p = "blocked" => \A n \in 0 .. watcher[w].i - 1 : suspicious_ips[n] \in blocked
      BY <2>2 DEF IntervalInv, BlockedSoFar
    <3>2. \A n \in 0 .. watcher[w].i - 1 : suspicious_ips[n] \in blocked
      BY <1>1, <2>2, <3>1
    <3> QED
      BY <2>3, <2>5, <3>1, <3>2 DEF Blocking, Locals, shared
  <2>7. watcher'[w].current_time <= clock'
    BY <1>2, <2>3 DEF IntervalInv, CountedInInterval, Locals
  <2>8. fault' # "index" /\ clock' >= clock /\ clock' \in Int
    BY <1>1, <1>2 DEF IntervalInv
  <2>9. q \in Early => p \in Early
    BY <2>2 DEF Early
  <2> HIDE DEF q
  <2> QED
    BY <1>1, <2>2, <2>3, <2>4, <2>5, <2>6, <2>7, <2>8, <2>9, QuietStep
<1> QED
  BY <1>3, <1>4, AnswerBoxFacts

\* The steps of packetHandler that write nothing the watchers share.
LEMMA OneWatcherQuietHandler ==
  ASSUME TypeInv, IntervalInv, NEW w, Watchers = {w},
         \/ Handle(w) \/ Alert(w) \/ Report(w) \/ BlockIp(w) \/ BlockDone(w)
         \/ Note(w) \/ ReadCount(w)
  PROVE  IntervalInv'
<1>1. /\ start_time \in Int /\ clock \in Int /\ watcher[w].i \in Nat /\ ip_count \in Nat
      /\ ip_count <= MaxIps /\ watcher[w].current_time \in Int
  <2>1. watcher[w] \in Thr
    BY TypeGivesThr DEF TypeInv, ThrType
  <2> QED
    BY <2>1, ConstantTypes DEF TypeInv, TypeOK, Thr
<1>2. UNCHANGED <<shared, counted, clock, fault, ring>>
  BY DEF Handle, Alert, Report, BlockIp, BlockDone, Note, ReadCount, ghosts
<1>3. fault' # "index" /\ clock' >= clock /\ clock' \in Int /\ Packet(w)' = Packet(w)
  BY <1>1, <1>2 DEF IntervalInv, Packet
<1>4. CASE Handle(w)
  <2>1. /\ watcher[w].phase = "looping" /\ watcher'[w].current_time = clock
        /\ Due => watcher'[w].phase = "judging"
        /\ ~ Due => watcher'[w].phase = "noting"
    BY <1>4, HandlerMoves DEF Moves
  <2>2. ~ Due => clock \in start_time .. start_time + Interval - 1
    BY <1>1, ConstantTypes DEF Due, IntervalInv, CountedInInterval
  <2> QED
    BY <1>1, <1>2, <1>3, <2>1, <2>2, QuietStep DEF Early
<1>5. CASE Alert(w) \/ Report(w) \/ BlockDone(w)
  <2>1. /\ watcher[w].phase \in {"judging", "blocking"}
        /\ watcher'[w].phase \in {"alerted", "reported", "reset_count"}
        /\ watcher'[w].phase = "alerted" => watcher'[w].i = 0
        /\ watcher'[w].current_time = watcher[w].current_time
    BY <1>5, HandlerMoves DEF Moves, Locals
  <2>2. watcher'[w].phase = "alerted" => Blocking(w)'
    BY <1>1, <1>2, <2>1 DEF Blocking, shared
  <2>3. watcher'[w].current_time <= clock'
    BY <1>2, <2>1 DEF IntervalInv, CountedInInterval
  <2>4. blocked' = blocked
    BY <1>5 DEF Alert, Report, BlockDone, ghosts
  <2> QED
    BY <1>1, <1>2, <1>3, <2>1, <2>2, <2>3, <2>4, QuietStep DEF Early
<1>6. CASE BlockIp(w)
  <2>1. /\ watcher[w].phase = "blocking" /\ watcher'[w].phase = "blocked"
        /\ watcher'[w].i = watcher[w].i + 1
        /\ watcher'[w].current_time = watcher[w].current_time
    BY <1>6, HandlerMoves DEF Moves
  <2>2. watcher[w].i < ip_count /\ blocked' = blocked \union {suspicious_ips[watcher[w].i]}
    BY <1>6 DEF BlockIp
  <2>3. \A n \in 0 .. watcher[w].i - 1 : suspicious_ips[n] \in blocked
    BY <2>1 DEF IntervalInv, BlockedSoFar
  <2>4. \A n \in 0 .. watcher'[w].i - 1 : suspicious_ips[n] \in blocked'
    <3> SUFFICES ASSUME NEW n \in 0 .. watcher'[w].i - 1
                 PROVE  suspicious_ips[n] \in blocked'
      OBVIOUS
    <3>1. n = watcher[w].i \/ n \in 0 .. watcher[w].i - 1
      BY <1>1, <2>1
    <3> QED
      BY <2>2, <2>3, <3>1
  <2>5. Blocking(w)'
    BY <1>1, <1>2, <2>1, <2>2, <2>4 DEF Blocking, shared
  <2>6. watcher'[w].current_time <= clock'
    BY <1>2, <2>1 DEF IntervalInv, CountedInInterval
  <2> QED
    BY <1>1, <1>2, <1>3, <2>1, <2>2, <2>5, <2>6, QuietStep DEF Early
<1>7. CASE Note(w)
  <2> DEFINE new == Packet(w).seen # NULL /\ ~ Found(Packet(w).seen) /\ Room
  <2>1. /\ watcher[w].phase = "noting"
        /\ new => watcher'[w].phase = "appending"
        /\ ~ new => watcher'[w].phase = "counting"
        /\ watcher'[w].read = ip_count
        /\ watcher'[w].current_time = watcher[w].current_time
    BY <1>7, NoteMoves DEF Moves
  <2>2. new => MayAppend(w)'
    BY <1>2, <1>3, <2>1 DEF MayAppend, Room, Found, shared
  <2>3. ~ new => Noted(w)'
    <3>1. ~ new => Packet(w).seen = NULL \/ Found(Packet(w).seen) \/ ip_count = MaxIps
      BY <1>1, ConstantTypes DEF Room
    <3> QED
      BY <1>2, <1>3, <3>1 DEF Noted, Found, shared
  <2>4. /\ watcher'[w].current_time <= clock'
        /\ watcher'[w].current_time \in start_time .. start_time + Interval - 1
    BY <1>2, <2>1 DEF IntervalInv, CountedInInterval
  <2>5. blocked' = blocked
    BY <1>7 DEF Note, ghosts
  <2> HIDE DEF new
  <2>6. \/ watcher'[w].phase = "appending" /\ MayAppend(w)'
        \/ watcher'[w].phase = "counting" /\ Noted(w)'
    BY <2>1, <2>2, <2>3
  <2> QED
    BY <1>1, <1>2, <1>3, <2>1, <2>4, <2>5, <2>6, QuietStep DEF Early
<1>8. CASE ReadCount(w)
  <2>1. /\ watcher[w].phase = "counting" /\ watcher'[w].phase = "storing"
        /\ watcher'[w].read = packet_count
        /\ watcher'[w].current_time = watcher[w].current_time
    BY <1>8, HandlerMoves DEF Moves
  <2>2. Noted(w)'
    BY <1>2, <1>3, <2>1 DEF IntervalInv, ListIsComplete, Noted, Found, shared
  <2>3. /\ watcher'[w].current_time <= clock'
        /\ watcher'[w].current_time \in start_time .. start_time + Interval - 1
    BY <1>2, <2>1 DEF IntervalInv, CountedInInterval
  <2>4. blocked' = blocked
    BY <1>8 DEF ReadCount, ghosts
  <2> QED
    BY <1>1, <1>2, <1>3, <2>1, <2>2, <2>3, <2>4, QuietStep DEF Early
<1> QED
  BY <1>4, <1>5, <1>6, <1>7, <1>8

\* The reset: the count, then the start of the interval, then the list.
LEMMA OneWatcherReset ==
  ASSUME TypeInv, IntervalInv, NEW w, Watchers = {w},
         ResetCount(w) \/ ResetTime(w) \/ ResetIps(w)
  PROVE  IntervalInv'
<1>1. /\ start_time \in Int /\ clock \in Int /\ watcher[w].current_time \in Int
      /\ ip_count \in Nat
  <2>1. watcher[w] \in Thr
    BY TypeGivesThr DEF TypeInv, ThrType
  <2> QED
    BY <2>1, ConstantTypes DEF TypeInv, TypeOK, Thr
<1>2. UNCHANGED <<ring, clock, suspicious_ips, blocked, fault>>
  BY DEF ResetCount, ResetTime, ResetIps, ghosts
<1>3. CASE ResetCount(w)
  <2>1. watcher[w].phase = "reset_count" /\ watcher'[w].phase = "reset_time" /\ Locals(w)
    BY <1>3, HandlerMoves DEF Moves
  <2>2. counted' = <<>> /\ packet_count' = 0 /\ UNCHANGED <<start_time, ip_count>> /\ Len(<<>>) = 0
    BY <1>3 DEF ResetCount
  <2>3. QuietBefore' /\ CountIsExact'
    BY <2>1, <2>2 DEF QuietBefore, CountIsExact
  <2>4. CountedInInterval'
    BY <1>2, <2>1, <2>2 DEF IntervalInv, CountedInInterval, Locals
  <2>5. ListIsSound'
    BY <1>2, <2>1, <2>2 DEF IntervalInv, ListIsSound
  <2>6. ListIsComplete' /\ BlockedSoFar'
    BY <2>1, <2>2 DEF ListIsComplete, BlockedSoFar
  <2> QED
    BY <1>2, <2>3, <2>4, <2>5, <2>6 DEF IntervalInv
<1>4. CASE ResetTime(w)
  <2>1. watcher[w].phase = "reset_time" /\ watcher'[w].phase = "reset_ips" /\ Locals(w)
    BY <1>4, HandlerMoves DEF Moves
  <2>2. start_time' = watcher[w].current_time /\ UNCHANGED <<packet_count, counted, ip_count>>
    BY <1>4 DEF ResetTime, NewStart, ghosts
  <2>3. counted = <<>> /\ Len(<<>>) = 0 /\ watcher[w].current_time <= clock
    BY <2>1 DEF IntervalInv, CountedInInterval
  <2>4. QuietBefore' /\ CountIsExact'
    BY <2>1, <2>2, <2>3 DEF IntervalInv, QuietBefore, CountIsExact
  <2>5. CountedInInterval'
    BY <1>1, <1>2, <2>1, <2>2, <2>3, ConstantTypes DEF CountedInInterval, Locals
  <2>6. ListIsSound'
    BY <1>2, <2>1, <2>2 DEF IntervalInv, ListIsSound
  <2>7. ListIsComplete' /\ BlockedSoFar'
    BY <2>1, <2>2, <2>3 DEF ListIsComplete, BlockedSoFar
  <2> QED
    BY <1>2, <2>4, <2>5, <2>6, <2>7 DEF IntervalInv
<1>5. CASE ResetIps(w)
  <2>1. watcher[w].phase = "reset_ips" /\ watcher'[w].phase = "noting" /\ Locals(w)
    BY <1>5, HandlerMoves DEF Moves
  <2>2. ip_count' = 0 /\ UNCHANGED <<packet_count, counted, start_time>>
    BY <1>5 DEF ResetIps, NewIpCount, ghosts
  <2>3. counted = <<>> /\ Len(<<>>) = 0
    BY <2>1 DEF IntervalInv, CountedInInterval
  <2>4. QuietBefore' /\ CountIsExact'
    BY <2>1, <2>2, <2>3 DEF IntervalInv, QuietBefore, CountIsExact
  <2>5. CountedInInterval'
    BY <1>2, <2>1, <2>2, <2>3 DEF IntervalInv, CountedInInterval, Locals
  <2>6. ListIsSound' /\ ListIsComplete' /\ BlockedSoFar'
    BY <2>1, <2>2, <2>3 DEF ListIsSound, ListIsComplete, BlockedSoFar
  <2> QED
    BY <1>2, <2>4, <2>5, <2>6 DEF IntervalInv
<1> QED
  BY <1>3, <1>4, <1>5

\* The address of the packet in hand is put behind the others.
LEMMA OneWatcherAppend ==
  ASSUME TypeInv, IntervalInv, NEW w, Watchers = {w}, AppendIp(w)
  PROVE  IntervalInv'
<1> DEFINE s == Packet(w).seen
<1>1. watcher[w].phase = "appending" /\ watcher'[w].phase = "counting" /\ Locals(w)
  BY HandlerMoves DEF Moves
<1>2. MayAppend(w)
  BY <1>1 DEF IntervalInv, ListIsSound, MayAppend
<1>3. /\ ip_count \in Nat /\ ip_count < MaxIps /\ MaxIps \in Nat
      /\ suspicious_ips \in [0 .. MaxIps - 1 -> Addresses]
  BY <1>2, ConstantTypes DEF TypeInv, TypeOK, MayAppend
<1>4. /\ suspicious_ips' = [suspicious_ips EXCEPT ![ip_count] = s]
      /\ ip_count' = ip_count + 1 /\ fault' = fault
  BY <1>2 DEF AppendIp, MayAppend
<1>5. /\ \A i \in 0 .. ip_count - 1 : suspicious_ips'[i] = suspicious_ips[i]
      /\ suspicious_ips'[ip_count] = s
  BY <1>3, <1>4
<1>6. UNCHANGED <<ring, clock, packet_count, start_time, ghosts>> /\ Packet(w)' = Packet(w)
  BY DEF AppendIp, Packet
<1>7. \A i \in 0 .. ip_count' - 1 : i \in 0 .. ip_count - 1 \/ i = ip_count
  BY <1>3, <1>4
<1>8. QuietBefore' /\ CountIsExact'
  BY <1>1, <1>6 DEF IntervalInv, QuietBefore, CountIsExact, ghosts
<1>9. CountedInInterval'
  BY <1>1, <1>6 DEF IntervalInv, CountedInInterval, Locals, ghosts
<1>10. ListIsSound'
  <2>1. ASSUME NEW i \in 0 .. ip_count' - 1, NEW j \in 0 .. ip_count' - 1,
               suspicious_ips'[i] = suspicious_ips'[j]
        PROVE  i = j
    <3>1. \A n \in 0 .. ip_count - 1 : suspicious_ips[n] # s
      BY <1>2 DEF MayAppend, Found
    <3>2. i \in 0 .. ip_count - 1 \/ i = ip_count
      BY <1>7
    <3>3. j \in 0 .. ip_count - 1 \/ j = ip_count
      BY <1>7
    <3>4. i \in 0 .. ip_count - 1 /\ j \in 0 .. ip_count - 1 => i = j
      BY <1>5, <2>1 DEF IntervalInv, ListIsSound
    <3> HIDE DEF s
    <3> QED
      BY <1>5, <2>1, <3>1, <3>2, <3>3, <3>4
  <2>2. ASSUME NEW i \in 0 .. ip_count' - 1
        PROVE  /\ suspicious_ips'[i] # NULL
               /\ IsCounted(suspicious_ips[i])' \/ InHand(w, suspicious_ips[i])'
    <3>1. CASE i = ip_count
      <4>1. suspicious_ips'[i] = s /\ s # NULL
        BY <1>2, <1>5, <3>1 DEF MayAppend
      <4>2. InHand(w, suspicious_ips[i])'
        BY <1>1, <1>6, <4>1 DEF InHand
      <4> QED
        BY <4>1, <4>2
    <3>2. CASE i \in 0 .. ip_count - 1
      <4>1. suspicious_ips'[i] = suspicious_ips[i] /\ suspicious_ips[i] # NULL
            /\ IsCounted(suspicious_ips[i])
        BY <1>1, <1>5, <3>2 DEF IntervalInv, ListIsSound, InHand
      <4>2. IsCounted(suspicious_ips[i])'
        BY <1>6, <4>1 DEF IsCounted, ghosts
      <4> QED
        BY <4>1, <4>2
    <3> QED
      BY <1>7, <3>1, <3>2
  <2> QED
    BY <1>1, <2>1, <2>2 DEF ListIsSound
<1>11. ListIsComplete'
  <2>1. ASSUME NEW a, Found(a)
        PROVE  Found(a)'
    <3>1. PICK i \in 0 .. ip_count - 1 : suspicious_ips[i] = a
      BY <2>1 DEF Found
    <3>2. i \in 0 .. ip_count' - 1 /\ suspicious_ips'[i] = a
      BY <1>3, <1>4, <1>5, <3>1
    <3> QED
      BY <3>2 DEF Found
  <2>2. \E i \in 0 .. ip_count' - 1 : suspicious_ips'[i] = s
    <3>1. ip_count \in 0 .. ip_count' - 1
      BY <1>3, <1>4
    <3> QED
      BY <1>5, <3>1
  <2>3. Found(Packet(w).seen)'
    BY <1>6, <2>2 DEF Found
  <2>4. ASSUME NEW k \in 1 .. Len(counted')
        PROVE  (\/ counted[k].packet.seen = NULL \/ Found(counted[k].packet.seen)
                \/ ip_count = MaxIps)'
    <3>1. counted[k].packet.seen = NULL \/ Found(counted[k].packet.seen)
      BY <1>3, <1>6 DEF IntervalInv, ListIsComplete, ghosts
    <3>2. counted' = counted
      BY <1>6 DEF ghosts
    <3>3. Found(counted[k].packet.seen) => Found(counted[k].packet.seen)'
      <4>1. ASSUME Found(counted[k].packet.seen) PROVE Found(counted[k].packet.seen)'
        <5>1. PICK i \in 0 .. ip_count - 1 : suspicious_ips[i] = counted[k].packet.seen
          BY <4>1 DEF Found
        <5>2. i \in 0 .. ip_count' - 1 /\ suspicious_ips'[i] = counted'[k].packet.seen
          BY <1>3, <1>4, <1>5, <3>2, <5>1
        <5> QED
          BY <5>2 DEF Found
      <4> QED
        BY <4>1
    <3> QED
      BY <3>1, <3>2, <3>3
  <2> QED
    BY <1>1, <2>3, <2>4 DEF ListIsComplete
<1>12. BlockedSoFar'
  BY <1>1 DEF BlockedSoFar
<1> QED
  BY <1>4, <1>8, <1>9, <1>10, <1>11, <1>12 DEF IntervalInv

\* The packet in hand is counted.
LEMMA OneWatcherStore ==
  ASSUME TypeInv, IntervalInv, NEW w, Watchers = {w}, StoreCount(w)
  PROVE  IntervalInv'
<1> DEFINE c == [by |-> w, packet |-> Packet(w), handled |-> watcher[w].current_time]
<1>1. /\ watcher[w].phase = "storing" /\ watcher'[w].phase = "looping"
      /\ watcher'[w].current_time = 0
  BY HandlerMoves DEF Moves
<1>2. /\ start_time \in Int /\ clock \in Nat /\ watcher[w].current_time \in 0 .. MaxTime
      /\ packet_count \in Nat
  <2>1. watcher[w] \in Thr
    BY TypeGivesThr DEF TypeInv, ThrType
  <2> QED
    BY <2>1, ConstantTypes DEF TypeInv, TypeOK, Thr
<1>3. /\ UNCHANGED <<clock, start_time, suspicious_ips, ip_count, blocked, fault>>
      /\ counted' = Append(counted, c) /\ packet_count' = watcher[w].read + 1
  BY DEF StoreCount
<1>4. counted \in Seq(Counted) /\ c \in Counted
  <2>1. ring[w] # <<>>
    BY <1>1, PhaseNames DEF TypeInv, HandledInRing, Handling
  <2>2. Packet(w) \in Packets
    BY <2>1, PacketType DEF TypeInv
  <2> QED
    BY <1>2, <2>2 DEF Counted, TypeInv, CountedType
<1>5. /\ Len(counted) \in Nat /\ Len(counted') = Len(counted) + 1
      /\ counted'[Len(counted) + 1] = c
      /\ \A k \in 1 .. Len(counted) : counted'[k] = counted[k]
  <2> HIDE DEF c
  <2> QED
    BY <1>3, <1>4
<1>6. \A k \in 1 .. Len(counted') : k \in 1 .. Len(counted) \/ k = Len(counted) + 1
  BY <1>5
<1>7. c.packet.seen = Packet(w).seen /\ c.handled = watcher[w].current_time
  OBVIOUS
<1> HIDE DEF c
<1>8. QuietBefore' /\ CountIsExact'
  BY <1>1, <1>2, <1>3, <1>5 DEF IntervalInv, QuietBefore, CountIsExact
<1>9. CountedInInterval'
  <2>1. watcher[w].current_time \in start_time .. start_time + Interval - 1
    BY <1>1 DEF IntervalInv, CountedInInterval
  <2>2. \A k \in 1 .. Len(counted') :
          counted'[k].handled \in start_time .. start_time + Interval - 1
    BY <1>5, <1>6, <1>7, <2>1 DEF IntervalInv, CountedInInterval
  <2> QED
    BY <1>1, <1>2, <1>3, <2>2 DEF IntervalInv, CountedInInterval
<1>10. ListIsSound'
  <2>1. ASSUME NEW i \in 0 .. ip_count' - 1
        PROVE  IsCounted(suspicious_ips[i])'
    <3>1. IsCounted(suspicious_ips[i]) \/ suspicious_ips[i] = Packet(w).seen
      BY <1>1, <1>3 DEF IntervalInv, ListIsSound, InHand
    <3>2. \E k \in 1 .. Len(counted') : counted'[k].packet.seen = suspicious_ips[i]
      <4>1. CASE IsCounted(suspicious_ips[i])
        <5>1. PICK k \in 1 .. Len(counted) : counted[k].packet.seen = suspicious_ips[i]
          BY <4>1 DEF IsCounted
        <5>2. k \in 1 .. Len(counted')
          BY <1>5
        <5> QED
          BY <1>5, <5>1, <5>2
      <4>2. CASE suspicious_ips[i] = Packet(w).seen
        <5>1. Len(counted) + 1 \in 1 .. Len(counted')
          BY <1>5
        <5> QED
          BY <1>5, <1>7, <4>2, <5>1
      <4> QED
        BY <3>1, <4>1, <4>2
    <3> QED
      BY <1>3, <3>2 DEF IsCounted
  <2> QED
    BY <1>1, <1>3, <2>1 DEF IntervalInv, ListIsSound
<1>11. ListIsComplete'
  <2>1. ASSUME NEW k \in 1 .. Len(counted')
        PROVE  (\/ counted[k].packet.seen = NULL \/ Found(counted[k].packet.seen)
                \/ ip_count = MaxIps)'
    <3> DEFINE a == counted'[k].packet.seen
    <3>1. a = NULL \/ (\E i \in 0 .. ip_count - 1 : suspicious_ips[i] = a) \/ ip_count = MaxIps
      <4>1. CASE k \in 1 .. Len(counted)
        BY <1>5, <4>1 DEF IntervalInv, ListIsComplete, Found
      <4>2. CASE k = Len(counted) + 1
        BY <1>1, <1>5, <1>7, <4>2 DEF IntervalInv, ListIsComplete, Found
      <4> QED
        BY <1>6, <4>1, <4>2
    <3> QED
      BY <1>3, <3>1 DEF Found
  <2> QED
    BY <1>1, <2>1 DEF ListIsComplete
<1>12. BlockedSoFar'
  BY <1>1 DEF BlockedSoFar
<1> QED
  BY <1>3, <1>8, <1>9, <1>10, <1>11, <1>12 DEF IntervalInv

LEMMA NextIntervalInv ==
  ASSUME TypeInv, IntervalInv, NEW w, Watchers = {w}, [Next]_vars
  PROVE  IntervalInv'
  BY OneWatcherUser, OneWatcherCapture, OneWatcherStart, OneWatcherAnswer, OneWatcherQuietHandler,
     OneWatcherReset, OneWatcherAppend, OneWatcherStore DEF Next, Thread, Handler

LEMMA IntervalInvHolds ==
  ASSUME OneWatcher
  PROVE  Spec => []IntervalInv
<1>1. TypeInv /\ IntervalInv /\ [Next]_vars => IntervalInv'
  BY NextIntervalInv DEF OneWatcher
<1> QED
  BY <1>1, InitIntervalInv, TypeInvHolds, PTL DEF Spec

\* What one watcher judges is exactly the packets it handled in the interval, though
\* the interval is only looked at when a packet comes, boxes delay the reset, and the
\* reset is three writes.
THEOREM JudgesItsIntervalHolds ==
  ASSUME OneWatcher
  PROVE  Spec => []JudgesItsInterval
<1>1. IntervalInv => JudgesItsInterval
  BY DEF IntervalInv, CountIsExact, CountedInInterval, JudgesItsInterval
<1> QED
  BY <1>1, IntervalInvHolds, PTL

\* The list one watcher blocks has no address twice and none but those of packets
\* counted in the interval.
THEOREM ListIsOfIntervalHolds ==
  ASSUME OneWatcher
  PROVE  Spec => []ListIsOfInterval
<1>1. IntervalInv => ListIsOfInterval
  <2> SUFFICES ASSUME IntervalInv, NEW w \in Watchers, At(w, "blocking")
               PROVE  /\ \A i, j \in 0 .. ip_count - 1 :
                           suspicious_ips[i] = suspicious_ips[j] => i = j
                      /\ \A i \in 0 .. ip_count - 1 :
                           \E k \in 1 .. Len(counted) : counted[k].packet.seen = suspicious_ips[i]
    BY DEF ListIsOfInterval
  <2>1. watcher[w].phase = "blocking"
    BY DEF At
  <2> QED
    BY <2>1 DEF IntervalInv, ListIsSound, IsCounted, InHand
<1> QED
  BY <1>1, IntervalInvHolds, PTL

\* When the loop of an alert ends, every sender of the interval is blocked, or as
\* many of them as the list has places for.
LEMMA SendersOfAlert ==
  ASSUME TypeInv, IntervalInv, NEW w \in Watchers, At(w, "blocking"), watcher[w].i >= ip_count
  PROVE  LET senders == {counted[k].packet.seen : k \in 1 .. Len(counted)} \ {NULL}
         IN  senders \subseteq blocked \/ Cardinality(senders \intersect blocked) >= MaxIps
<1> DEFINE senders == {counted[k].packet.seen : k \in 1 .. Len(counted)} \ {NULL}
<1>1. watcher[w].phase = "blocking" /\ watcher[w].i \in Int /\ ip_count \in Nat /\ MaxIps \in Nat
  BY TypeGivesThr, ConstantTypes DEF At, TypeInv, TypeOK, ThrType, Thr
<1>2. \A n \in 0 .. ip_count - 1 : suspicious_ips[n] \in blocked
  BY <1>1 DEF IntervalInv, BlockedSoFar
<1>3. CASE ip_count # MaxIps
  <2>1. ASSUME NEW s \in senders PROVE s \in blocked
    <3>1. PICK k \in 1 .. Len(counted) : s = counted[k].packet.seen
      OBVIOUS
    <3>2. Found(s)
      BY <1>3, <3>1 DEF IntervalInv, ListIsComplete
    <3> QED
      BY <1>2, <3>2 DEF Found
  <2> QED
    BY <2>1
<1>4. CASE ip_count = MaxIps
  <2> DEFINE D == 0 .. MaxIps - 1
             T == senders \intersect blocked
             f == [n \in D |-> suspicious_ips[n]]
  <2>1. \A n \in D : suspicious_ips[n] \in T
    <3> SUFFICES ASSUME NEW n \in D PROVE suspicious_ips[n] \in T
      OBVIOUS
    <3>1. n \in 0 .. ip_count - 1
      BY <1>4
    <3>2. suspicious_ips[n] # NULL /\ IsCounted(suspicious_ips[n])
      BY <1>1, <3>1 DEF IntervalInv, ListIsSound, InHand
    <3> QED
      BY <1>2, <3>1, <3>2 DEF IsCounted
  <2>2. IsFiniteSet(D) /\ Cardinality(D) = MaxIps
    <3>1. IsFiniteSet(0 .. MaxIps - 1)
          /\ Cardinality(0 .. MaxIps - 1) = IF 0 > MaxIps - 1 THEN 0 ELSE (MaxIps - 1) - 0 + 1
      <4>1. 0 \in Int /\ MaxIps - 1 \in Int
        BY <1>1
      <4> QED
        BY <4>1, FS_Interval, Zenon
    <3> QED
      BY <1>1, <3>1, ConstantTypes
  <2>3. IsFiniteSet(T)
    <3> DEFINE I == 1 .. Len(counted)
               S == {counted[k].packet.seen : k \in I}
               g == [k \in I |-> counted[k].packet.seen]
    <3>1. IsFiniteSet(I)
      <4>1. 1 \in Int /\ Len(counted) \in Int
        BY DEF TypeInv, CountedType
      <4> QED
        BY <4>1, FS_Interval, Zenon
    <3>2. IsFiniteSet(S)
      <4>1. g \in Surjection(I, S)
        BY DEF Surjection
      <4> HIDE DEF I, S, g
      <4> QED
        BY <3>1, <4>1, FS_Surjection
    <3> QED
      BY <3>2, FS_Subset
  <2>4. f \in Injection(D, T)
    BY <1>4, <2>1 DEF Injection, IsInjective, IntervalInv, ListIsSound
  <2>5. Cardinality(D) <= Cardinality(T)
    BY <2>2, <2>3, <2>4, FS_Injection
  <2> QED
    BY <2>2, <2>5, FS_CardinalityType, <2>3, <1>1
<1> QED
  BY <1>3, <1>4


\* The alert of one watcher blocks every sender of its interval, or MaxIps of them.
THEOREM SendersAreBlockedHolds ==
  ASSUME OneWatcher
  PROVE  Spec => []SendersAreBlocked
<1>1. TypeInv /\ IntervalInv => SendersAreBlocked
  BY SendersOfAlert DEF SendersAreBlocked
<1> QED
  BY <1>1, IntervalInvHolds, TypeInvHolds, PTL

\* One watcher never stores an address past the end of its list.
THEOREM IndexStaysInListHolds ==
  ASSUME OneWatcher
  PROVE  Spec => []IndexStaysInList
<1>1. IntervalInv => IndexStaysInList
  BY DEF IntervalInv, IndexStaysInList
<1> QED
  BY <1>1, IntervalInvHolds, PTL

=============================================================================
