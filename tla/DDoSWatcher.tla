---------------------------- MODULE DDoSWatcher ----------------------------
(***************************************************************************)
(* The flood detector (src/src/ddoswatcher.c).                             *)
(*                                                                         *)
(* initWatcher checks the fields of the window and starts a thread that    *)
(* reads them again, opens a capture with the filter "tcp port <port>" and *)
(* gives each packet to packetHandler.  Every watcher shares packet_count, *)
(* start_time, suspicious_ips and ip_count, without a lock.  Time passes   *)
(* for packetHandler when a packet comes: the first one DEFAULT_INTERVAL   *)
(* after start_time has the packets counted so far judged, in modal boxes  *)
(* that suspend the capture while the kernel's ring fills.                 *)
(*                                                                         *)
(* libpcap is external: a matching packet enters the ring of its capture,  *)
(* and one that the kernel drops never does.  A packet is the address that *)
(* packetHandler reads in it, wherever that comes from: the filter lets    *)
(* TCP over IPv6 through, whose bytes are read as an IPv4 header.          *)
(***************************************************************************)
EXTENDS Integers, Sequences, FiniteSets

CONSTANTS
  Watchers,    \* one identity per accepted click; their number bounds the model
  Sources,     \* the addresses of senders
  NULL,        \* the address 0.0.0.0; in boxes, the main thread
  Ports,       \* valid values of the port field; 0 is one that is refused
  Thresholds,  \* valid values of the threshold field; 0 is one that is refused
  Forms,       \* what the user enters in the window
  Interval,    \* DEFAULT_INTERVAL, in ticks of the clock
  MaxIps,      \* length of suspicious_ips
  RingSize,    \* bound on the packets the ring of a capture holds
  MaxPackets,  \* bound on the packets of one capture
  MaxTime      \* bound on the clock

ASSUME WatcherAssumption ==
  /\ NULL \notin Sources \union Watchers
  /\ Ports \subseteq Nat \ {0}
  /\ Thresholds \subseteq Nat \ {0}
  /\ Forms \subseteq [ready : BOOLEAN, port : Ports \union {0}, seuil : Thresholds \union {0}]
  /\ {Interval, MaxIps, RingSize} \subseteq Nat \ {0}
  /\ {MaxPackets, MaxTime} \subseteq Nat

VARIABLES
  open,            \* the window is open
  fields,          \* what its fields hold
  loop,            \* the process: "running" or "exited"
  watcher,         \* each thread: its phase, its locals, and how it was started
  ring,            \* the packets each capture has yet to hand over
  boxes,           \* who waits in a modal box, the one with the grab first
  errors,          \* messages a thread has queued for the main loop
  clock,           \* time(NULL)
  packet_count, start_time, suspicious_ips, ip_count,
  counted,         \* the packets counted since the last reset
  blocked,         \* the addresses given to iptables
  fault            \* the first undefined step: "none", "fields", "error", "index"

shared == <<packet_count, start_time, suspicious_ips, ip_count>>
ghosts == <<counted, blocked>>
user == <<open, fields>>
vars == <<user, loop, watcher, ring, boxes, errors, clock, shared, ghosts, fault>>

Addresses == Sources \union {NULL}

\* A packet: the address packetHandler finds in it if the byte it takes for the
\* protocol is TCP, else NULL; when it reached the ring.
Packets == [seen : Addresses, at : 0 .. MaxTime]

Waiting == {"announced", "alerted", "reported", "blocked"}
Handling == {"judging", "blocking", "reset_count", "reset_time", "reset_ips",
             "noting", "appending", "counting", "storing"}
Phases == {"free", "starting", "opening", "filtering", "looping", "ended"}
            \union Waiting \union Handling

Fields == [ready : BOOLEAN, port : Ports \union {0}, seuil : Thresholds \union {0}]

TypeOK ==
  /\ open \in BOOLEAN
  /\ fields \in Fields
  /\ loop \in {"running", "exited"}
  /\ watcher \in [Watchers ->
       [phase : Phases, edited : BOOLEAN, stale : BOOLEAN,
        port : Ports \union {0}, threshold : Thresholds \union {0},
        current_time : 0 .. MaxTime, i : 0 .. MaxIps, read : Nat, got : 0 .. MaxPackets]]
  /\ ring \in [Watchers -> Seq(Packets)]
  /\ \A w \in Watchers : Len(ring[w]) <= RingSize
  /\ boxes \in Seq(Watchers \union {NULL})
  /\ errors \in Nat
  /\ clock \in 0 .. MaxTime
  /\ packet_count \in Nat
  /\ start_time \in 0 .. MaxTime
  /\ suspicious_ips \in [0 .. MaxIps - 1 -> Addresses]
  /\ ip_count \in 0 .. MaxIps
  /\ blocked \subseteq Addresses
  /\ fault \in {"none", "fields", "error", "index"}

Empty == [ready |-> FALSE, port |-> 0, seuil |-> 0]

Init ==
  /\ open = FALSE
  /\ fields = Empty
  /\ loop = "running"
  /\ watcher = [w \in Watchers |->
       [phase |-> "free", edited |-> FALSE, stale |-> FALSE, port |-> 0,
        threshold |-> 0, current_time |-> 0, i |-> 0, read |-> 0, got |-> 0]]
  /\ ring = [w \in Watchers |-> <<>>]
  /\ boxes = <<>>
  /\ errors = 0
  /\ clock = 0
  /\ packet_count = 0
  /\ start_time = 0
  /\ suspicious_ips = [i \in 0 .. MaxIps - 1 |-> NULL]
  /\ ip_count = 0
  /\ counted = <<>>
  /\ blocked = {}
  /\ fault = "none"

Undefined(kind) == fault' = IF fault = "none" THEN kind ELSE fault

Goto(w, p) == watcher' = [watcher EXCEPT ![w].phase = p]

\* A modal box of a thread, or of the main thread (NULL), takes the grab.
Show(w) == boxes' = <<w>> \o boxes

InputAllowed == loop = "running" /\ boxes = <<>>

At(w, p) == loop = "running" /\ watcher[w].phase = p

----------------------------------------------------------------------------
(* The window                                                              *)

\* ddoswatcher, for a free slot; listInterfaces may fail and say so.
OpenWindow ==
  /\ InputAllowed
  /\ ~ open
  /\ open' = TRUE
  /\ fields' = Empty
  /\ UNCHANGED boxes \/ Show(NULL)
  /\ UNCHANGED <<loop, watcher, ring, errors, clock, shared, ghosts, fault>>

\* The widgets go, those a starting thread has still to read included.
CloseWindow ==
  /\ InputAllowed
  /\ open
  /\ open' = FALSE
  /\ fields' = Empty
  /\ watcher' = [w \in Watchers |->
       [watcher[w] EXCEPT !.stale = @ \/ watcher[w].phase = "starting"]]
  /\ UNCHANGED <<loop, ring, boxes, errors, clock, shared, ghosts, fault>>

\* The user types; once chosen, an interface cannot be unchosen.
Edit(f) ==
  /\ InputAllowed
  /\ open
  /\ fields' = f
  /\ watcher' = [w \in Watchers |->
       [watcher[w] EXCEPT !.edited = @ \/ watcher[w].phase = "starting"]]
  /\ UNCHANGED <<open, loop, ring, boxes, errors, clock, shared, ghosts, fault>>

\* Seeded fault: the threshold is not checked.
ValidSeuilUnchecked == fields.ready /\ fields.port > 0

\* What initWatcher checks; "ready" is an interface and a positive time, which
\* nothing uses afterwards.
Valid == fields.ready /\ fields.port > 0 /\ fields.seuil > 0

\* initWatcher
Click(w) ==
  /\ InputAllowed
  /\ open
  /\ watcher[w].phase = "free"
  /\ IF Valid
     THEN Goto(w, "starting") /\ UNCHANGED boxes
     ELSE Show(NULL) /\ UNCHANGED watcher
  /\ UNCHANGED <<user, loop, ring, errors, clock, shared, ghosts, fault>>

\* The user answers the box that has the grab, and its thread goes on.
AfterBox(p) ==
  CASE p = "announced" -> "filtering"
    [] p = "reported" -> "reset_count"
    [] OTHER -> "blocking"  \* alerted, blocked

AnswerBox ==
  /\ loop = "running"
  /\ boxes # <<>>
  /\ boxes' = Tail(boxes)
  /\ IF Head(boxes) = NULL
     THEN UNCHANGED watcher
     ELSE Goto(Head(boxes), AfterBox(watcher[Head(boxes)].phase))
  /\ UNCHANGED <<user, loop, ring, errors, clock, shared, ghosts, fault>>

\* The main window is closed and main() returns; the threads end with it.
Exit ==
  /\ InputAllowed
  /\ loop' = "exited"
  /\ UNCHANGED <<user, watcher, ring, boxes, errors, clock, shared, ghosts, fault>>

\* The queued "callback" is gtk_message_dialog_new itself, called with the text
\* as its parent window: undefined.  The process ends, or nothing is shown.
RunQueuedError ==
  /\ loop = "running"
  /\ errors > 0
  /\ errors' = errors - 1
  /\ loop' \in {"running", "exited"}
  /\ Undefined("error")
  /\ UNCHANGED <<user, watcher, ring, boxes, clock, shared, ghosts>>

----------------------------------------------------------------------------
(* The thread: startCapture                                                *)

ReadFields(w) ==
  /\ At(w, "starting")
  /\ ~ watcher[w].stale
  /\ watcher' = [watcher EXCEPT ![w].phase = "opening", ![w].port = fields.port,
                                ![w].threshold = fields.seuil]
  /\ UNCHANGED <<user, loop, ring, boxes, errors, clock, shared, ghosts, fault>>

\* The fields have been destroyed: undefined.  The process ends, or the reads
\* return some numbers.
ReadDestroyedFields(w) ==
  /\ At(w, "starting")
  /\ watcher[w].stale
  /\ Undefined("fields")
  /\ \E f \in Fields :
       watcher' = [watcher EXCEPT ![w].phase = "opening", ![w].port = f.port,
                                  ![w].threshold = f.seuil]
  /\ loop' \in {"running", "exited"}
  /\ UNCHANGED <<user, ring, boxes, errors, clock, shared, ghosts>>

\* pcap_open_live or the filter fails: the thread queues its message and ends.
Fail(w) ==
  /\ At(w, "opening") \/ At(w, "filtering")
  /\ Goto(w, "ended")
  /\ errors' = errors + 1
  /\ ring' = [ring EXCEPT ![w] = <<>>]
  /\ UNCHANGED <<user, loop, boxes, clock, shared, ghosts, fault>>

\* pcap_open_live succeeds, and "Analyse du trafic en cours..." says so.
OpenDevice(w) ==
  /\ At(w, "opening")
  /\ Goto(w, "announced")
  /\ Show(w)
  /\ UNCHANGED <<user, loop, ring, errors, clock, shared, ghosts, fault>>

\* The filter is set; packets that match it have entered the ring since the
\* capture was opened.
StartLoop(w) ==
  /\ At(w, "filtering")
  /\ Goto(w, "looping")
  /\ start_time' = clock
  /\ UNCHANGED <<user, loop, ring, boxes, errors, clock,
                 packet_count, suspicious_ips, ip_count, ghosts, fault>>

\* pcap_loop returns on an error of the interface; the capture is closed.
EndLoop(w) ==
  /\ At(w, "looping")
  /\ Goto(w, "ended")
  /\ ring' = [ring EXCEPT ![w] = <<>>]
  /\ UNCHANGED <<user, loop, boxes, errors, clock, shared, ghosts, fault>>

----------------------------------------------------------------------------
(* The world                                                               *)

\* A packet for the watched port, read as one from s.
Arrive(w, s) ==
  /\ loop = "running"
  /\ watcher[w].phase \in {"announced", "filtering", "looping"} \union Waiting \union Handling
  /\ watcher[w].got < MaxPackets
  /\ Len(ring[w]) < RingSize
  /\ ring' = [ring EXCEPT ![w] = Append(@, [seen |-> s, at |-> clock])]
  /\ watcher' = [watcher EXCEPT ![w].got = @ + 1]
  /\ UNCHANGED <<user, loop, boxes, errors, clock, shared, ghosts, fault>>

Tick ==
  /\ loop = "running"
  /\ clock < MaxTime
  /\ clock' = clock + 1
  /\ UNCHANGED <<user, loop, watcher, ring, boxes, errors, shared, ghosts, fault>>

----------------------------------------------------------------------------
(* packetHandler and blockIp, for the packet at the head of the ring       *)

Packet(w) == Head(ring[w])

\* Seeded fault: the interval is over one tick late.
DueLate == clock - start_time > Interval

Due == clock - start_time >= Interval

\* current_time is read, and the interval tested.
Handle(w) ==
  /\ At(w, "looping")
  /\ ring[w] # <<>>
  /\ watcher' = [watcher EXCEPT ![w].current_time = clock,
                                ![w].phase = IF Due THEN "judging" ELSE "noting"]
  /\ UNCHANGED <<user, loop, ring, boxes, errors, clock, shared, ghosts, fault>>

\* More packets than the threshold: the alert, then the blocking.
Alert(w) ==
  /\ At(w, "judging")
  /\ packet_count > watcher[w].threshold
  /\ watcher' = [watcher EXCEPT ![w].phase = "alerted", ![w].i = 0]
  /\ Show(w)
  /\ UNCHANGED <<user, loop, ring, errors, clock, shared, ghosts, fault>>

Report(w) ==
  /\ At(w, "judging")
  /\ packet_count <= watcher[w].threshold
  /\ Goto(w, "reported")
  /\ Show(w)
  /\ UNCHANGED <<user, loop, ring, errors, clock, shared, ghosts, fault>>

\* Seeded fault: the loop over the addresses does not advance.
SameIndex(w) == watcher[w].i

NextIndex(w) == watcher[w].i + 1

\* blockIp: iptables drops the packets of the address, and a box says so.
BlockIp(w) ==
  /\ At(w, "blocking")
  /\ watcher[w].i < ip_count
  /\ blocked' = blocked \union {suspicious_ips[watcher[w].i]}
  /\ watcher' = [watcher EXCEPT ![w].phase = "blocked", ![w].i = NextIndex(w)]
  /\ Show(w)
  /\ UNCHANGED <<user, loop, ring, errors, clock, shared, counted, fault>>

BlockDone(w) ==
  /\ At(w, "blocking")
  /\ watcher[w].i >= ip_count
  /\ Goto(w, "reset_count")
  /\ UNCHANGED <<user, loop, ring, boxes, errors, clock, shared, ghosts, fault>>

ResetCount(w) ==
  /\ At(w, "reset_count")
  /\ packet_count' = 0
  /\ counted' = <<>>
  /\ Goto(w, "reset_time")
  /\ UNCHANGED <<user, loop, ring, boxes, errors, clock,
                 start_time, suspicious_ips, ip_count, blocked, fault>>

\* Seeded fault: what is kept is the end of the new interval.
NewEnd(w) == watcher[w].current_time + Interval

\* The new interval starts when the packet came.
NewStart(w) == watcher[w].current_time

ResetTime(w) ==
  /\ At(w, "reset_time")
  /\ start_time' = NewStart(w)
  /\ Goto(w, "reset_ips")
  /\ UNCHANGED <<user, loop, ring, boxes, errors, clock,
                 packet_count, suspicious_ips, ip_count, ghosts, fault>>

NewIpCount == 0

ResetIps(w) ==
  /\ At(w, "reset_ips")
  /\ ip_count' = NewIpCount
  /\ Goto(w, "noting")
  /\ UNCHANGED <<user, loop, ring, boxes, errors, clock,
                 packet_count, start_time, suspicious_ips, ghosts, fault>>

\* Seeded fault: the list is not searched.
FoundNever(s) == FALSE

Found(s) == \E i \in 0 .. ip_count - 1 : suspicious_ips[i] = s

\* Seeded fault: the last place of the list is not used.
RoomShort == ip_count < MaxIps - 1

Room == ip_count < MaxIps

\* Is there an address to append, and room for it?
Note(w) ==
  LET new == Packet(w).seen # NULL /\ ~ Found(Packet(w).seen) /\ Room
  IN  /\ At(w, "noting")
      /\ watcher' = [watcher EXCEPT ![w].phase = IF new THEN "appending" ELSE "counting",
                                    ![w].read = ip_count]
      /\ UNCHANGED <<user, loop, ring, boxes, errors, clock, shared, ghosts, fault>>

\* The index is the ip_count that was tested, or ip_count read again: another
\* watcher may have changed it, and what a store past the array hits is not
\* followed.
AppendIp(w) ==
  /\ At(w, "appending")
  /\ \E n \in {watcher[w].read, ip_count} :
       IF n < MaxIps
       THEN /\ suspicious_ips' = [suspicious_ips EXCEPT ![n] = Packet(w).seen]
            /\ ip_count' = n + 1
            /\ UNCHANGED fault
       ELSE Undefined("index") /\ UNCHANGED <<suspicious_ips, ip_count>>
  /\ Goto(w, "counting")
  /\ UNCHANGED <<user, loop, ring, boxes, errors, clock, packet_count, start_time, ghosts>>

\* packet_count++ reads,
ReadCount(w) ==
  /\ At(w, "counting")
  /\ watcher' = [watcher EXCEPT ![w].phase = "storing", ![w].read = packet_count]
  /\ UNCHANGED <<user, loop, ring, boxes, errors, clock, shared, ghosts, fault>>

\* then writes; the handler returns, and its locals are gone.
StoreCount(w) ==
  /\ At(w, "storing")
  /\ packet_count' = watcher[w].read + 1
  /\ counted' = Append(counted,
       [by |-> w, packet |-> Packet(w), handled |-> watcher[w].current_time])
  /\ ring' = [ring EXCEPT ![w] = Tail(@)]
  /\ watcher' = [watcher EXCEPT ![w].phase = "looping", ![w].current_time = 0,
                                ![w].i = 0, ![w].read = 0]
  /\ UNCHANGED <<user, loop, boxes, errors, clock,
                 start_time, suspicious_ips, ip_count, blocked, fault>>

Handler(w) ==
  \/ Alert(w) \/ Report(w) \/ BlockIp(w) \/ BlockDone(w)
  \/ ResetCount(w) \/ ResetTime(w) \/ ResetIps(w)
  \/ Note(w) \/ AppendIp(w) \/ ReadCount(w) \/ StoreCount(w)

Thread(w) ==
  ReadFields(w) \/ ReadDestroyedFields(w) \/ OpenDevice(w) \/ StartLoop(w) \/ Handle(w)
    \/ Handler(w)

Next ==
  \/ OpenWindow
  \/ CloseWindow
  \/ \E f \in Forms : Edit(f)
  \/ AnswerBox
  \/ Exit
  \/ RunQueuedError
  \/ Tick
  \/ \E w \in Watchers : Click(w) \/ Thread(w) \/ Fail(w) \/ EndLoop(w)
  \/ \E w \in Watchers, s \in Addresses : Arrive(w, s)

Spec == Init /\ [][Next]_vars

\* The kernel runs every thread, the user answers a box that blocks the windows,
\* and time passes.  Nothing is assumed of the network.
Fairness ==
  /\ WF_vars(AnswerBox)
  /\ WF_vars(Tick)
  /\ \A w \in Watchers : WF_vars(Thread(w) \/ Fail(w))

FairSpec == Spec /\ Fairness

----------------------------------------------------------------------------
(* Properties of one watcher alone                                         *)

\* The packets a watcher is about to judge are those it handled in the interval:
\* none is missed, counted twice or left from the interval before, although the
\* interval is only looked at when a packet comes and boxes delay the reset.
JudgesItsInterval == \A w \in Watchers :
  At(w, "judging") =>
    /\ packet_count = Len(counted)
    /\ \A k \in 1 .. Len(counted) :
         counted[k].handled \in start_time .. start_time + Interval - 1

\* Two addresses of the list are never the same, so that no address is blocked
\* twice for one alert, and each is the address of a packet counted.
ListIsOfInterval == \A w \in Watchers :
  At(w, "blocking") =>
    /\ \A i, j \in 0 .. ip_count - 1 : suspicious_ips[i] = suspicious_ips[j] => i = j
    /\ \A i \in 0 .. ip_count - 1 :
         \E k \in 1 .. Len(counted) : counted[k].packet.seen = suspicious_ips[i]

\* When the blocking of an alert ends, every sender of the interval is blocked, or
\* at least as many of them as the list has places for.
SendersAreBlocked == \A w \in Watchers :
  At(w, "blocking") /\ watcher[w].i >= ip_count =>
    LET senders == {counted[k].packet.seen : k \in 1 .. Len(counted)} \ {NULL}
    IN  senders \subseteq blocked \/ Cardinality(senders \intersect blocked) >= MaxIps

\* A watcher has a port or a threshold that initWatcher refuses only if the user
\* changed the fields, or closed the window, before its thread read them.
RefusedValuesNeedHaste == \A w \in Watchers :
  watcher[w].phase \notin {"free", "starting"} /\ (watcher[w].port = 0 \/ watcher[w].threshold = 0)
    => watcher[w].edited \/ watcher[w].stale

\* No address is stored past the end of suspicious_ips, although the room for it
\* is tested before the store and the list is emptied in between.
IndexStaysInList == fault # "index"

\* A handler returns, for all its boxes and however many packets come in between.
HandlersReturn == \A w \in Watchers :
  watcher[w].phase \in (Handling \union Waiting) \ {"announced"}
    ~> watcher[w].phase = "looping" \/ loop = "exited"

\* A flood that is over is reported by the next packet, whoever sent it: more
\* packets than the threshold in an interval that has ended, and one waiting in the
\* ring, lead to an alert, although boxes and the ring's delays come between.
NextPacketAlerts == \A w \in Watchers :
  At(w, "looping") /\ packet_count > watcher[w].threshold
  /\ clock >= start_time + Interval /\ ring[w] # <<>>
    ~> watcher[w].phase \in {"alerted", "ended"} \/ loop = "exited"

----------------------------------------------------------------------------
(* What the documentation says and the code does not do                    *)

\* README: a watcher watches the packets received on one port.  So an alert is
\* about packets that a capture of the watcher's port has received, as long as
\* nothing undefined has been done.
AlertIsOfPort ==
  [][\A w \in Watchers : Alert(w) /\ fault = "none" =>
       \A k \in 1 .. Len(counted) : watcher[counted[k].by].port = watcher[w].port]_vars

\* README: what is detected is a high rate of requests.  So the packets of an
\* alert have arrived within the interval it names.
AlertMeansRate ==
  [][\A w \in Watchers : Alert(w) =>
       \A j, k \in 1 .. Len(counted) :
         counted[k].packet.at - counted[j].packet.at <= Interval]_vars

\* README: the user is told of a flood.  So more packets than the threshold in an
\* interval that is over lead to an alert, as long as the watcher lives.
FloodsAreAlerted == \A w \in Watchers :
  At(w, "looping") /\ packet_count > watcher[w].threshold /\ clock >= start_time + Interval
    ~> watcher[w].phase \in {"alerted", "ended"} \/ loop = "exited"

=============================================================================
