------------------------- MODULE PacketDecodeProofs -------------------------
(***************************************************************************)
(* Theorems about what is decoded of one frame, for any number of bytes    *)
(* its copy keeps, any header lengths and any sizes.  Steps only add to    *)
(* what is displayed, so it is enough that each decoder displays fields    *)
(* where they belong: DisplayKeeps says so once, for all of them.          *)
(***************************************************************************)
EXTENDS PacketDecode, TLAPS

\* The invariant is inductive with the type of the frame.
DecodeInv == frame \in Frames /\ NetworkFieldsInPlace

\* Each field of the network layer but half of the traffic class is at its place.
LEMMA FieldsAreStandard ==
  ASSUME NEW type \in Types, NEW l \in DOMAIN NetworkFields(type),
         l # "traffic_class"
  PROVE  NetworkFields(type)[l] = Standard(type)[l]
<1>1. CASE type = "IPv4"
  BY <1>1 DEF NetworkFields, Standard, Bits, Eth
<1>2. CASE type = "IPv6"
  BY <1>2 DEF NetworkFields, Standard, Bits, Eth
<1>3. CASE type = "ARP"
  BY <1>3 DEF NetworkFields, Standard, Bits, Eth, SenderIp
<1>4. CASE type = "other"
  BY <1>4 DEF NetworkFields
<1> QED
  BY <1>1, <1>2, <1>3, <1>4 DEF Types

\* A decoder that displays fields of "part" keeps the invariant if they are in place.
LEMMA DisplayKeeps ==
  ASSUME DecodeInv, frame' = frame, NEW part, NEW shownFields,
         Display(part, shownFields),
         \A l \in DOMAIN shownFields :
           part \in Types \union {"link"} /\ frame.copied >= Eth =>
             /\ part \in {"link", frame.type}
             /\ l # "traffic_class" => shownFields[l] = Standard(part)[l]
  PROVE  DecodeInv'
<1>1. ASSUME NEW s \in shown', s.part \in Types \union {"link"}, frame.copied >= Eth
      PROVE  /\ s.part \in {"link", frame.type}
             /\ s.label # "traffic_class" => s.bits = Standard(s.part)[s.label]
  <2>1. CASE s \in shown
    BY <1>1, <2>1 DEF DecodeInv, NetworkFieldsInPlace
  <2>2. CASE s \notin shown
    <3>1. PICK l \in DOMAIN shownFields :
            s = [part |-> part, label |-> l, bits |-> shownFields[l]]
      BY <1>1, <2>2 DEF Display
    <3> QED
      BY <1>1, <3>1
  <2> QED
    BY <2>1, <2>2
<1> QED
  BY <1>1 DEF DecodeInv, NetworkFieldsInPlace

LEMMA DecodeStep ==
  ASSUME DecodeInv, [Next]_vars
  PROVE  DecodeInv'
<1>1. CASE Link
  <2> DEFINE linkFields == [destination |-> Bits(0, 6), source |-> Bits(6, 6)]
  <2>1. linkFields = Standard("link")
    BY DEF Standard, Bits
  <2>2. frame' = frame /\ Display("link", linkFields)
    BY <1>1 DEF Link
  <2> HIDE DEF linkFields
  <2> QED
    BY <2>1, <2>2, DisplayKeeps
<1>2. CASE Network
  <2>1. frame' = frame
    BY <1>2 DEF Network
  <2>2. PICK type \in Seen(Eth - 1, frame.type, Types) :
          Display(type, NetworkFields(type))
    BY <1>2 DEF Network
  <2>3. frame.type \in Types /\ frame.copied \in Nat
    BY DecodeAssumption DEF DecodeInv, Frames
  <2>4. type \in Types /\ (frame.copied >= Eth => type = frame.type)
    BY <2>2, <2>3 DEF Seen, Eth
  <2> QED
    BY <2>1, <2>2, <2>4, DisplayKeeps, FieldsAreStandard
<1>3. CASE Transport
  <2>1. frame' = frame
    BY <1>3 DEF Transport
  <2>2. PICK p \in Protocols : \E f : Display(p, f) /\ (p = "other" => f = <<>>)
    <3>1. PICK p \in Protocols, ihl \in HeaderWords :
            LET at == Eth + 4 * ihl
            IN  Display(p, CASE p = "ICMP" -> [type |-> Bits(at, 1), code |-> Bits(at + 1, 1)]
                             [] p = "TCP" -> [source_port |-> Bits(at, 2),
                                              destination_port |-> Bits(at + 2, 2),
                                              flags |-> <<8 * (at + 13) + 7, 1>>]
                             [] p = "UDP" -> [source_port |-> Bits(at, 2),
                                              destination_port |-> Bits(at + 2, 2)]
                             [] OTHER -> <<>>)
      BY <1>3 DEF Transport
    <3> QED
      BY <3>1
  <2>3. PICK f : Display(p, f) /\ (p = "other" => f = <<>>)
    BY <2>2
  <2>4. p \notin Types \union {"link"} \/ DOMAIN f = {}
    BY <2>3 DEF Protocols, Types
  <2> QED
    BY <2>1, <2>3, <2>4, DisplayKeeps
<1>4. CASE Payload
  <2>1. frame' = frame
    BY <1>4 DEF Payload
  <2>2. CASE shown' = shown
    BY <2>1, <2>2 DEF DecodeInv, NetworkFieldsInPlace
  <2>3. CASE shown' # shown
    <3>1. PICK service \in Services : \E f : Display(service, f)
      BY <1>4, <2>3 DEF Payload
    <3>2. service \notin Types \union {"link"}
      BY <3>1 DEF Services, Types
    <3>3. PICK f : Display(service, f)
      BY <3>1
    <3> QED
      BY <2>1, <3>2, <3>3, DisplayKeeps
  <2> QED
    BY <2>2, <2>3
<1>5. CASE UNCHANGED vars
  BY <1>5 DEF vars, DecodeInv, NetworkFieldsInPlace
<1> QED
  BY <1>1, <1>2, <1>3, <1>4, <1>5 DEF Next

\* However much of a frame its copy keeps, when that includes the type its network
\* header is decoded by the decoder of that type, and each field that etherType
\* displays is read where the standard has it, but for half of the traffic class.
THEOREM NetworkHeadersDecodeInPlace == Spec => []NetworkFieldsInPlace
<1>1. Init => DecodeInv
  BY DEF Init, DecodeInv, NetworkFieldsInPlace
<1>2. DecodeInv /\ [Next]_vars => DecodeInv'
  BY DecodeStep
<1>3. DecodeInv => NetworkFieldsInPlace
  BY DEF DecodeInv
<1> QED
  BY <1>1, <1>2, <1>3, PTL DEF Spec

=============================================================================
