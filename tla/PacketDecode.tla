---------------------------- MODULE PacketDecode ----------------------------
(***************************************************************************)
(* What etherType_idle of src/src/packetsnoop.c writes in the view for one *)
(* frame.  process copies the frame with g_strdup, which stops at its      *)
(* first zero byte; behind that the decoders read what the heap holds.     *)
(*                                                                         *)
(* A field that is displayed is the bits it is read from, <<first, width>> *)
(* counted from the start of the frame; what their value is does not       *)
(* matter here, except where it selects a decoder.                         *)
(***************************************************************************)
EXTENDS Integers

CONSTANTS
  Copies,       \* the numbers of bytes of a frame its copy may keep, the zero included
  HeaderWords,  \* values of the IPv4 header length, in words
  BUFFER_SIZE,  \* the size all decoders are told
  OutputSize    \* length of the array output of httpPacket

ASSUME DecodeAssumption ==
  /\ Copies \subseteq Nat
  /\ HeaderWords \subseteq 0 .. 15
  /\ {BUFFER_SIZE, OutputSize} \subseteq Nat

Types == {"IPv4", "IPv6", "ARP", "other"}
Protocols == {"ICMP", "TCP", "UDP", "other"}
Services == {"HTTPS", "HTTP", "none"}

Eth == 14  \* sizeof(struct ethhdr)

Bits(byte, bytes) == <<8 * byte, 8 * bytes>>
LastByte(b) == (b[1] + b[2] - 1) \div 8

VARIABLES
  frame,  \* its type, and how many of its bytes the copy keeps
  next,   \* what is decoded next: "link", "network", "transport", "payload", "end"
  shown,  \* the fields displayed: [part, label, bits]
  fault   \* a dump has run past the end of output

vars == <<frame, next, shown, fault>>

\* 0x0800 ends in a zero byte, and the hardware type of ARP, 0x0001, begins with one.
Frames == {f \in [type : Types, copied : Copies] :
             /\ f.type = "IPv4" => f.copied <= 14
             /\ f.type = "ARP" => f.copied <= 15}

TypeOK ==
  /\ frame \in Frames
  /\ next \in {"link", "network", "transport", "payload", "end"}
  /\ \A s \in shown : s.part \in Types \union Protocols \union Services \union {"link"}
                      /\ s.bits \in Nat \X (1 .. 8 * BUFFER_SIZE)
  /\ fault \in BOOLEAN

Init ==
  /\ frame \in Frames
  /\ next = "link"
  /\ shown = {}
  /\ fault = FALSE

\* What a read of the bytes up to "last" finds: the frame's own, or anything.
Seen(last, own, all) == IF last < frame.copied THEN {own} ELSE all

Display(part, fields) ==
  shown' = shown \union {[part |-> part, label |-> l, bits |-> fields[l]] : l \in DOMAIN fields}

Link ==
  /\ next = "link"
  /\ Display("link", [destination |-> Bits(0, 6), source |-> Bits(6, 6)])
  /\ next' = "network"
  /\ UNCHANGED <<frame, fault>>

\* Seeded fault: the sender's address is taken to follow the fixed header.
SenderIpFirst == Eth + 8

\* sender_ip follows sender_mac, which follows struct arphdr.
SenderIp == Eth + 8 + 6

\* The fields etherType displays after a type.
NetworkFields(type) ==
  CASE type = "IPv4" ->
         [version |-> <<8 * Eth, 4>>, header_length |-> <<8 * Eth + 4, 4>>,
          ttl |-> Bits(Eth + 8, 1), protocol |-> Bits(Eth + 9, 1),
          source |-> Bits(Eth + 12, 4), destination |-> Bits(Eth + 16, 4)]
    [] type = "IPv6" ->  \* the version is a constant
         [traffic_class |-> <<8 * Eth + 4, 4>>, flow_label |-> <<8 * Eth + 12, 20>>,
          payload_length |-> Bits(Eth + 4, 2), next_header |-> Bits(Eth + 6, 1),
          hop_limit |-> Bits(Eth + 7, 1), source |-> Bits(Eth + 8, 16),
          destination |-> Bits(Eth + 24, 16)]
    [] type = "ARP" ->
         [hardware |-> Bits(Eth, 2), protocol |-> Bits(Eth + 2, 2),
          operation |-> Bits(Eth + 6, 2), sender_ip |-> Bits(SenderIp, 4),
          target_ip |-> Bits(SenderIp + 4 + 6, 4)]
    [] OTHER -> <<>>  \* "Protocole Ethernet non pris en charge"

Network ==
  /\ next = "network"
  /\ \E type \in Seen(Eth - 1, frame.type, Types) : Display(type, NetworkFields(type))
  /\ next' = "transport"
  /\ UNCHANGED <<frame, fault>>

\* The protocol byte and the header length of IPv4 are read in every frame, of
\* whatever type: none of those that hold them keeps them in its copy.
Transport ==
  /\ next = "transport"
  /\ \E p \in Protocols, ihl \in HeaderWords :
       LET at == Eth + 4 * ihl
       IN  /\ Display(p, CASE p = "ICMP" -> [type |-> Bits(at, 1), code |-> Bits(at + 1, 1)]
                           [] p = "TCP" -> [source_port |-> Bits(at, 2),
                                            destination_port |-> Bits(at + 2, 2),
                                            flags |-> <<8 * (at + 13) + 7, 1>>]  \* their OR, 0 or 1
                           [] p = "UDP" -> [source_port |-> Bits(at, 2),
                                            destination_port |-> Bits(at + 2, 2)]
                           [] OTHER -> <<>>)
           /\ next' = IF p = "TCP" THEN "payload" ELSE "end"
  /\ UNCHANGED <<frame, fault>>

\* The characters that httpPacket writes for n bytes after its two title lines:
\* three for each, one more as text, and five for each line of sixteen but the
\* first, which has four.
DumpLength(n) == 4 * n + 5 * ((n + 15) \div 16) - 1

\* etherType_idle hands BUFFER_SIZE on, whatever the size of the frame.
Size == BUFFER_SIZE

\* Port 443 is tried before 80, in ports that no copy holds.  The payload is all
\* that is left of the size.
Payload ==
  /\ next = "payload"
  /\ \E service \in Services, ihl \in HeaderWords, doff \in HeaderWords :
       LET at == Eth + 4 * ihl + 4 * doff
       IN  IF service = "none"
           THEN UNCHANGED <<shown, fault>>
           ELSE /\ Display(service, [data |-> Bits(at, Size - at)])
                /\ fault' = (DumpLength(Size - at) > OutputSize)
  /\ next' = "end"
  /\ UNCHANGED frame

Next == Link \/ Network \/ Transport \/ Payload

Spec == Init /\ [][Next]_vars

----------------------------------------------------------------------------
(* Properties                                                              *)

\* Where the fields of a frame are, by the standards of its protocols.
Standard(part) ==
  CASE part = "link" -> [destination |-> <<0, 48>>, source |-> <<48, 48>>]
    [] part = "IPv4" ->
         [version |-> <<112, 4>>, header_length |-> <<116, 4>>, ttl |-> <<176, 8>>,
          protocol |-> <<184, 8>>, source |-> <<208, 32>>, destination |-> <<240, 32>>]
    [] part = "IPv6" ->
         [traffic_class |-> <<116, 8>>, flow_label |-> <<124, 20>>,
          payload_length |-> <<144, 16>>, next_header |-> <<160, 8>>,
          hop_limit |-> <<168, 8>>, source |-> <<176, 128>>, destination |-> <<304, 128>>]
    [] part = "ARP" ->
         [hardware |-> <<112, 16>>, protocol |-> <<128, 16>>, operation |-> <<160, 16>>,
          sender_ip |-> <<224, 32>>, target_ip |-> <<304, 32>>]

\* When the copy keeps the type, the network header is decoded by the decoder of
\* that type, and each field where the standard has it, but for the traffic
\* class, of which one half is shown.
NetworkFieldsInPlace ==
  \A s \in shown : s.part \in Types \union {"link"} /\ frame.copied >= Eth =>
    /\ s.part \in {"link", frame.type}
    /\ s.label # "traffic_class" => s.bits = Standard(s.part)[s.label]

----------------------------------------------------------------------------
(* What the documentation says and the code does not do                    *)

\* README: packets are displayed with the information of their IP header.  So
\* what is shown as an IPv4 header are bytes of the frame.
HeadersAreOfFrame ==
  \A s \in shown : s.part = "IPv4" => LastByte(s.bits) < frame.copied

\* README: the data of the transport protocols can be looked at.  So the dump of
\* a payload ends within the array it is written to.
DumpsFit == ~ fault

=============================================================================
