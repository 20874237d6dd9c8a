---------------------------- MODULE PacketParser ----------------------------
(***************************************************************************)
(* The parsers of PacketParser/ (Ethernet, IPv4, IPv6, TCP, UDP) and what  *)
(* PcapLoopCallback::handlePacket makes of their result.                   *)
(*                                                                         *)
(* A frame is its size and the header fields the parsers read, each as it  *)
(* stands in memory at the place where it is read.  A result is a place    *)
(* and a size, counted from the start of the frame.  An invalid_argument   *)
(* is caught by handlePacket.  Nothing catches any other throw: "throw;"   *)
(* without an exception, and std::map::at of an unknown next header, end   *)
(* the process.  Addresses, ports and checksums are read and not tested.   *)
(*                                                                         *)
(* An extension header is of kind "options" when its length is in units of *)
(* eight bytes (hop-by-hop, routing, fragment, destination, mobility,      *)
(* HIP, shim6, the experimental ones), "ah" or "esp".                      *)
(***************************************************************************)
EXTENDS Integers, Sequences

CONSTANTS
    SizeValues,       \* 2^64: values of a size_t
    MAX_PACKET_SIZE,  \* 1500: bytes of a slot of the shared buffers
    Frames            \* bound: the frames that are parsed

EtherTypes == {"ipv4", "ipv6", "other"}
Protocols  == {"tcp", "udp", "sctp", "nonxt", "other"}
Layers     == {"ethernet", "ipv4", "ipv6", "tcp", "udp"}
LinkTypes  == {"ethernet", "other"}

\* Fields of 4, 8 and 16 bits.
Nibble == 0 .. 15
Byte   == 0 .. 255
Word   == 0 .. 65535

ExtensionHeader == [kind : {"options", "ah", "esp"}, hdr_len : Byte]

\* chain: the IPv6 extension headers; proto: ip_p, or the next_hdr that is no
\* extension header.
Frame == [size : Nat, ether_type : EtherTypes, version : Nibble,
          ip_hl : Nibble, ip_len : Word, payload_len : Word,
          chain : Seq(ExtensionHeader), proto : Protocols, th_off : Nibble,
          uh_len : Word]

ASSUME ParserAssumption ==
    /\ MAX_PACKET_SIZE \in Nat
    /\ SizeValues \in Nat
    /\ SizeValues > 65535 + 60 + MAX_PACKET_SIZE
    /\ Frames \subseteq Frame

\* Differences of size_t wrap around.
Unsigned(n) == IF n < 0 THEN n + SizeValues ELSE n

Payload(at, size) == [what |-> "payload", at |-> at, size |-> size]
InvalidArgument   == [what |-> "invalid_argument"]
Ignored           == [what |-> "ignored"]
Terminates        == [what |-> "terminates"]

-----------------------------------------------------------------------------
TcpDecode(layer, f, at, size) ==
    IF layer # "tcp" THEN Terminates
    ELSE IF size < 20 THEN InvalidArgument
    ELSE Payload(at + 4 * f.th_off, Unsigned(size - 4 * f.th_off))

UdpDecode(layer, f, at, size) ==
    IF layer # "udp" THEN Terminates
    ELSE IF size < 8 \/ f.uh_len > size THEN InvalidArgument
    ELSE Payload(at + 8, size - 8)

TransportDecode(layer, f, at, size) ==
    CASE f.proto = "tcp" -> TcpDecode(layer, f, at, size)
      [] f.proto = "udp" -> UdpDecode(layer, f, at, size)
      [] OTHER           -> Terminates

\* Mutant: the payload goes on to the end of the frame, padding included.
Ipv4DecodeToEnd(layer, f, at, size) ==
    IF size < 20 THEN InvalidArgument
    ELSE IF f.version # 4 THEN Terminates
    ELSE IF layer = "ipv4"
    THEN Payload(at + 4 * f.ip_hl, Unsigned(size - 4 * f.ip_hl))
    ELSE TransportDecode(layer, f, at + 4 * f.ip_hl,
                         Unsigned(size - 4 * f.ip_hl))

\* The total length is taken from the header and not compared with size.
Ipv4Decode(layer, f, at, size) ==
    LET start  == at + 4 * f.ip_hl
        length == Unsigned(f.ip_len - 4 * f.ip_hl)
    IN  IF size < 20 THEN InvalidArgument
        ELSE IF f.version # 4 THEN Terminates
        ELSE IF layer = "ipv4" THEN Payload(start, length)
        ELSE TransportDecode(layer, f, start, length)

\* Mutant: the length is taken to count the first eight bytes.
ExtensionSizeAll(h) == 8 * h.hdr_len

\* The walk takes the length of every kind of header in this unit.
ExtensionSize(h) == 8 * h.hdr_len + 8

\* payload_size after the walk over the extension headers, -1 for a throw:
\* each of them wants 64 bytes and its own length left.
LeftAfterChain(f) ==
    LET left[i \in 0 .. Len(f.chain)] ==
          IF i = 0 THEN f.payload_len
          ELSE IF \/ left[i - 1] < 64
                  \/ left[i - 1] < ExtensionSize(f.chain[i]) THEN -1
          ELSE left[i - 1] - ExtensionSize(f.chain[i])
    IN  left[Len(f.chain)]

\* Mutant: the length field is not compared with the frame.
FitsUnchecked(f, size) == TRUE
Fits(f, size)          == f.payload_len <= size - 40

\* A next header that is not in HeaderTypeMap throws std::out_of_range.
Ipv6Decode(layer, f, at, size) ==
    LET left  == LeftAfterChain(f)
        start == at + 40 + f.payload_len - left
    IN  IF size < 40 THEN InvalidArgument
        ELSE IF f.version # 6 THEN Terminates
        ELSE IF ~Fits(f, size) THEN InvalidArgument
        ELSE IF left < 0 \/ f.proto \in {"sctp", "other"} THEN Terminates
        ELSE IF layer # "ipv6" THEN TransportDecode(layer, f, start, left)
        ELSE IF f.proto = "nonxt" THEN Payload(0, 0)
        ELSE Payload(start, left)

\* PacketParser::decodeUntil.
EthernetDecode(layer, f) ==
    IF f.size < 14 THEN InvalidArgument
    ELSE IF layer = "ethernet" THEN Payload(14, f.size - 14)
    ELSE CASE f.ether_type = "ipv4" -> Ipv4Decode(layer, f, 14, f.size - 14)
           [] f.ether_type = "ipv6" -> Ipv6Decode(layer, f, 14, f.size - 14)
           [] OTHER                 -> Terminates

\* What handlePacket does with a frame: nothing, the end of the process, or
\* the part of the frame it stores.
Handle(f, user) ==
    LET d == IF user.linktype = "ethernet" THEN EthernetDecode("tcp", f)
             ELSE InvalidArgument
    IN  IF user.stop_loop \/ d.what = "invalid_argument" THEN Ignored
        ELSE IF d.what = "terminates" \/ d.size > MAX_PACKET_SIZE
        THEN Terminates
        ELSE IF d.size = 0 THEN Ignored
        ELSE d

-----------------------------------------------------------------------------
VARIABLES
    frame,    \* what libpcap, the error queue or a test hands over
    usrdata,  \* of UserData: the link type, and whether stopLoop has begun
    layer,    \* the layer decodeUntil is asked for
    outcome,  \* <<>> before decodeUntil, then its result
    stored    \* <<>> before handlePacket, then its result

parserVars == <<frame, usrdata, layer, outcome, stored>>

Init ==
    /\ frame \in Frames
    /\ usrdata \in [linktype : LinkTypes, stop_loop : BOOLEAN]
    /\ layer \in Layers
    /\ outcome = <<>> /\ stored = <<>>

decodeUntil ==
    /\ outcome = <<>>
    /\ outcome' = <<EthernetDecode(layer, frame)>>
    /\ UNCHANGED <<frame, usrdata, layer, stored>>

handlePacket ==
    /\ stored = <<>>
    /\ stored' = <<Handle(frame, usrdata)>>
    /\ UNCHANGED <<frame, usrdata, layer, outcome>>

Next == decodeUntil \/ handlePacket

Spec == Init /\ [][Next]_parserVars

-----------------------------------------------------------------------------
(***************************************************************************)
(* The reference: where the parts of a frame are when its sender has       *)
(* filled in every length as the standards say.  RFC 8200 counts eight     *)
(* bytes and does not count the first eight; RFC 4302 counts, for the      *)
(* authentication header, four bytes and does not count two of these.      *)
(***************************************************************************)

HeaderSize(h) == IF h.kind = "ah" THEN 4 * (h.hdr_len + 2)
                 ELSE 8 * (h.hdr_len + 1)

ChainSize(f) ==
    LET total[i \in 0 .. Len(f.chain)] ==
          IF i = 0 THEN 0 ELSE total[i - 1] + HeaderSize(f.chain[i])
    IN  total[Len(f.chain)]

NetworkHeader(f) == IF f.ether_type = "ipv4" THEN 4 * f.ip_hl
                    ELSE 40 + ChainSize(f)
NetworkLength(f) == IF f.ether_type = "ipv4" THEN f.ip_len
                    ELSE 40 + f.payload_len
TransportHeader(f) == CASE f.proto = "tcp"  -> 4 * f.th_off
                        [] f.proto = "udp"  -> 8
                        [] f.proto = "sctp" -> 12

\* The size of the TCP segment or the datagram, with and without its header.
SegmentSize(f) == NetworkLength(f) - NetworkHeader(f)
DataSize(f)    == SegmentSize(f) - TransportHeader(f)
SegmentAt(f)   == 14 + NetworkHeader(f)
DataAt(f)      == SegmentAt(f) + TransportHeader(f)

\* Some header is an authentication header, whose unit the walk mistakes.
Authenticated(f) == \E i \in DOMAIN f.chain : f.chain[i].kind = "ah"

\* A frame of which no field up to the transport header is wrong.  Behind an
\* authentication header the walk reads fields where the sender put others,
\* so it is the last header here.  An ESP header hides what comes after it.
\* Beyond the datagram, a frame may be padded to the minimum of the medium.
ConsistentNetwork(f) ==
    /\ \/ f.ether_type = "ipv4" /\ f.version = 4 /\ f.ip_hl >= 5
       \/ f.ether_type = "ipv6" /\ f.version = 6
    /\ \A i \in DOMAIN f.chain :
          /\ f.chain[i].kind # "esp"
          /\ f.chain[i].kind = "ah" =>
                i = Len(f.chain) /\ f.chain[i].hdr_len > 0
    /\ f.proto \in {"tcp", "udp", "sctp"}
    /\ SegmentSize(f) >= 0
    /\ 14 + NetworkLength(f) <= f.size

\* Of which no field is wrong, and all are read where they are.
Consistent(f) ==
    /\ ConsistentNetwork(f) /\ ~(f.ether_type = "ipv6" /\ Authenticated(f))
    /\ DataSize(f) >= 0
    /\ f.proto = "tcp" => f.th_off >= 5
    /\ f.proto = "udp" => f.uh_len = SegmentSize(f)

\* Some extension header starts less than 64 bytes before the end.
ShortTail(f) ==
    /\ f.ether_type = "ipv6"
    /\ \E i \in DOMAIN f.chain :
          f.payload_len
             - ChainSize([f EXCEPT !.chain = SubSeq(@, 1, i - 1)]) < 64

\* What ends the process on a frame without a fault: such a header, and, in
\* IPv6, a transport HeaderTypeMap does not know.
Ends(f) == ShortTail(f) \/ (f.ether_type = "ipv6" /\ f.proto = "sctp")

\* A consistent frame yields exactly the payload of the layer it is decoded
\* to, whatever options, extension headers and padding it has, or ends the
\* process in the two cases of Ends.  But of an IPv6 packet with an
\* authentication header the payload is never found: the walk takes four
\* bytes for eight (HeaderTypeMap, and the step of the walk).
DecodesLayer ==
    outcome # <<>> =>
       /\ layer = frame.proto /\ Consistent(frame) =>
             outcome[1] = IF Ends(frame) THEN Terminates
                          ELSE Payload(DataAt(frame), DataSize(frame))
       /\ layer = frame.ether_type /\ ConsistentNetwork(frame) =>
             IF layer = "ipv6" /\ Authenticated(frame)
             THEN outcome[1] # Payload(SegmentAt(frame), SegmentSize(frame))
             ELSE outcome[1] = IF Ends(frame) THEN Terminates
                     ELSE Payload(SegmentAt(frame), SegmentSize(frame))

\* What the comment at Ipv6Parser.cpp:51 says of the headers the walk passes
\* in a frame without a fault: all of them are multiples of 64 bytes.
HeadersOf64 ==
    /\ outcome # <<>> /\ outcome[1].what = "payload"
    /\ layer = "ipv6" /\ ConsistentNetwork(frame)
    => \A i \in DOMAIN frame.chain : ExtensionSize(frame.chain[i]) % 64 = 0

\* What passes setFilter's expression, which names hosts and ports and no
\* protocol.  Its test of the ports does not walk over extension headers.
Admitted(f) ==
    /\ f.ether_type \in {"ipv4", "ipv6"}
    /\ f.proto \in {"tcp", "udp", "sctp"}
    /\ f.chain = <<>>

\* Of the consistent frames the filter admits, handlePacket stores exactly
\* the data of a TCP segment, ignores one without data (padded or not), and
\* ends the process exactly on data above MAX_PACKET_SIZE, on UDP and on SCTP.
\* From a device without Ethernet headers, or once stopLoop has set its flag,
\* it ignores them all.
CapturesExactly ==
    stored # <<>> /\ Consistent(frame) /\ Admitted(frame) =>
       stored[1] = IF usrdata.stop_loop \/ usrdata.linktype = "other"
                   THEN Ignored
                   ELSE IF frame.proto # "tcp"
                           \/ DataSize(frame) > MAX_PACKET_SIZE
                   THEN Terminates
                   ELSE IF DataSize(frame) = 0 THEN Ignored
                   ELSE Payload(DataAt(frame), DataSize(frame))

\* Of an IPv6 frame, whatever its fields say, nothing outside the frame is
\* stored; of an IPv4 frame, whose total length is not checked, only when
\* that length fits the frame.
StoredInFrame ==
    /\ stored # <<>> /\ stored[1].what = "payload"
    /\ \/ frame.ether_type = "ipv6"
       \/ 14 + frame.ip_len <= frame.size
    => stored[1].at + stored[1].size <= frame.size

=============================================================================
