--------------------------- MODULE MCPacketParser ---------------------------
(***************************************************************************)
(* Frames for TLC: sizes of data around each limit of the parsers, with    *)
(* options, extension headers and padding, and with lengths that do not    *)
(* agree (skew is added to a length field, cut is missing at the end).     *)
(***************************************************************************)
EXTENDS PacketParser

DataSizes == {0, 1, 28, 1500, 1501}
Offsets   == {4, 5, 8}

\* size is what the frame would have without padding or a missing end.
MakeFrame(type, version, hl, len, chain, proto, off, uh, size) ==
    [size |-> size, ether_type |-> type, version |-> version, ip_hl |-> hl,
     ip_len |-> IF type = "ipv4" THEN len ELSE 0,
     payload_len |-> IF type = "ipv6" THEN len ELSE 0, chain |-> chain,
     proto |-> proto, th_off |-> off, uh_len |-> uh]

Ipv4Frames ==
    {MakeFrame("ipv4", version, hl, 4 * hl + 4 * off + data + skew, <<>>,
               proto, off, uh, 14 + 4 * hl + 4 * off + data + pad) :
       version \in {4, 6}, hl \in {5, 6}, off \in Offsets,
       data \in DataSizes, skew \in {-24, 0, 5}, proto \in Protocols,
       uh \in {20, 48}, pad \in {0, 6}}

Options(n) == [kind |-> "options", hdr_len |-> n]
Auth(n)    == [kind |-> "ah", hdr_len |-> n]
Esp        == [kind |-> "esp", hdr_len |-> 0]

Chains == {<<>>, <<Options(0)>>, <<Options(1)>>, <<Options(0), Options(0)>>,
           <<Options(7), Options(1)>>, <<Auth(4)>>, <<Options(0), Auth(1)>>,
           <<Esp>>}
BytesOf(chain) == ChainSize([chain |-> chain])

Ipv6Frames ==
    {MakeFrame("ipv6", 6, 5, BytesOf(chain) + 4 * off + data + skew, chain,
               proto, off, uh,
               14 + 40 + BytesOf(chain) + 4 * off + data + pad) :
       chain \in Chains, off \in Offsets, data \in DataSizes,
       skew \in {-4, 0, 5}, proto \in Protocols, uh \in {20, 48},
       pad \in {0, 6}}

\* Frames that end within a header.
CutFrames ==
    {MakeFrame(type, version, 5, 20, <<>>, "tcp", 5, 20, size) :
       type \in EtherTypes, version \in {4, 6}, size \in {0, 13, 14, 33, 53}}

SomeFrames == Ipv4Frames \cup Ipv6Frames \cup CutFrames

=============================================================================
