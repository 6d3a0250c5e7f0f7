------------------------------------ MODULE Net ------------------------------------
(***************************************************************************)
(* The packets of the network stack: Ethernet, ARP, IPv4, ICMP, TCP and UDP    *)
(* headers in a buffer of bytes.  A header is emitted into a buffer that holds *)
(* anything, its checksum filled in, and the buffer may reach the parser cut   *)
(* short or with a byte changed.  A field is a sequence of bytes, most         *)
(* significant first, at a place given by the layout of its protocol.          *)
(***************************************************************************)
EXTENDS Integers, Sequences, FiniteSets, SequencesExt

CONSTANTS NetReprs,        \* headers emitted: [kind, fields, payload]
          PayloadByte,     \* what the payload is made of
          StaleByte,       \* what the buffer held before
          AlteredBytes,    \* values a byte may change to
          NetSource, NetDest   \* addresses of the pseudo-header, four bytes each

VARIABLES net_buf, net_sent, net_stage
netVars == <<net_buf, net_sent, net_stage>>

BytesOf(w) == <<w \div 256, w % 256>>
Word(b) == 256 * b[1] + b[2]

\* Where each field is: <<first byte, length>>.
EthernetLayout == [dst |-> <<0, 6>>, src |-> <<6, 6>>, ethertype |-> <<12, 2>>]

\* The places of the addresses follow from the two length bytes; these are those of
\* Ethernet and IPv4, the only ones parsed.
ArpLayout ==
    [htype |-> <<0, 2>>, ptype |-> <<2, 2>>, hlen |-> <<4, 1>>, plen |-> <<5, 1>>, op |-> <<6, 2>>,
     sha |-> <<8, 6>>, spa |-> <<14, 4>>, tha |-> <<18, 6>>, tpa |-> <<24, 4>>]

IpLayout ==
    [vihl |-> <<0, 1>>, dscp |-> <<1, 1>>, len |-> <<2, 2>>, id |-> <<4, 2>>, frag |-> <<6, 2>>, ttl |-> <<8, 1>>,
     protocol |-> <<9, 1>>, checksum |-> <<10, 2>>, src |-> <<12, 4>>, dst |-> <<16, 4>>]

IcmpLayout == [type |-> <<0, 1>>, code |-> <<1, 1>>, checksum |-> <<2, 2>>, rest |-> <<4, 4>>]

TcpLayout ==
    [src |-> <<0, 2>>, dst |-> <<2, 2>>, seq |-> <<4, 4>>, ack |-> <<8, 4>>, offset |-> <<12, 1>>, flags |-> <<13, 1>>,
     window |-> <<14, 2>>, checksum |-> <<16, 2>>, urgent |-> <<18, 2>>]

UdpLayout == [src |-> <<0, 2>>, dst |-> <<2, 2>>, len |-> <<4, 2>>, checksum |-> <<6, 2>>]

Layout(kind) ==
    CASE kind = "ethernet" -> EthernetLayout [] kind = "arp" -> ArpLayout [] kind = "ip" -> IpLayout
      [] kind = "icmp" -> IcmpLayout [] kind = "tcp" -> TcpLayout [] kind = "udp" -> UdpLayout

HeaderLen(kind) ==
    CASE kind = "ethernet" -> 14 [] kind = "arp" -> 28 [] kind \in {"ip", "tcp"} -> 20 [] kind \in {"icmp", "udp"} -> 8

FieldOf(buf, at) == SubSeq(buf, at[1] + 1, at[1] + at[2])

SetField(buf, at, bytes) ==
    [i \in DOMAIN buf |-> IF i - 1 \in at[1]..at[1] + at[2] - 1 THEN bytes[i - at[1]] ELSE buf[i]]

SetFields(kind, buf, values) ==
    FoldSet(LAMBDA f, b : SetField(b, Layout(kind)[f], values[f]), buf, DOMAIN values)

---------------------------------------------------------------------------
\* checksum, checksum_with_pseudo: the complement of the sum of the big-endian words,
\* an odd last byte padded with a zero.
WordAt(buf, i) == 256 * buf[i] + (IF i < Len(buf) THEN buf[i + 1] ELSE 0)

WordSum(buf) == FoldSet(LAMBDA i, s : s + WordAt(buf, i), 0, {i \in DOMAIN buf : i % 2 = 1})

Carry(s) == (s % 65536) + (s \div 65536)

Checksum(pseudo, buf) == 65535 - Carry(Carry(WordSum(pseudo) + WordSum(buf)))

Pseudo(protocol, len) == NetSource \o NetDest \o <<0, protocol>> \o BytesOf(len)

\* fill_checksum of each protocol: over the IPv4 header, or over the whole buffer with,
\* for TCP and UDP, the pseudo-header in front; a UDP checksum of zero is sent as all ones.
IpSum(buf) == Checksum(<<>>, SubSeq(buf, 1, 4 * (buf[1] % 16)))
IcmpSum(buf) == Checksum(<<>>, buf)
TcpSum(buf) == Checksum(Pseudo(6, Len(buf)), buf)
UdpSum(buf) == Checksum(Pseudo(17, Word(FieldOf(buf, UdpLayout.len))), buf)

SumOf(kind, buf) ==
    CASE kind = "ip" -> IpSum(buf) [] kind = "icmp" -> IcmpSum(buf) [] kind = "tcp" -> TcpSum(buf) [] kind = "udp" -> UdpSum(buf)

FillWith(kind, buf, sum) ==
    SetField(buf, Layout(kind).checksum, BytesOf(IF kind = "udp" /\ sum = 0 THEN 65535 ELSE sum))

\* Mutant: the sum covers what was in the checksum field before.
FilledOverStale(kind, buf) == FillWith(kind, buf, SumOf(kind, buf))

Filled(kind, buf) == FillWith(kind, buf, SumOf(kind, SetField(buf, Layout(kind).checksum, <<0, 0>>)))

---------------------------------------------------------------------------
\* Repr::emit of each protocol.
EmitEthernet(buf, r) == SetFields("ethernet", buf, [src |-> r.src, dst |-> r.dst, ethertype |-> r.ethertype])

EmitArp(buf, r) ==
    SetFields("arp", buf, [htype |-> <<0, 1>>, ptype |-> <<8, 0>>, hlen |-> <<6>>, plen |-> <<4>>, op |-> r.op,
                           sha |-> r.sha, spa |-> r.spa, tha |-> r.tha, tpa |-> r.tpa])

\* The flags as from_bits and to_bits read and write them: the three high bits of a byte.
IpFlagBits(byte) == 32 * (byte \div 32)

\* set_flags_and_fragment_offset shifts that byte by five.
EmitIp(buf, r, payload) ==
    Filled("ip", SetFields("ip", buf,
        [vihl |-> <<69>>, dscp |-> <<0>>, len |-> BytesOf(20 + payload), id |-> <<0, 0>>,
         frag |-> BytesOf(IpFlagBits(r.flags) * 32), ttl |-> r.ttl, protocol |-> r.protocol, src |-> r.src, dst |-> r.dst]))

EmitIcmp(buf, r) ==
    Filled("icmp", SetFields("icmp", buf, [type |-> r.type, code |-> r.code, rest |-> <<0, 0, 0, 0>>]))

EmitTcp(buf, r) ==
    SetFields("tcp", buf, [src |-> r.src, dst |-> r.dst, seq |-> r.seq, ack |-> r.ack, offset |-> <<80>>,
                           flags |-> r.flags, window |-> r.window, urgent |-> <<0, 0>>])

EmitUdp(buf, r, payload) ==
    SetFields("udp", buf, [src |-> r.src, dst |-> r.dst, len |-> BytesOf(8 + payload)])

EmitInto(buf, m) ==
    CASE m.kind = "ethernet" -> EmitEthernet(buf, m.fields)
      [] m.kind = "arp" -> EmitArp(buf, m.fields)
      [] m.kind = "ip" -> EmitIp(buf, m.fields, m.payload)
      [] m.kind = "icmp" -> EmitIcmp(buf, m.fields)
      [] m.kind = "tcp" -> EmitTcp(buf, m.fields)
      [] m.kind = "udp" -> EmitUdp(buf, m.fields, m.payload)

---------------------------------------------------------------------------
\* Repr::parse: [status, payload], and the value of a field.  "panic" is an unwrap of a
\* value with no meaning, or a slice past the end of the buffer.
EtherTypes == {2048, 2054, 34525}
IpProtocols == {1, 2, 6, 17}
IcmpTypes == {0, 3, 4, 5} \union 8..16

Parsed(ok, payload) == IF ok THEN [status |-> "ok", payload |-> payload] ELSE [status |-> "panic", payload |-> 0]
Refused(why) == [status |-> why, payload |-> 0]

ValueOf(kind, buf, f) == FieldOf(buf, Layout(kind)[f])

ParseEthernet(buf) ==
    IF Len(buf) < 14 THEN Refused("Invalid")
    ELSE Parsed(Word(ValueOf("ethernet", buf, "ethertype")) \in EtherTypes, Len(buf) - 14)

\* check_len reads the lengths of the addresses first.
ArpRecognised(buf) ==
    Word(ValueOf("arp", buf, "htype")) = 1 /\ Word(ValueOf("arp", buf, "ptype")) \in EtherTypes

ParseArp(buf) ==
    CASE Len(buf) < 6 -> Refused("panic")
      [] Len(buf) >= 6 /\ Len(buf) < 8 + 2 * (buf[5] + buf[6]) -> Refused("Invalid")
      [] Len(buf) >= 6 /\ Len(buf) >= 8 + 2 * (buf[5] + buf[6]) /\ ~ArpRecognised(buf) -> Refused("panic")
      [] Len(buf) >= 6 /\ Len(buf) >= 8 + 2 * (buf[5] + buf[6]) /\ ArpRecognised(buf)
           /\ ~(buf[5] = 6 /\ buf[6] = 4 /\ Word(ValueOf("arp", buf, "ptype")) = 2048) -> Refused("Unsupported")
      [] OTHER -> Parsed(Word(ValueOf("arp", buf, "op")) \in {1, 2}, Len(buf) - 28)

ParseIp(buf) ==
    IF Len(buf) < 20 \/ buf[1] \div 16 # 4 THEN Refused("Invalid")
    ELSE Parsed(buf[10] \in IpProtocols /\ 4 * (buf[1] % 16) <= Len(buf), Len(buf) - 4 * (buf[1] % 16))

ParseIcmp(buf) == IF Len(buf) < 8 THEN Refused("Invalid") ELSE Parsed(buf[1] \in IcmpTypes, Len(buf) - 8)

ParseTcp(buf) ==
    IF Len(buf) < 20 THEN Refused("Invalid")
    ELSE Parsed(4 * (buf[13] \div 16) <= Len(buf), Len(buf) - 4 * (buf[13] \div 16))

\* The payload is as long as the length field says.
UdpLen(buf) == Word(ValueOf("udp", buf, "len"))

ParseUdp(buf) ==
    IF Len(buf) < 8 THEN Refused("Invalid")
    ELSE Parsed(UdpLen(buf) <= Len(buf), IF UdpLen(buf) < 8 THEN 0 ELSE UdpLen(buf) - 8)

ParseOf(kind, buf) ==
    CASE kind = "ethernet" -> ParseEthernet(buf)
      [] kind = "arp" -> ParseArp(buf)
      [] kind = "ip" -> ParseIp(buf)
      [] kind = "icmp" -> ParseIcmp(buf)
      [] kind = "tcp" -> ParseTcp(buf)
      [] kind = "udp" -> ParseUdp(buf)

---------------------------------------------------------------------------
NewBuffer(m) ==
    [i \in 1..HeaderLen(m.kind) + m.payload |-> IF i <= HeaderLen(m.kind) THEN StaleByte ELSE PayloadByte]

NetEmit(m) ==
    /\ net_stage = "none"
    /\ net_buf' = EmitInto(NewBuffer(m), m)
    /\ net_sent' = m
    /\ net_stage' = IF m.kind \in {"tcp", "udp"} THEN "emitted" ELSE "ready"

NetFill ==
    /\ net_stage = "emitted"
    /\ net_buf' = Filled(net_sent.kind, net_buf)
    /\ net_stage' = "ready"
    /\ UNCHANGED net_sent

NetCut(n) ==
    /\ net_stage = "ready" /\ n < Len(net_buf)
    /\ net_buf' = SubSeq(net_buf, 1, n)
    /\ net_stage' = "cut"
    /\ UNCHANGED net_sent

NetAlter(i, b) ==
    /\ net_stage = "ready" /\ i \in DOMAIN net_buf
    /\ net_buf' = [net_buf EXCEPT ![i] = b]
    /\ net_stage' = "altered"
    /\ UNCHANGED net_sent

NetInit ==
    /\ net_buf = <<>> /\ net_stage = "none"
    /\ net_sent = [kind |-> "none", fields |-> <<>>, payload |-> 0]

NetNext ==
    \/ \E m \in NetReprs : NetEmit(m)
    \/ NetFill
    \/ \E n \in 0..40 : NetCut(n) \/ \E b \in AlteredBytes : NetAlter(n + 1, b)

---------------------------------------------------------------------------
\* The IPv4 flags are not a field of their own.
SentFields == DOMAIN net_sent.fields \ (IF net_sent.kind = "ip" THEN {"flags"} ELSE {})

\* What was emitted parses back to the same fields and payload whatever the buffer held
\* before, a receiver's sum over the packet and its pseudo-header is all ones, for any
\* payload length, and a packet cut inside its header is never taken for a whole one.
PacketsParseBack ==
    /\ net_stage \in {"emitted", "ready"} =>
         /\ ParseOf(net_sent.kind, net_buf) = [status |-> "ok", payload |-> net_sent.payload]
         /\ \A f \in SentFields : ValueOf(net_sent.kind, net_buf, f) = net_sent.fields[f]
    /\ net_stage = "ready" /\ net_sent.kind \in {"ip", "icmp", "tcp", "udp"} =>
         /\ SumOf(net_sent.kind, net_buf) = 0
         /\ net_sent.kind = "udp" => Word(ValueOf("udp", net_buf, "checksum")) # 0
    /\ net_stage = "cut" /\ Len(net_buf) < HeaderLen(net_sent.kind) =>
         ParseOf(net_sent.kind, net_buf).status # "ok"

\* The flags an IPv4 packet is given are the ones it carries.
IpFlagsParseBack ==
    net_stage = "ready" /\ net_sent.kind = "ip" =>
      IpFlagBits(ValueOf("ip", net_buf, "frag")[1]) = net_sent.fields.flags
====================================================================================
