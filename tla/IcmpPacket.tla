------------------------------ MODULE IcmpPacket ------------------------------
(***************************************************************************)
(* The ICMP packets of networkping.go, byte by byte: Marshal with its      *)
(* checksum, and parseICMPReply.                                           *)
(***************************************************************************)
EXTENDS Integers, Sequences

icmpEchoRequest == 8
icmpEchoReply == 0

Byte == 0..255
Uint16 == 0..65535

Packets == [Type : Byte, Code : Byte, ID : Uint16, Seq : Uint16, Data : Seq(Byte)]

Zeros(n) == [i \in 1..n |-> 0]

Word(high, low) == 256 * high + low
High(word) == word \div 256
Low(word) == word % 256

\* The 16-bit words of the data, of which a last odd byte is the high half of one.
Words(data) == (Len(data) + 1) \div 2
WordAt(data, n) == Word(data[2 * n - 1], IF 2 * n <= Len(data) THEN data[2 * n] ELSE 0)

\* The loop over the words.  Its sum is a uint32.
SumOf(data) ==
    LET Sum[n \in 0..Words(data)] == IF n = 0 THEN 0 ELSE Sum[n - 1] + WordAt(data, n)
    IN  Sum[Words(data)]

\* The loop over the carries.
Carried[sum \in Nat] ==
    IF sum < 2^16 THEN sum ELSE Carried[(sum % 2^16) + sum \div 2^16]

\* Mutated form: the carries are cut off.
checksumTruncated(data) == 2^16 - 1 - (SumOf(data) % 2^16)

checksum(data) == 2^16 - 1 - Carried[SumOf(data)]

\* The bytes of a packet, with this checksum.
Buffer(packet, cs) ==
    << packet.Type, packet.Code, High(cs), Low(cs),
       High(packet.ID), Low(packet.ID), High(packet.Seq), Low(packet.Seq) >> \o packet.Data

Marshal(packet) == Buffer(packet, checksum(Buffer(packet, 0)))

\* The check that parseICMPReply begins with: it makes no packet of such data.
tooShort(data) == Len(data) < 28

\* An IP header of 20 bytes comes first.
parseICMPReply(data) ==
    LET icmp == SubSeq(data, 21, Len(data))
    IN  [Type |-> icmp[1], Code |-> icmp[2], Checksum |-> Word(icmp[3], icmp[4]),
         ID |-> Word(icmp[5], icmp[6]), Seq |-> Word(icmp[7], icmp[8]),
         Data |-> SubSeq(icmp, 9, Len(icmp))]
===============================================================================
