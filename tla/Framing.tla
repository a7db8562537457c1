------------------------------- MODULE Framing -------------------------------
(***************************************************************************)
(* encode_packet and decode_packet (packet.hpp) at the two ends of a byte  *)
(* stream.  The stream has no marks of its own: a packet is found by its   *)
(* flag, a checksum over the header, and the length the header gives.  The *)
(* body is not covered by the checksum and may hold any bytes, also those  *)
(* of a header.                                                            *)
(*                                                                         *)
(* Where the rings meet (DuplexMemory) the other direction's writer copies *)
(* a run of one of its own packets over bytes that are not yet read: such  *)
(* a run may begin with a flag and a header that is as good as any.        *)
(*                                                                         *)
(* A byte is one of 0 .. Values - 1.  The header has the four fields that  *)
(* decoding uses, of one byte each: flag, what identifies the packet,      *)
(* length of the body, checksum.                                           *)
(***************************************************************************)
EXTENDS Integers, Sequences, SequencesExt

CONSTANTS
  Values,       \* how many values a byte has
  Bodies,       \* the bodies that are sent: sequences of bytes
  Ids,          \* what the other header fields may hold
  MaxBody,      \* max_body_length
  Runs,         \* what the other direction copies over the stream
  MaxPackets,   \* bound: packets sent
  MaxDamage     \* bound: runs copied over the stream

Bytes == 0 .. Values - 1
Flag == Values - 1   \* packet_begin_flag
HeaderLength == 4

\* What is assumed of the constants: the length of a body fits its field.
ConstantsOK ==
  /\ Values \in Nat \ {0}
  /\ Bodies \subseteq Seq(Bytes) /\ \A b \in Bodies : Len(b) \in Bytes
  /\ Ids \subseteq Bytes
  /\ Runs \subseteq Seq(Bytes)
  /\ {MaxBody, MaxPackets, MaxDamage} \subseteq Nat

VARIABLES
  stream,   \* committed and not yet consumed
  sent,     \* the packets encoded into it
  got,      \* the packets decoded from it
  damage,   \* runs copied over it so far
  spoilt    \* the bytes they hit, counted from the first one ever sent

vars == <<stream, sent, got, damage, spoilt>>

Packets == [id : Ids, body : Bodies]

\* calc_crc8 over the header
Crc8(h) == (h[1] + 2 * h[2] + 3 * h[3]) % Values

Encode(p) ==
  LET header == <<Flag, p.id, Len(p.body)>>
  IN header \o <<Crc8(header)>> \o p.body

\* The packets one behind the other.
EncodeAll(ps) ==
  LET First[n \in 0 .. Len(ps)] ==
        IF n = 0 THEN <<>> ELSE First[n - 1] \o Encode(ps[n])
  IN First[Len(ps)]

\* How many bytes the first n of the packets ps are, for each n.
Ends(ps) ==
  LET End[n \in 0 .. Len(ps)] ==
        IF n = 0 THEN 0 ELSE End[n - 1] + Len(Encode(ps[n]))
  IN End

Nothing(o) == [found |-> FALSE, consumed |-> o]

\* Faulty: any length that the header states is believed.
TrustLength(buf) == FALSE

\* body_len > max_body_length
TooLong(buf) == buf[3] > MaxBody

PacketLength(buf) == HeaderLength + buf[3]

\* decode_packet: from each flag on, a header with the right checksum and an
\* acceptable length is a packet, once all of its body is there.
Decode(s) ==
  LET Scan[o \in 0 .. Len(s)] ==
        LET buf == SubSeq(s, o + 1, Len(s))
        IN IF buf # <<>> /\ buf[1] # Flag THEN Scan[o + 1]
           ELSE IF Len(buf) < HeaderLength THEN Nothing(o)
           ELSE IF buf[4] # Crc8(SubSeq(buf, 1, 3)) THEN Scan[o + 1]
           ELSE IF TooLong(buf) THEN Scan[o + HeaderLength]
           ELSE IF Len(buf) < PacketLength(buf) THEN Nothing(o)
           ELSE [found |-> TRUE, consumed |-> o + PacketLength(buf),
                 id |-> buf[2],
                 body |-> SubSeq(buf, HeaderLength + 1, PacketLength(buf))]
  IN Scan[0]

-----------------------------------------------------------------------------
TypeOK ==
  /\ stream \in Seq(Bytes)
  /\ sent \in Seq(Packets)
  /\ got \in Seq([id : Bytes, body : Seq(Bytes)])
  /\ damage \in 0 .. MaxDamage
  /\ spoilt \subseteq Nat

Init ==
  /\ stream = <<>>
  /\ sent = <<>>
  /\ got = <<>>
  /\ damage = 0
  /\ spoilt = {}

\* How many bytes were consumed since the first one.
Consumed == Ends(sent)[Len(sent)] - Len(stream)

\* The writer copies the encoded packet whole; no length is refused.
Send(p) ==
  /\ Len(sent) < MaxPackets
  /\ stream' = stream \o Encode(p)
  /\ sent' = Append(sent, p)
  /\ UNCHANGED <<got, damage, spoilt>>

\* One iteration of process_packet: what was looked at is consumed in every
\* case.  The reader sleeps on an empty ring only: as long as a part of a
\* packet is left it looks at it again and again.
Receive ==
  /\ stream # <<>>
  /\ LET d == Decode(stream)
     IN /\ stream' = SubSeq(stream, d.consumed + 1, Len(stream))
        /\ got' = IF d.found THEN Append(got, [id |-> d.id, body |-> d.body])
                  ELSE got
  /\ UNCHANGED <<sent, damage, spoilt>>

\* The other ring's writer copies over unread bytes (DuplexMemory).
Damage(i, run) ==
  LET hit == i .. i + Len(run) - 1
  IN /\ damage < MaxDamage
     /\ hit # {} /\ hit \subseteq DOMAIN stream
     /\ stream' = [j \in DOMAIN stream |->
                     IF j \in hit THEN run[j - i + 1] ELSE stream[j]]
     /\ damage' = damage + 1
     /\ spoilt' = spoilt \cup {Consumed + j : j \in hit}
     /\ UNCHANGED <<sent, got>>

Next ==
  \/ \E p \in Packets : Send(p)
  \/ Receive
  \/ \E i \in DOMAIN stream, run \in Runs : Damage(i, run)

Spec == Init /\ [][Next]_vars

-----------------------------------------------------------------------------
Oversize(p) == Len(p.body) > MaxBody

\* Those of the packets ps that are not oversized, in order.
Acceptable(ps) ==
  LET First[n \in 0 .. Len(ps)] ==
        IF n = 0 THEN <<>>
        ELSE IF Oversize(ps[n]) THEN First[n - 1]
        ELSE Append(First[n - 1], ps[n])
  IN First[Len(ps)]

\* Nothing in the encoded packet but its start looks like one.
Plain(p) == \A i \in 2 .. Len(Encode(p)) : Encode(p)[i] # Flag

\* The first k packets end before the first byte that was overwritten.
Ahead(k) == \A x \in spoilt : Ends(sent)[k] < x

\* The packets from l + 1 on start where no packet reaches that starts at an
\* overwritten byte or before.
Behind(l) == \A x \in spoilt : x + HeaderLength - 1 + MaxBody <= Ends(sent)[l]

\* While no body exceeds max_body_length and nothing is overwritten, what
\* was received and what is in the stream is what was sent, in order, even
\* if bodies imitate headers: decoding never starts inside a body.
ReceivedAsSent ==
  (damage = 0 /\ \A i \in DOMAIN sent : ~Oversize(sent[i]))
    => /\ IsPrefix(got, sent)
       /\ stream = EncodeAll(SubSeq(sent, Len(got) + 1, Len(sent)))

\* Whatever is in the stream, garbage included: when the reader finds no
\* packet it leaves fewer bytes than the largest packet has.  Each byte is
\* delivered or skipped in the end, and the writer gets its room back.
LeavesLessThanPacket ==
  LET d == Decode(stream)
  IN ~d.found => Len(stream) - d.consumed < HeaderLength + MaxBody

\* An oversized packet is lost alone and the next one is received, when the
\* packets hold the flag's value only in their first byte (a flag inside
\* starts a false header, which the checksum lets through once in 256).
LosesOversizeOnly ==
  LET d == Decode(stream)
  IN (damage = 0 /\ ~d.found /\ \A i \in DOMAIN sent : Plain(sent[i]))
       => /\ got = Acceptable(sent)
          /\ d.consumed = Len(stream)

\* Whatever is copied over such packets, be it a flag and a good header: the
\* packets before it are received, and so are those behind it, as soon as
\* they start where a false packet can no longer reach; both in order.
DamageIsLocal ==
  (~Decode(stream).found /\ \A i \in DOMAIN sent : Plain(sent[i]))
    => \A k, l \in 0 .. Len(sent) :
         (k <= l /\ Ahead(k) /\ Behind(l))
           => LET before == Acceptable(SubSeq(sent, 1, k))
                  after == Acceptable(SubSeq(sent, l + 1, Len(sent)))
              IN /\ IsPrefix(before, got) /\ IsSuffix(after, got)
                 /\ Len(before) + Len(after) <= Len(got)

\* Packets are found, whatever their bodies hold; what is not found is what
\* was oversized or lies where something was copied over the stream, and the
\* stream goes on behind it.
PacketsAreFound ==
  /\ TypeOK
  /\ ReceivedAsSent
  /\ LeavesLessThanPacket
  /\ LosesOversizeOnly
  /\ DamageIsLocal

=============================================================================
