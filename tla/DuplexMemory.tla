---------------------------- MODULE DuplexMemory ----------------------------
(***************************************************************************)
(* The bytes behind the control block (connection.hpp): one mapping with   *)
(* the client's ring c_buf, the server's ring s_buf and what is left of    *)
(* the last page, in this order.  The linear ring buffers copy and read a  *)
(* packet straight on past the end of the ring.  Each direction has a lock *)
(* of its own, so a copy in one direction falls between any two steps of   *)
(* the other.  How a writer waits for room is in Channel, what a reader    *)
(* makes of overwritten bytes in Framing.                                  *)
(***************************************************************************)
EXTENDS RingBuffer, Sequences

CONSTANTS
  Sender,     \* Sender[p]: which side writes packet p, "client" or "server"
  Slack       \* cells of the mapping behind s_buf

Sides == {"client", "server"}

\* What is assumed of the constants; RingBuffer's part, for an instance.
ConstantsOK ==
  /\ Capacity \in Nat \ {0}
  /\ Size \in [Packets -> Nat \ {0}]
  /\ Sender \in [Packets -> Sides]
  /\ Slack \in Nat
  /\ \A p \in Packets : Size[p] <= Capacity

VARIABLES
  mem,       \* the cells of the mapping
  ring,      \* c_buf and s_buf, by the side that writes
  unread,    \* the packets in each ring
  place,     \* the offset in its ring each packet was copied to; -1 before
  arrived,   \* packets whose bytes were as copied when they were read
  spoilt,    \* packets of which some byte was not
  outside    \* packets of which bytes were copied past the mapping

vars == <<mem, ring, unread, place, arrived, spoilt, outside>>

\* cal_mem_size, without the control block at the front.
Mapped == 0 .. 2 * Capacity + Slack - 1

\* Faulty: both sides write behind the control block.
SameStart(d) == 0

\* w_buf and r_buf
Start(d) == IF d = "client" THEN 0 ELSE Capacity

TypeOK ==
  /\ mem \in [Mapped -> (Packets \X Nat) \cup {None}]
  /\ ring \in [Sides -> Ring]
  /\ unread \in [Sides -> Seq(Packets)]
  /\ place \in [Packets -> Offsets \cup {-1}]
  /\ arrived \subseteq Packets /\ spoilt \subseteq Packets
  /\ outside \subseteq Packets

Init ==
  /\ mem = [c \in Mapped |-> None]
  /\ ring = [d \in Sides |-> EmptyRing]
  /\ unread = [d \in Sides |-> <<>>]
  /\ place = [p \in Packets |-> -1]
  /\ arrived = {} /\ spoilt = {} /\ outside = {}

-----------------------------------------------------------------------------
\* write_proc, under the lock of its direction, when there is room:
\* memcpy to write_head, then commit.
Write(p) ==
  LET d == Sender[p]
      o == Start(d) + ring[d].tail
  IN /\ place[p] = -1
     /\ Size[p] <= FreeSize(ring[d])
     /\ mem' = CopyTo(mem, o, p)
     /\ outside' = IF o + Size[p] - 1 \in DOMAIN mem THEN outside
                   ELSE outside \cup {p}
     /\ place' = [place EXCEPT ![p] = ring[d].tail]
     /\ ring' = [ring EXCEPT ![d] = Commit(@, Size[p])]
     /\ unread' = [unread EXCEPT ![d] = Append(@, p)]
     /\ UNCHANGED <<arrived, spoilt>>

\* process_packet, under the same lock: one packet from read_head on.
Read(d) ==
  /\ unread[d] # <<>>
  /\ LET p == Head(unread[d])
     IN /\ IF IntactAt(mem, Start(d) + ring[d].head, p)
             THEN arrived' = arrived \cup {p} /\ UNCHANGED spoilt
             ELSE spoilt' = spoilt \cup {p} /\ UNCHANGED arrived
        /\ ring' = [ring EXCEPT ![d] = Consume(@, Size[p])]
        /\ unread' = [unread EXCEPT ![d] = Tail(@)]
  /\ UNCHANGED <<mem, place, outside>>

Next == (\E p \in Packets : Write(p)) \/ (\E d \in Sides : Read(d))

Spec == Init /\ [][Next]_vars

-----------------------------------------------------------------------------
\* Where the rings meet: the first bytes of s_buf, as far as a packet of the
\* client reaches that crosses the end of c_buf.
Seam == UNION {Capacity .. Capacity + Size[p] - 2 :
                 p \in {q \in Packets : Sender[q] = "client"}}

Crosses(p) == place[p] + Size[p] > Capacity

\* The two directions meet only behind the end of c_buf: a packet arrives
\* spoilt only if it crossed that end itself, or was copied to the first
\* bytes of s_buf, after or before a client's packet that crossed it; or it
\* was itself not all mapped.
SpoiltAtTheSeam ==
  \A p \in spoilt \ outside :
    /\ \/ Sender[p] = "client" /\ Crosses(p)
       \/ Sender[p] = "server" /\ Start("server") + place[p] \in Seam
    /\ \E q \in Packets :
         /\ Sender[q] # Sender[p]
         /\ place[q] # -1
         /\ LET c == IF Sender[p] = "client" THEN p ELSE q
                s == IF Sender[p] = "client" THEN q ELSE p
            IN Crosses(c) /\ place[s] < place[c] + Size[c] - Capacity

\* Only the server can touch memory behind the mapping, with a packet that
\* reaches further past the end of s_buf than the last page does; and then
\* that packet is lost.
OnlyServerLeavesMapping ==
  /\ \A p \in outside : /\ Sender[p] = "server"
                        /\ Crosses(p)
  /\ outside \cap arrived = {}

\* A packet that lies inside its ring is never overwritten from its own
\* direction: everything the reader has not yet read, outside the bytes the
\* two rings share, is as it was copied.
UnreadIsIntact ==
  \A d \in Sides : \A i \in DOMAIN unread[d] :
    LET p == unread[d][i]
    IN \A k \in 0 .. Size[p] - 1 :
         LET c == Start(d) + place[p] + k
         IN c \in Mapped \ Seam => mem[c] = <<p, k>>

\* The two directions leave each other's bytes alone, but at the seam.
DirectionsStayApart ==
  /\ TypeOK
  /\ SpoiltAtTheSeam
  /\ OnlyServerLeavesMapping
  /\ UnreadIsIntact

=============================================================================
