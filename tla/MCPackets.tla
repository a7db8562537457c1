------------------------------ MODULE MCPackets ------------------------------
(***************************************************************************)
(* What a packet is made of and goes through outside the connection's      *)
(* threads: the buffers of its bytes (Buffers, whose names are used as     *)
(* they are), its number and its place among the requests that wait        *)
(* (PacketId), its way through encode_packet and decode_packet (Framing),  *)
(* and the memory that both rings share (DuplexMemory).  A behaviour is    *)
(* one of one of them, chosen by part; the others rest.                    *)
(***************************************************************************)
EXTENDS Buffers

CONSTANTS
  Threads, Cmds, Half, MaxCalls,        \* of PacketId
  Values, Bodies, Ids, MaxBody, Runs, MaxPackets, MaxDamage,  \* of Framing
  Capacity, Sender, Size, Slack         \* of DuplexMemory

VARIABLES
  part,
  i_gen, i_pc, i_cmd, i_issued, i_pending, i_answers, i_met, i_crowded,
  f_stream, f_sent, f_got, f_damage, f_spoilt,
  d_mem, d_ring, d_unread, d_place, d_arrived, d_spoilt, d_outside

Naming == INSTANCE PacketId WITH
  gen <- i_gen, pc <- i_pc, cmd <- i_cmd, issued <- i_issued,
  pending <- i_pending, answers <- i_answers, met <- i_met,
  crowded <- i_crowded

\* Empty, plain and full; one that looks like the start of a header; one
\* over the limit, and one over the limit that holds a whole empty packet:
\* flag (4), id, length and checksum.
MCBodies == {<<>>, <<0, 1>>, <<4, 0>>, <<1, 0, 2>>, <<4, 0, 0, 4>>}

Coding == INSTANCE Framing WITH
  stream <- f_stream, sent <- f_sent, got <- f_got, damage <- f_damage,
  spoilt <- f_spoilt

\* The other direction's packet with id 1 and body <<0, 1>> over the unread
\* bytes of this one: its front, from the flag alone to the whole packet, and
\* the end of one whose front lies before them.
MCRuns ==
  {<<4>>, <<4, 1>>, <<4, 1, 2>>, <<4, 1, 2, 2>>, <<4, 1, 2, 2, 0>>,
   <<4, 1, 2, 2, 0, 1>>,
   <<1>>, <<0, 1>>, <<2, 0, 1>>, <<2, 2, 0, 1>>, <<1, 2, 2, 0, 1>>}

\* Sizes 2 and 3 in rings of four cells: packets start at every offset, and
\* a packet of three cells reaches up to two cells past the end.
MCSender ==
  [p \in {"c1", "c2", "c3", "c4", "s1", "s2", "s3", "s4"} |->
     IF p \in {"c1", "c2", "c3", "c4"} THEN "client" ELSE "server"]
MCSize == [p \in DOMAIN MCSender |-> IF p \in {"c1", "s1"} THEN 2 ELSE 3]

Memory == INSTANCE DuplexMemory WITH
  Packets <- DOMAIN Sender, None <- Null,
  mem <- d_mem, ring <- d_ring, unread <- d_unread, place <- d_place,
  arrived <- d_arrived, spoilt <- d_spoilt, outside <- d_outside

ASSUME NamingAssumption == Naming!ConstantsOK
ASSUME CodingAssumption == Coding!ConstantsOK
ASSUME MemoryAssumption == Memory!ConstantsOK

namingVars ==
  <<i_gen, i_pc, i_cmd, i_issued, i_pending, i_answers, i_met, i_crowded>>
codingVars == <<f_stream, f_sent, f_got, f_damage, f_spoilt>>
memoryVars ==
  <<d_mem, d_ring, d_unread, d_place, d_arrived, d_spoilt, d_outside>>
allVars == <<part, vars, namingVars, codingVars, memoryVars>>

PacketsInit ==
  /\ part \in {"buffers", "naming", "coding", "memory"}
  /\ Init /\ Naming!Init /\ Coding!Init /\ Memory!Init
  /\ part = "naming" \/ i_cmd = [t \in Threads |-> CHOOSE c \in Cmds : TRUE]

PacketsNext ==
  \/ part = "buffers" /\ Next
       /\ UNCHANGED <<part, namingVars, codingVars, memoryVars>>
  \/ part = "naming" /\ Naming!Next
       /\ UNCHANGED <<part, vars, codingVars, memoryVars>>
  \/ part = "coding" /\ Coding!Next
       /\ UNCHANGED <<part, vars, namingVars, memoryVars>>
  \/ part = "memory" /\ Memory!Next
       /\ UNCHANGED <<part, vars, namingVars, codingVars>>

PacketsSpec == PacketsInit /\ [][PacketsNext]_allVars

-----------------------------------------------------------------------------
(* Properties of PacketId, Framing and DuplexMemory                        *)

\* packet.hpp: requests less than half the numbers apart are never taken for
\* each other, and none gets number 0, but for two at the wrap together.
RequestsAreToldApart == Naming!RequestsAreToldApart

\* packet.hpp: what is encoded is decoded, in order, whatever bodies hold; an
\* oversized packet is lost alone, and what is copied over the stream costs
\* only the packets in reach of it.
PacketsAreFound == Coding!PacketsAreFound

\* connection.hpp: the directions disturb each other only at the end of
\* c_buf, and only the server's packets reach past the mapping.
DirectionsStayApart == Memory!DirectionsStayApart

=============================================================================
