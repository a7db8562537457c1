----------------------------- MODULE RingBuffer -----------------------------
(***************************************************************************)
(* linear_ringbuffer_t (ringbuffer.hpp) together with the memory it        *)
(* indexes.  The class keeps three counters; the bytes are elsewhere, in   *)
(* the mapping behind the control block, and are reached linearly from     *)
(* read_head() and write_head().  One cell below stands for a block of     *)
(* bytes, a packet occupies Size[p] consecutive cells, and a cell records  *)
(* which part of which packet was last copied to it.                       *)
(***************************************************************************)
EXTENDS Integers

CONSTANTS
  Capacity,   \* rw_buf_len, in cells
  Packets,    \* the packets that may be sent; each stands for one send_packet
  Size,       \* Size[p]: header_length + body of p, in cells
  None        \* a cell nothing was copied to, and "no packet"

ASSUME CapacityAssumption == Capacity \in Nat \ {0}
ASSUME SizeAssumption == Size \in [Packets -> Nat \ {0}]
ASSUME NoneAssumption == None \notin Packets

Offsets == 0 .. Capacity - 1

\* The counters capacity_ is constant; size_ is bounded by the assertions.
Ring == [head : Offsets, tail : Offsets, size : 0 .. Capacity]

EmptyRing == [head |-> 0, tail |-> 0, size |-> 0]

FreeSize(r) == Capacity - r.size

\* assert(n <= (capacity_ - size_)) and assert(n <= size_)
CommitFits(r, n) == n <= Capacity - r.size
ConsumeFits(r, n) == n <= r.size

\* Faulty: the write offset is never brought back to the start.
CommitUnwrapped(r, n) ==
  [head |-> r.head, tail |-> r.tail + n, size |-> r.size + n]

Commit(r, n) ==
  [head |-> r.head, tail |-> (r.tail + n) % Capacity, size |-> r.size + n]

Consume(r, n) ==
  [head |-> (r.head + n) % Capacity, tail |-> r.tail, size |-> r.size - n]

\* memcpy(write_head, data, size): linear from the offset, no wrap-around.
CopyTo(mem, o, p) ==
  [c \in DOMAIN mem |->
     IF c \in o .. o + Size[p] - 1 THEN <<p, c - o>> ELSE mem[c]]

\* The bytes from offset o on are those of packet p.
IntactAt(mem, o, p) ==
  \A i \in 0 .. Size[p] - 1 : o + i \in DOMAIN mem /\ mem[o + i] = <<p, i>>

\* The bytes from offset o on begin with the header of p, flag and checksum;
\* what follows it is not checked.
HeaderAt(mem, o, p) == o \in DOMAIN mem /\ mem[o] = <<p, 0>>

=============================================================================
