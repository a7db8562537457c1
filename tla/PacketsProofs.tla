---------------------------- MODULE PacketsProofs ----------------------------
(***************************************************************************)
(* The bytes of a packet.  First ibuffer, which owns its block: proofs for *)
(* any number of objects and blocks and any contents; the invariant is the *)
(* conjunction of the three that TLC checks and is inductive as it stands. *)
(* Then the mapping that both rings share: for any packets, sizes and      *)
(* ring capacity, from an invariant that says where in its ring each       *)
(* unread packet lies, and which cells the other direction may have hit.   *)
(* Then the numbers of requests: for any threads, commands and range of    *)
(* numbers, from an invariant that counts the laps of the generator.       *)
(* Last encoding and decoding: for any bodies, ids and runs that spoil the *)
(* stream, from an invariant that says where in the stream each packet     *)
(* lies, how far the reader is and what it has received up to there.       *)
(***************************************************************************)
EXTENDS
  MCPackets, Integers, Sequences, FiniteSetTheorems, SequenceTheorems, TLAPS

Inv == TypeOK /\ OneOwner /\ NothingLeaks

\* There is no block yet.
LEMMA InitInv == Init => Inv
  BY NullAssumption
  DEF Init, Inv, TypeOK, LengthHasBlock, OneOwner, NothingLeaks

\* A constructor that takes a block takes a free one.
LEMMA ConstructInv ==
  ASSUME Inv, NEW b \in Bufs, NEW d \in Data \cup {Junk}, Construct(b, d)
  PROVE  Inv'
  <1>1. PICK k \in Free : /\ used' = used \cup {k}
                          /\ content' = [content EXCEPT ![k] = d]
                          /\ buf' = [buf EXCEPT ![b] = k]
    BY DEF Construct
  <1>2. k \in Blocks /\ k \notin used /\ k # Null
    BY <1>1, NullAssumption DEF Free
  <1>3. /\ full' = [full EXCEPT ![b] = TRUE]
        /\ live' = live \cup {b} /\ b \notin live /\ thrown' = Null
    BY DEF Construct
  <1>4. TypeOK'
    BY <1>1, <1>2, <1>3 DEF Inv, TypeOK, LengthHasBlock
  <1>5. OneOwner'
    BY <1>1, <1>2, <1>3 DEF Inv, TypeOK, OneOwner
  <1>6. NothingLeaks'
    BY <1>1, <1>2, <1>3 DEF Inv, TypeOK, NothingLeaks
  <1> QED  BY <1>4, <1>5, <1>6 DEF Inv

\* A copy has a block of its own, or none when there is nothing to copy.
LEMMA CopyInv ==
  ASSUME Inv, NEW b \in Bufs, NEW other \in Bufs, Copy(b, other)
  PROVE  Inv'
  <1>1. /\ b \notin live /\ other \in live /\ live' = live \cup {b}
        /\ full' = [full EXCEPT ![b] = full[other]] /\ thrown' = Null
    BY DEF Copy
  <1>2. CASE full[other]
    <2>1. PICK k \in Free :
            /\ used' = used \cup {k}
            /\ content' = [content EXCEPT ![k] = content[buf[other]]]
            /\ buf' = [buf EXCEPT ![b] = k]
      BY <1>2 DEF Copy
    <2>2. k \in Blocks /\ k \notin used /\ k # Null
      BY <2>1, NullAssumption DEF Free
    <2>3. buf[other] \in Blocks
      BY <1>2 DEF Inv, TypeOK, LengthHasBlock
    <2>4. TypeOK'
      BY <1>1, <1>2, <2>1, <2>2, <2>3 DEF Inv, TypeOK, LengthHasBlock
    <2>5. OneOwner'
      BY <1>1, <2>1, <2>2 DEF Inv, TypeOK, OneOwner
    <2>6. NothingLeaks'
      BY <1>1, <2>1, <2>2 DEF Inv, TypeOK, NothingLeaks
    <2> QED  BY <2>4, <2>5, <2>6 DEF Inv
  <1>3. CASE ~full[other]
    <2>1. buf' = [buf EXCEPT ![b] = Null] /\ UNCHANGED <<used, content>>
      BY <1>3 DEF Copy
    <2> QED
      BY <1>1, <1>3, <2>1
      DEF Inv, TypeOK, LengthHasBlock, OneOwner, NothingLeaks
  <1> QED  BY <1>2, <1>3

\* Moving hands the block over: the source is left without one.
LEMMA MoveInv ==
  ASSUME Inv, NEW b \in Bufs, NEW other \in Bufs, Move(b, other)
  PROVE  Inv'
  <1>1. /\ b \notin live /\ other \in live /\ b # other
        /\ live' = live \cup {b}
        /\ buf' = [buf EXCEPT ![b] = buf[other], ![other] = Null]
        /\ full' = [full EXCEPT ![b] = full[other], ![other] = FALSE]
        /\ thrown' = Null /\ UNCHANGED <<used, content>>
    BY DEF Move
  <1>2. TypeOK'
    BY <1>1 DEF Inv, TypeOK, LengthHasBlock
  <1>3. OneOwner'
    BY <1>1 DEF Inv, TypeOK, OneOwner
  <1>4. NothingLeaks'
    <2> SUFFICES ASSUME NEW k \in used PROVE \E c \in live' : buf'[c] = k
      BY <1>1 DEF NothingLeaks
    <2>1. PICK c \in live : buf[c] = k
      BY DEF Inv, NothingLeaks
    <2>2. CASE c = other
      BY <1>1, <2>1, <2>2 DEF Inv, TypeOK
    <2>3. CASE c # other
      BY <1>1, <2>1, <2>3 DEF Inv, TypeOK
    <2> QED  BY <2>2, <2>3
  <1> QED  BY <1>2, <1>3, <1>4 DEF Inv

\* The old block of b is given back, which nobody else owns, and b gets
\* nothing: what the destructor and a copy assignment that throws do.
LEMMA GiveBack ==
  ASSUME Inv, NEW b \in live, used' = used \ {buf[b]},
         buf' = [buf EXCEPT ![b] = Null], live' \in {live, live \ {b}}
  PROVE  OneOwner' /\ NothingLeaks'
  <1>1. b \in Bufs /\ live \subseteq Bufs /\ live' \subseteq live
    BY DEF Inv, TypeOK
  <1>2. \A c \in Bufs \ {b} : buf'[c] = buf[c]
    BY <1>1 DEF Inv, TypeOK
  <1>3. buf'[b] = Null
    BY <1>1 DEF Inv, TypeOK
  <1>4. OneOwner'
    BY <1>1, <1>2, <1>3 DEF Inv, OneOwner
  <1>5. NothingLeaks'
    <2> SUFFICES ASSUME NEW k \in used, k # buf[b]
                 PROVE  \E c \in live' : buf'[c] = k
      BY DEF NothingLeaks
    <2>1. PICK c \in live : buf[c] = k
      BY DEF Inv, NothingLeaks
    <2> QED  BY <1>1, <1>2, <2>1
  <1> QED  BY <1>4, <1>5

\* Copy assignment: nothing when an object is assigned to itself; otherwise
\* the new block is free once the old one has been given back.
LEMMA CopyAssignInv ==
  ASSUME Inv, NEW b \in Bufs, NEW other \in Bufs, CopyAssign(b, other)
  PROVE  Inv'
  <1>1. {b, other} \subseteq live /\ live' = live /\ thrown' = Null
    BY DEF CopyAssign
  <1>2. CASE b = other
    BY <1>1, <1>2 DEF CopyAssign, Inv, TypeOK, LengthHasBlock, OneOwner,
      NothingLeaks
  <1>3. CASE b # other /\ full[other]
    <2>1. PICK k \in Free \cup ({buf[b]} \ {Null}) :
            /\ used' = (used \ {buf[b]}) \cup {k}
            /\ content' = [content EXCEPT ![k] = content[buf[other]]]
            /\ buf' = [buf EXCEPT ![b] = k]
      BY <1>3 DEF CopyAssign
    <2>2. full' = [full EXCEPT ![b] = full[other]]
      BY <1>3 DEF CopyAssign
    <2>3. k \in Blocks /\ k # Null
      BY <2>1, NullAssumption DEF Free, Inv, TypeOK
    <2>4. \A c \in live : c # b => buf[c] # k
      BY <1>1, <2>1, <2>3 DEF Free, Inv, OneOwner
    <2>5. buf[other] \in Blocks
      BY <1>3 DEF Inv, TypeOK, LengthHasBlock
    <2>6. TypeOK'
      BY <1>1, <1>3, <2>1, <2>2, <2>3, <2>5 DEF Inv, TypeOK, LengthHasBlock
    <2>7. OneOwner'
      <3>1. \A c \in live : c # b => buf'[c] = buf[c]
        BY <2>1 DEF Inv, TypeOK
      <3>2. buf'[b] = k
        BY <2>1 DEF Inv, TypeOK
      <3>3. \A c \in live : c # b /\ buf[c] # Null => buf[c] \in used'
        BY <1>1, <2>1 DEF Inv, OneOwner
      <3> QED
        BY <1>1, <2>1, <2>4, <3>1, <3>2, <3>3 DEF Inv, OneOwner
    <2>8. NothingLeaks'
      BY <1>1, <2>1 DEF Inv, TypeOK, NothingLeaks
    <2> QED  BY <2>6, <2>7, <2>8 DEF Inv
  <1>4. CASE b # other /\ ~full[other]
    <2>1. /\ used' = used \ {buf[b]}
          /\ buf' = [buf EXCEPT ![b] = Null] /\ UNCHANGED content
          /\ full' = [full EXCEPT ![b] = full[other]]
      BY <1>4 DEF CopyAssign
    <2>2. TypeOK'
      BY <1>1, <1>4, <2>1 DEF Inv, TypeOK, LengthHasBlock
    <2> QED  BY <1>1, <2>1, <2>2, GiveBack DEF Inv
  <1> QED  BY <1>2, <1>3, <1>4

\* Move assignment: b's old block is given back, and the other's handed over.
LEMMA MoveAssignInv ==
  ASSUME Inv, NEW b \in Bufs, NEW other \in Bufs, MoveAssign(b, other)
  PROVE  Inv'
  <1>1. {b, other} \subseteq live /\ live' = live /\ thrown' = Null
        /\ UNCHANGED content
    BY DEF MoveAssign
  <1>2. CASE b = other
    BY <1>1, <1>2 DEF MoveAssign, Inv, TypeOK, LengthHasBlock, OneOwner,
      NothingLeaks
  <1>3. CASE b # other
    <2>1. /\ used' = used \ {buf[b]}
          /\ buf' = [buf EXCEPT ![b] = buf[other], ![other] = Null]
          /\ full' = [full EXCEPT ![b] = full[other], ![other] = FALSE]
      BY <1>3 DEF MoveAssign
    <2>2. TypeOK'
      BY <1>1, <1>3, <2>1 DEF Inv, TypeOK, LengthHasBlock
    <2>3. /\ buf'[b] = buf[other] /\ buf'[other] = Null
          /\ \A c \in live : c \notin {b, other} => buf'[c] = buf[c]
      BY <1>1, <1>3, <2>1 DEF Inv, TypeOK
    <2>4. OneOwner'
      <3>1. \A c \in live : c # b /\ buf[c] # Null => buf[c] \in used'
        BY <1>1, <2>1 DEF Inv, OneOwner
      <3> QED  BY <1>1, <1>3, <2>3, <3>1 DEF Inv, OneOwner
    <2>5. NothingLeaks'
      <3> SUFFICES ASSUME NEW k \in used, k # buf[b]
                   PROVE  \E c \in live : buf'[c] = k
        BY <1>1, <2>1 DEF NothingLeaks
      <3>1. PICK c \in live : buf[c] = k
        BY DEF Inv, NothingLeaks
      <3> QED  BY <1>1, <2>3, <3>1
    <2> QED  BY <2>2, <2>4, <2>5 DEF Inv
  <1> QED  BY <1>2, <1>3

\* Every operation keeps the invariant.
LEMMA NextInv == Inv /\ [Next]_vars => Inv'
  <1> SUFFICES ASSUME Inv, [Next]_vars PROVE Inv'
    OBVIOUS
  <1>1. ASSUME NEW b \in Bufs, NEW d \in Data \cup {Junk}, Construct(b, d)
        PROVE  Inv'
    BY <1>1, ConstructInv
  <1>2. ASSUME NEW b \in Bufs, NEW d \in Data \cup {Junk}, Write(b, d)
        PROVE  Inv'
    <2>1. buf[b] \in Blocks
      BY <1>2 DEF Write, Inv, TypeOK, LengthHasBlock
    <2>2. TypeOK'
      BY <1>2, <2>1 DEF Write, Inv, TypeOK, LengthHasBlock
    <2> QED
      BY <1>2, <2>2 DEF Write, Inv, OneOwner, NothingLeaks
  <1>3. ASSUME NEW b \in Bufs, ConstructEmpty(b) PROVE Inv'
    BY <1>3 DEF ConstructEmpty, Inv, TypeOK, LengthHasBlock, OneOwner,
      NothingLeaks
  <1>4. ASSUME NEW b \in Bufs, ConstructThrows(b) PROVE Inv'
    BY <1>4 DEF ConstructThrows, Inv, TypeOK, LengthHasBlock, OneOwner,
      NothingLeaks
  <1>5. ASSUME NEW b \in Bufs, Destruct(b) PROVE Inv'
    <2>1. TypeOK'
      BY <1>5 DEF Destruct, Inv, TypeOK, LengthHasBlock
    <2> QED  BY <1>5, <2>1, GiveBack DEF Destruct, Inv
  <1>6. ASSUME NEW b \in Bufs, NEW other \in Bufs, Copy(b, other) PROVE Inv'
    BY <1>6, CopyInv
  <1>7. ASSUME NEW b \in Bufs, NEW other \in Bufs, Move(b, other) PROVE Inv'
    BY <1>7, MoveInv
  <1>8. ASSUME NEW b \in Bufs, NEW other \in Bufs, CopyAssign(b, other)
        PROVE  Inv'
    BY <1>8, CopyAssignInv
  <1>9. ASSUME NEW b \in Bufs, NEW other \in Bufs, CopyAssignThrows(b, other)
        PROVE  Inv'
    <2>1. TypeOK'
      BY <1>9 DEF CopyAssignThrows, Inv, TypeOK, LengthHasBlock
    <2> QED  BY <1>9, <2>1, GiveBack DEF CopyAssignThrows, Inv
  <1>10. ASSUME NEW b \in Bufs, NEW other \in Bufs, MoveAssign(b, other)
         PROVE  Inv'
    BY <1>10, MoveAssignInv
  <1>11. CASE UNCHANGED vars
    BY <1>11 DEF vars, Inv, TypeOK, LengthHasBlock, OneOwner, NothingLeaks
  <1> QED
    BY <1>1, <1>2, <1>3, <1>4, <1>5, <1>6, <1>7, <1>8, <1>9, <1>10, <1>11
    DEF Next

\* The three hold throughout.
LEMMA AlwaysInv == Spec => []Inv
  BY InitInv, NextInv, PTL DEF Spec

\* The types, and that a length never goes without a block: whoever tests
\* size() before he copies reads no null pointer.
THEOREM BuffersTypes == Spec => []TypeOK
  <1>1. Inv => TypeOK
    BY DEF Inv
  <1> QED  BY AlwaysInv, <1>1, PTL

-----------------------------------------------------------------------------
\* What an object is read as changes only with its block or its content.
LEMMA SameBlock ==
  ASSUME NEW b \in Bufs, buf'[b] = buf[b],
         buf[b] # Null => content'[buf[b]] = content[buf[b]]
  PROVE  ValueOf(b)' = ValueOf(b)
  BY DEF ValueOf

\* An operation changes the bytes of its own object, and of one that it moves
\* from; every other living object keeps its own.
LEMMA StepKeepsBytes ==
  ASSUME Inv, Next, NEW b \in live \cap live', ~ChangesIts(b)
  PROVE  ValueOf(b)' = ValueOf(b)
  <1>b. b \in Bufs /\ b \in live
    BY DEF Inv, TypeOK
  <1>own. \A c \in live : buf[c] # Null /\ buf[c] = buf[b] => c = b
    BY <1>b DEF Inv, OneOwner
  <1>used. buf[b] # Null => buf[b] \in used
    BY <1>b DEF Inv, OneOwner
  <1>1. ASSUME NEW a \in Bufs, NEW d \in Data \cup {Junk}, Construct(a, d)
        PROVE  ValueOf(b)' = ValueOf(b)
    BY <1>1, <1>b, <1>used, SameBlock DEF Construct, Free, Inv, TypeOK
  <1>2. ASSUME NEW a \in Bufs, NEW d \in Data \cup {Junk}, Write(a, d)
        PROVE  ValueOf(b)' = ValueOf(b)
    <2>1. a # b
      BY <1>2 DEF ChangesIts
    <2> QED
      BY <1>2, <1>b, <1>own, <2>1, SameBlock DEF Write, Inv, TypeOK,
        LengthHasBlock
  <1>3. ASSUME NEW a \in Bufs, ConstructEmpty(a) PROVE ValueOf(b)' = ValueOf(b)
    BY <1>3, <1>b, SameBlock DEF ConstructEmpty, Inv, TypeOK
  <1>4. ASSUME NEW a \in Bufs, ConstructThrows(a)
        PROVE  ValueOf(b)' = ValueOf(b)
    BY <1>4, <1>b, SameBlock DEF ConstructThrows
  <1>5. ASSUME NEW a \in Bufs, Destruct(a) PROVE ValueOf(b)' = ValueOf(b)
    BY <1>5, <1>b, SameBlock DEF Destruct, Inv, TypeOK
  <1>6. ASSUME NEW a \in Bufs, NEW c \in Bufs, Copy(a, c)
        PROVE  ValueOf(b)' = ValueOf(b)
    BY <1>6, <1>b, <1>used, SameBlock DEF Copy, Free, Inv, TypeOK
  <1>7. ASSUME NEW a \in Bufs, NEW c \in Bufs, Move(a, c)
        PROVE  ValueOf(b)' = ValueOf(b)
    <2>1. a # b /\ c # b
      BY <1>7, <1>b DEF ChangesIts, Move
    <2> QED
      BY <1>7, <1>b, <2>1, SameBlock DEF Move, Inv, TypeOK
  <1>8. ASSUME NEW a \in Bufs, NEW c \in Bufs, CopyAssign(a, c)
        PROVE  ValueOf(b)' = ValueOf(b)
    <2>1. CASE a = c
      BY <1>8, <1>b, <2>1, SameBlock DEF CopyAssign
    <2>2. CASE a # c
      <3>1. a # b /\ a \in live
        BY <1>8, <2>2 DEF ChangesIts, CopyAssign
      <3>2. buf'[b] = buf[b]
        BY <1>8, <1>b, <2>2, <3>1 DEF CopyAssign, Inv, TypeOK
      <3>3. buf[b] # Null => content'[buf[b]] = content[buf[b]]
        BY <1>8, <1>b, <1>own, <1>used, <2>2, <3>1
        DEF CopyAssign, Free, Inv, TypeOK
      <3> QED  BY <1>b, <3>2, <3>3, SameBlock
    <2> QED  BY <2>1, <2>2
  <1>9. ASSUME NEW a \in Bufs, NEW c \in Bufs, CopyAssignThrows(a, c)
        PROVE  ValueOf(b)' = ValueOf(b)
    <2>1. a # b
      BY <1>9 DEF ChangesIts, CopyAssignThrows
    <2> QED
      BY <1>9, <1>b, <2>1, SameBlock DEF CopyAssignThrows, Inv, TypeOK
  <1>10. ASSUME NEW a \in Bufs, NEW c \in Bufs, MoveAssign(a, c)
         PROVE  ValueOf(b)' = ValueOf(b)
    <2>1. CASE a = c
      BY <1>10, <1>b, <2>1, SameBlock DEF MoveAssign
    <2>2. CASE a # c
      <3>1. a # b /\ c # b
        BY <1>10, <1>b, <2>2 DEF ChangesIts
      <3> QED
        BY <1>10, <1>b, <2>2, <3>1, SameBlock DEF MoveAssign, Inv, TypeOK
    <2> QED  BY <2>1, <2>2
  <1> QED
    BY <1>1, <1>2, <1>3, <1>4, <1>5, <1>6, <1>7, <1>8, <1>9, <1>10 DEF Next

\* All three for every number of objects and blocks: no block is freed twice,
\* none is lost, and no operation reaches the bytes of a third object.
THEOREM BytesStayOwned == Spec => BytesAreOwned
  <1>1. Inv => OneOwner /\ NothingLeaks
    BY DEF Inv
  <1>2. Inv /\ [Next]_vars =>
          [\A b \in live \cap live' :
             ValueOf(b)' # ValueOf(b) => ChangesIts(b)]_vars
    BY StepKeepsBytes
  <1> QED  BY AlwaysInv, <1>1, <1>2, PTL DEF Spec, BytesAreOwned,
             OthersKeepBytes

-----------------------------------------------------------------------------
(* The memory that both rings share                                        *)

Mails == DOMAIN Sender

\* The assumptions of the instance.
LEMMA MemoryConstants ==
  /\ Capacity \in Nat \ {0}
  /\ Slack \in Nat
  /\ \A p \in Mails : /\ Size[p] \in 1 .. Capacity
                      /\ Sender[p] \in Memory!Sides
  BY MemoryAssumption DEF Memory!ConstantsOK, Mails

\* The offset that lies d cells behind h.
Behind(h, d) == IF h + d < Capacity THEN h + d ELSE h + d - Capacity

\* An offset that is counted past the end of a ring, and where it falls.
LEMMA Wrapped ==
  ASSUME NEW h \in 0 .. Capacity - 1, NEW d \in 0 .. Capacity
  PROVE  (h + d) % Capacity = Behind(h, d)
  <1> DEFINE a == h + d
             q == a \div Capacity
             u == a % Capacity
  <1>1. /\ a \in Nat /\ a < 2 * Capacity /\ q \in Int
        /\ u \in 0 .. Capacity - 1 /\ a = Capacity * q + u
    BY MemoryConstants
  <1> HIDE DEF q, u, a
  <1>2. q >= 2 => Capacity * q >= 2 * Capacity
    BY <1>1, MemoryConstants
  <1>3. q <= -1 => Capacity * q <= -Capacity
    BY <1>1, MemoryConstants
  <1>4. q = 0 \/ q = 1
    BY <1>1, <1>2, <1>3, MemoryConstants
  <1>5. u = IF a < Capacity THEN a ELSE a - Capacity
    BY <1>1, <1>4, MemoryConstants
  <1>6. u = Behind(h, d)
    BY <1>5, MemoryConstants DEF a, Behind
  <1> QED  BY <1>6 DEF u, a

\* What lies behind an offset is an offset.
LEMMA BehindIsOffset ==
  ASSUME NEW h \in 0 .. Capacity - 1, NEW d \in 0 .. Capacity
  PROVE  Behind(h, d) \in 0 .. Capacity - 1
  BY MemoryConstants DEF Behind

\* Going on twice is going on by the sum.
LEMMA BehindTwice ==
  ASSUME NEW h \in 0 .. Capacity - 1, NEW z \in 0 .. Capacity,
         NEW s \in 0 .. Capacity, z + s <= Capacity
  PROVE  Behind(Behind(h, z), s) = Behind(h, z + s)
  BY MemoryConstants DEF Behind

\* What lies further behind h, and ends within one turn, meets nothing of what
\* lies before it.
LEMMA BehindMeetsNot ==
  ASSUME NEW h \in 0 .. Capacity - 1, NEW a \in 0 .. Capacity,
         NEW z \in 0 .. Capacity, NEW m \in 1 .. Capacity,
         NEW s \in Nat, a + m <= z, z + s <= Capacity
  PROVE  \/ Behind(h, a) + m <= Behind(h, z)
         \/ Behind(h, z) + s <= Behind(h, a)
  BY MemoryConstants DEF Behind

(* The i-th of the unread packets u lies at[i] cells behind the head of    *)
(* the ring r, and each is behind the one before it.                       *)
Laid(at, u, r) ==
  /\ at \in [1 .. Len(u) + 1 -> 0 .. Capacity]
  /\ at[1] = 0 /\ at[Len(u) + 1] = r.size
  /\ \A i \in 1 .. Len(u) : /\ at[i + 1] = at[i] + Size[u[i]]
                            /\ d_place[u[i]] = Behind(r.head, at[i])
  /\ \A i, j \in 1 .. Len(u) + 1 : i <= j => at[i] <= at[j]
  /\ r.tail = Behind(r.head, r.size)

\* The cells that p was copied to, and those the other direction writes.
Cells(p) ==
  LET o == Memory!Start(Sender[p]) + d_place[p]
  IN o .. o + Size[p] - 1

Shared(p, c) ==
  \E q \in Mails : /\ Sender[q] # Sender[p]
                   /\ d_place[q] # -1 /\ c \in Cells(q)

Rings == \A d \in Memory!Sides : \E at : Laid(at, d_unread[d], d_ring[d])

Queued ==
  \A d \in Memory!Sides : \A i \in 1 .. Len(d_unread[d]) :
    Sender[d_unread[d][i]] = d /\ d_place[d_unread[d][i]] # -1

\* What was copied for a packet that is not read yet is still there, or in a
\* cell that the other direction writes as well.
Kept ==
  \A d \in Memory!Sides : \A i \in 1 .. Len(d_unread[d]) :
    LET p == d_unread[d][i]
    IN \A k \in 0 .. Size[p] - 1 :
         LET c == Memory!Start(d) + d_place[p] + k
         IN c \in Memory!Mapped => d_mem[c] = <<p, k>> \/ Shared(p, c)

Read ==
  /\ \A p \in d_spoilt : /\ d_place[p] # -1
                         /\ p \in d_outside \/ \E c \in Cells(p) : Shared(p, c)
  /\ \A p \in d_arrived : d_place[p] # -1 /\ p \notin d_outside

Outside ==
  \A p \in Mails :
    p \in d_outside <=>
      /\ d_place[p] # -1
      /\ Memory!Start(Sender[p]) + d_place[p] + Size[p] - 1
           \notin Memory!Mapped

MemoryInv ==
  Memory!TypeOK /\ Rings /\ Queued /\ Kept /\ Read /\ Outside

\* Both rings are empty.
LEMMA MemoryInit == Memory!Init => MemoryInv
  <1> SUFFICES ASSUME Memory!Init PROVE MemoryInv
    OBVIOUS
  <1> USE MemoryConstants
  <1>1. Memory!TypeOK
    BY DEF Memory!Init, Memory!TypeOK, Memory!EmptyRing, Memory!Ring,
           Memory!Offsets, Memory!Mapped, Mails
  <1>2. Rings
    <2> SUFFICES ASSUME NEW d \in Memory!Sides
                 PROVE  \E at : Laid(at, d_unread[d], d_ring[d])
      BY DEF Rings
    <2> DEFINE at == [i \in 1 .. 1 |-> 0]
    <2>1. Laid(at, d_unread[d], d_ring[d])
      BY DEF Laid, Behind, Memory!Init, Memory!EmptyRing
    <2> QED  BY <2>1
  <1>3. Queued /\ Kept
    BY DEF Queued, Kept, Memory!Init
  <1>4. Read /\ Outside
    BY DEF Read, Outside, Memory!Init, Mails
  <1> QED  BY <1>1, <1>2, <1>3, <1>4 DEF MemoryInv

\* Sequences that grow at the end or lose their head.
LEMMA SeqFacts ==
  ASSUME NEW S, NEW u \in Seq(S), NEW p \in S
  PROVE  /\ Len(u) \in Nat /\ \A i \in 1 .. Len(u) : u[i] \in S
         /\ Append(u, p) \in Seq(S) /\ Len(Append(u, p)) = Len(u) + 1
         /\ \A i \in 1 .. Len(u) : Append(u, p)[i] = u[i]
         /\ Append(u, p)[Len(u) + 1] = p
         /\ u # <<>> => /\ Len(u) > 0 /\ Head(u) = u[1]
                        /\ Tail(u) \in Seq(S) /\ Len(Tail(u)) = Len(u) - 1
                        /\ \A i \in 1 .. Len(u) - 1 : Tail(u)[i] = u[i + 1]
  OBVIOUS

\* What is known of every packet and ring.
LEMMA MemoryTypes ==
  ASSUME MemoryInv
  PROVE  /\ d_place \in [Mails -> 0 .. Capacity - 1 \cup {-1}]
         /\ DOMAIN d_mem = Memory!Mapped
         /\ \A d \in Memory!Sides :
              /\ d_ring[d] \in Memory!Ring
              /\ d_ring[d].head \in 0 .. Capacity - 1
              /\ d_ring[d].tail \in 0 .. Capacity - 1
              /\ d_ring[d].size \in 0 .. Capacity
              /\ d_unread[d] \in Seq(Mails)
              /\ Len(d_unread[d]) \in Nat
              /\ \A i \in 1 .. Len(d_unread[d]) :
                   /\ d_unread[d][i] \in Mails
                   /\ d_place[d_unread[d][i]] \in 0 .. Capacity - 1
              /\ Memory!Start(d) \in Nat
  <1>1. /\ d_place \in [Mails -> 0 .. Capacity - 1 \cup {-1}]
        /\ DOMAIN d_mem = Memory!Mapped
    BY DEF MemoryInv, Memory!TypeOK, Memory!Offsets, Mails
  <1> SUFFICES ASSUME NEW d \in Memory!Sides
               PROVE  /\ d_ring[d] \in Memory!Ring
                      /\ d_ring[d].head \in 0 .. Capacity - 1
                      /\ d_ring[d].tail \in 0 .. Capacity - 1
                      /\ d_ring[d].size \in 0 .. Capacity
                      /\ d_unread[d] \in Seq(Mails)
                      /\ Len(d_unread[d]) \in Nat
                      /\ \A i \in 1 .. Len(d_unread[d]) :
                           /\ d_unread[d][i] \in Mails
                           /\ d_place[d_unread[d][i]] \in 0 .. Capacity - 1
                      /\ Memory!Start(d) \in Nat
    BY <1>1
  <1>2. d_ring[d] \in Memory!Ring /\ d_unread[d] \in Seq(Mails)
    BY DEF MemoryInv, Memory!TypeOK, Mails
  <1>3. /\ d_ring[d].head \in 0 .. Capacity - 1
        /\ d_ring[d].tail \in 0 .. Capacity - 1
        /\ d_ring[d].size \in 0 .. Capacity
    BY <1>2 DEF Memory!Ring, Memory!Offsets
  <1>4. Len(d_unread[d]) \in Nat
    BY <1>2
  <1>5. ASSUME NEW i \in 1 .. Len(d_unread[d])
        PROVE  /\ d_unread[d][i] \in Mails
               /\ d_place[d_unread[d][i]] \in 0 .. Capacity - 1
    <2>1. d_unread[d][i] \in Mails
      BY <1>2
    <2>2. d_place[d_unread[d][i]] # -1
      BY DEF MemoryInv, Queued
    <2> QED  BY <1>1, <2>1, <2>2
  <1>6. Memory!Start(d) \in Nat
    BY MemoryConstants DEF Memory!Start
  <1> QED  BY <1>2, <1>3, <1>4, <1>5, <1>6

\* Behind the packets that are laid there is room for what fits the ring,
\* and it meets none of them although neither is copied round its end.
LEMMA RoomIsFree ==
  ASSUME MemoryInv, NEW d \in Memory!Sides,
         NEW s \in 1 .. Capacity - d_ring[d].size,
         NEW i \in 1 .. Len(d_unread[d])
  PROVE  LET p == d_unread[d][i]
         IN \/ d_place[p] + Size[p] <= d_ring[d].tail
            \/ d_ring[d].tail + s <= d_place[p]
  <1> DEFINE u == d_unread[d]
             r == d_ring[d]
             n == Len(u)
             p == u[i]
             m == Size[p]
  <1>1. PICK at : Laid(at, u, r)
    BY DEF MemoryInv, Rings
  <1>2. /\ r.head \in 0 .. Capacity - 1 /\ r.size \in 0 .. Capacity
        /\ n \in Nat /\ p \in Mails /\ Capacity \in Nat /\ m \in 1 .. Capacity
        /\ s \in Nat /\ r.size + s <= Capacity
    BY MemoryTypes, MemoryConstants, SMTT(30)
  <1>3. /\ at[i] \in 0 .. Capacity /\ at[i + 1] = at[i] + m
        /\ at[i + 1] <= at[n + 1] /\ at[n + 1] = r.size
        /\ d_place[p] = Behind(r.head, at[i])
        /\ r.tail = Behind(r.head, r.size)
    <2>1. i \in 1 .. n /\ i + 1 \in 1 .. n + 1 /\ i \in 1 .. n + 1
          /\ n + 1 \in 1 .. n + 1 /\ i + 1 <= n + 1
      BY <1>2, SMTT(30)
    <2> QED  BY <1>1, <2>1 DEF Laid
  <1> HIDE DEF r, n, p, m
  <1>4. d_place[p] + m <= r.tail \/ r.tail + s <= d_place[p]
    BY <1>2, <1>3, BehindMeetsNot
  <1> QED  BY <1>4 DEF r, p, m

\* A packet that is written leaves the unread ones of its ring where they are.
LEMMA WriteKeeps ==
  ASSUME MemoryInv, NEW p \in Mails, Memory!Write(p)
  PROVE  MemoryInv'
  <1> DEFINE d == Sender[p]
             r == d_ring[d]
             u == d_unread[d]
             n == Len(u)
             s == Size[p]
             o == Memory!Start(d) + r.tail
  <1>1. /\ d \in Memory!Sides /\ s \in 1 .. Capacity /\ d_place[p] = -1
        /\ s <= Capacity - r.size /\ Capacity \in Nat \ {0} /\ Slack \in Nat
    BY MemoryConstants DEF Memory!Write, Memory!FreeSize
  <1>2. /\ r \in Memory!Ring /\ r.head \in 0 .. Capacity - 1
        /\ r.tail \in 0 .. Capacity - 1 /\ r.size \in 0 .. Capacity
        /\ u \in Seq(Mails) /\ n \in Nat /\ o \in Nat
    BY <1>1, MemoryTypes
  <1>3. /\ d_mem' = Memory!CopyTo(d_mem, o, p)
        /\ d_outside' = IF o + s - 1 \in Memory!Mapped THEN d_outside
                        ELSE d_outside \cup {p}
        /\ d_place' = [d_place EXCEPT ![p] = r.tail]
        /\ d_ring' = [d_ring EXCEPT ![d] = Memory!Commit(r, s)]
        /\ d_unread' = [d_unread EXCEPT ![d] = Append(u, p)]
        /\ d_arrived' = d_arrived /\ d_spoilt' = d_spoilt
    BY MemoryTypes DEF Memory!Write
  <1>4. /\ d_place'[p] = r.tail
        /\ \A q \in Mails : q # p => d_place'[q] = d_place[q]
    BY <1>3, MemoryTypes
  <1>5. /\ d_ring'[d] = Memory!Commit(r, s) /\ d_unread'[d] = Append(u, p)
        /\ \A e \in Memory!Sides : e # d => /\ d_ring'[e] = d_ring[e]
                                            /\ d_unread'[e] = d_unread[e]
    BY <1>1, <1>3 DEF MemoryInv, Memory!TypeOK
  <1>6. /\ DOMAIN d_mem' = Memory!Mapped
        /\ \A c \in Memory!Mapped :
             d_mem'[c] = IF c \in o .. o + s - 1 THEN <<p, c - o>> ELSE d_mem[c]
    BY <1>3, MemoryTypes DEF Memory!CopyTo
  <1>7. /\ Cells(p)' = o .. o + s - 1
        /\ \A q \in Mails : q # p => Cells(q)' = Cells(q)
    BY <1>4 DEF Cells
  <1>8. \A q \in Mails : \A c : Shared(q, c) => Shared(q, c)'
    <2> SUFFICES ASSUME NEW q \in Mails, NEW c, Shared(q, c)
                 PROVE  Shared(q, c)'
      OBVIOUS
    <2>1. PICK w \in Mails : /\ Sender[w] # Sender[q]
                             /\ d_place[w] # -1 /\ c \in Cells(w)
      BY DEF Shared
    <2>2. w # p
      BY <1>1, <2>1
    <2> QED  BY <1>4, <1>7, <2>1, <2>2 DEF Shared
  <1>9. \A e \in Memory!Sides : \A i \in 1 .. Len(d_unread[e]) :
          d_unread[e][i] # p
    BY <1>1 DEF MemoryInv, Queued
  <1>10. Memory!Commit(r, s) =
           [head |-> r.head, tail |-> (r.tail + s) % Capacity,
            size |-> r.size + s]
    BY DEF Memory!Commit
  <1>11. (r.tail + s) % Capacity = Behind(r.tail, s)
    <2>1. r.tail \in 0 .. Capacity - 1 /\ s \in 0 .. Capacity
      BY <1>1, <1>2
    <2> HIDE DEF r, s
    <2> QED  BY <2>1, Wrapped, Zenon
  <1>12. Memory!TypeOK'
    <2>1. d_mem' \in [Memory!Mapped -> (Mails \X Nat) \cup {Null}]
      <3>1. \A c \in Memory!Mapped : c \in o .. o + s - 1 => c - o \in Nat
        BY <1>1, <1>2, SMTT(30) DEF Memory!Mapped
      <3>2. \A c \in Memory!Mapped : d_mem'[c] \in (Mails \X Nat) \cup {Null}
        BY <1>6, <3>1 DEF MemoryInv, Memory!TypeOK, Mails
      <3>3. d_mem' = [c \in Memory!Mapped |-> d_mem'[c]]
        BY <1>3, MemoryTypes DEF Memory!CopyTo
      <3> QED  BY <3>2, <3>3
    <2>2. Memory!Commit(r, s) \in Memory!Ring
      <3>0. r.tail \in 0 .. Capacity - 1 /\ s \in 0 .. Capacity
        BY <1>1, <1>2
      <3> HIDE DEF r, s
      <3>3. Behind(r.tail, s) \in 0 .. Capacity - 1
        BY <3>0, BehindIsOffset, Zenon
      <3>1. (r.tail + s) % Capacity \in 0 .. Capacity - 1
        BY <3>3, <1>11
      <3>2. r.size + s \in 0 .. Capacity
        BY <1>1, <1>2
      <3> QED  BY <1>2, <1>10, <3>1, <3>2 DEF Memory!Ring, Memory!Offsets
    <2>3. d_ring' \in [Memory!Sides -> Memory!Ring]
      BY <1>3, <2>2 DEF MemoryInv, Memory!TypeOK
    <2>4. d_unread' \in [Memory!Sides -> Seq(Mails)]
      <3>1. Append(u, p) \in Seq(Mails)
        BY <1>2
      <3> QED  BY <1>1, <1>3, <3>1 DEF MemoryInv, Memory!TypeOK, Mails
    <2>5. d_place' \in [Mails -> Memory!Offsets \cup {-1}]
      BY <1>2, <1>3 DEF MemoryInv, Memory!TypeOK, Mails, Memory!Offsets
    <2>6. /\ d_outside' \subseteq Mails /\ d_arrived' \subseteq Mails
          /\ d_spoilt' \subseteq Mails
      BY <1>3 DEF MemoryInv, Memory!TypeOK, Mails
    <2> QED  BY <2>1, <2>3, <2>4, <2>5, <2>6 DEF Memory!TypeOK, Mails
  <1>13. Rings'
    <2> SUFFICES ASSUME NEW e \in Memory!Sides
                 PROVE  \E at : Laid(at, d_unread[e], d_ring[e])'
      BY DEF Rings
    <2>1. PICK at : Laid(at, d_unread[e], d_ring[e])
      BY DEF MemoryInv, Rings
    <2>2. \A i \in 1 .. Len(d_unread[e]) :
            d_place'[d_unread[e][i]] = d_place[d_unread[e][i]]
      BY <1>4, <1>9, MemoryTypes
    <2>3. CASE e # d
      <3>1. d_ring'[e] = d_ring[e] /\ d_unread'[e] = d_unread[e]
        BY <1>5, <2>3
      <3>2. Laid(at, d_unread[e], d_ring[e])'
        BY <2>1, <2>2, <3>1 DEF Laid
      <3> QED  BY <3>2
    <2>4. CASE e = d
      <3> DEFINE z == r.size
                 new == [i \in 1 .. n + 2 |->
                           IF i < n + 2 THEN at[i] ELSE z + s]
                 v == Append(u, p)
                 R == Memory!Commit(r, s)
      <3>1. /\ at \in [1 .. n + 1 -> 0 .. Capacity]
            /\ at[1] = 0 /\ at[n + 1] = z
            /\ \A i \in 1 .. n : /\ at[i + 1] = at[i] + Size[u[i]]
                                 /\ d_place[u[i]] = Behind(r.head, at[i])
            /\ \A i, j \in 1 .. n + 1 : i <= j => at[i] <= at[j]
            /\ r.tail = Behind(r.head, z)
        BY <2>1, <2>4 DEF Laid
      <3>2. /\ v \in Seq(Mails) /\ Len(v) = n + 1
            /\ \A i \in 1 .. n : v[i] = u[i]
            /\ v[n + 1] = p
        BY <1>2, SeqFacts
      <3>3. /\ R.head = r.head /\ R.size = z + s
            /\ R.tail = (r.tail + s) % Capacity
        BY <1>10
      <3>4. R.tail = Behind(R.head, R.size)
        <4>1. R.tail = Behind(r.tail, s)
          BY <3>3, <1>11
        <4>2. /\ r.head \in 0 .. Capacity - 1 /\ z \in 0 .. Capacity
              /\ s \in 0 .. Capacity /\ z + s <= Capacity
          BY <1>1, <1>2
        <4> HIDE DEF R, r, s, z
        <4>3. Behind(Behind(r.head, z), s) = Behind(r.head, z + s)
          BY <4>2, BehindTwice
        <4> QED  BY <3>1, <3>3, <4>1, <4>3
      <3>5. d_ring'[e] = R /\ d_unread'[e] = v
        BY <1>5, <2>4
      <3>6. \A i \in 1 .. n : d_place'[u[i]] = d_place[u[i]]
        BY <2>2, <2>4
      <3>7. z \in 0 .. Capacity /\ z + s \in 0 .. Capacity /\ s \in Nat
        BY <1>1, <1>2, SMTT(30)
      <3> HIDE DEF R, v, r, s, n, u, z
      <3>8. /\ new \in [1 .. Len(v) + 1 -> 0 .. Capacity]
            /\ new[1] = 0 /\ new[Len(v) + 1] = R.size
        BY <1>2, <3>1, <3>2, <3>3, <3>7, SMTT(30)
      <3>9. ASSUME NEW i \in 1 .. Len(v)
            PROVE  /\ new[i + 1] = new[i] + Size[v[i]]
                   /\ d_place'[v[i]] = Behind(R.head, new[i])
        <4>1. CASE i \in 1 .. n
          <5>0. /\ i \in 1 .. n + 2 /\ i + 1 \in 1 .. n + 2
                /\ i < n + 2 /\ i + 1 < n + 2
            BY <1>2, <4>1
          <5>1. new[i] = at[i] /\ new[i + 1] = at[i + 1] /\ v[i] = u[i]
            BY <3>2, <4>1, <5>0
          <5> QED  BY <3>1, <3>3, <3>6, <4>1, <5>1
        <4>2. CASE i = n + 1
          <5>1. new[i] = z /\ new[i + 1] = z + s /\ v[i] = p
            BY <1>2, <3>1, <3>2, <4>2
          <5>2. d_place'[p] = r.tail
            BY <1>4 DEF r
          <5>3. s = Size[p]
            BY DEF s
          <5> QED  BY <3>1, <3>3, <5>1, <5>2, <5>3
        <4> QED  BY <1>2, <3>2, <4>1, <4>2
      <3>10. ASSUME NEW i \in 1 .. Len(v) + 1, NEW j \in 1 .. Len(v) + 1, i <= j
             PROVE  new[i] <= new[j]
        <4>1. CASE j < n + 2
          <5>1. i \in 1 .. n + 1 /\ j \in 1 .. n + 1
            BY <1>2, <3>2, <3>10, <4>1
          <5>2. new[i] = at[i] /\ new[j] = at[j]
            BY <1>2, <5>1
          <5> QED  BY <3>1, <3>10, <5>1, <5>2
        <4>2. CASE j = n + 2 /\ i < n + 2
          <5>1. i \in 1 .. n + 1 /\ n + 1 \in 1 .. n + 1 /\ i <= n + 1
            BY <1>2, <3>2, <4>2
          <5>2. at[i] <= z /\ at[i] \in Nat
            BY <3>1, <5>1
          <5>3. new[i] = at[i] /\ new[j] = z + s
            BY <1>2, <4>2, <5>1
          <5> QED  BY <3>7, <5>2, <5>3
        <4>3. CASE j = n + 2 /\ i = n + 2
          BY <1>2, <3>7, <4>3
        <4> QED  BY <1>2, <3>2, <3>10, <4>1, <4>2, <4>3
      <3> HIDE DEF new
      <3>11. PICK w : w = new
        OBVIOUS
      <3>12. Laid(w, d_unread[e], d_ring[e])'
        BY <3>5, <3>8, <3>9, <3>10, <3>11, <3>4 DEF Laid
      <3> QED  BY <3>12
    <2> QED  BY <2>3, <2>4
  <1>13a. ASSUME NEW e \in Memory!Sides, NEW i \in 1 .. Len(d_unread'[e])
         PROVE  \/ d_unread'[e][i] = p /\ e = d
                \/ /\ i \in 1 .. Len(d_unread[e])
                   /\ d_unread'[e][i] = d_unread[e][i]
    <2>1. CASE e # d
      BY <1>5, <2>1, <1>13a
    <2>2. CASE e = d
      <3>1. d_unread'[e] = Append(u, p) /\ d_unread[e] = u
        BY <1>5, <2>2
      <3>2. u \in Seq(Mails) /\ p \in Mails
        BY <1>1, <1>2
      <3> HIDE DEF u
      <3>3. /\ Len(u) \in Nat /\ Len(Append(u, p)) = Len(u) + 1
            /\ \A j \in 1 .. Len(u) : Append(u, p)[j] = u[j]
            /\ Append(u, p)[Len(u) + 1] = p
        BY <3>2, SeqFacts
      <3>4. i \in 1 .. Len(u) + 1
        BY <1>13a, <3>1, <3>3
      <3>5. i \in 1 .. Len(u) \/ i = Len(u) + 1
        BY <3>3, <3>4
      <3>6. CASE i \in 1 .. Len(u)
        BY <3>1, <3>3, <3>6, Zenon
      <3>7. CASE i = Len(u) + 1
        BY <2>2, <3>1, <3>3, <3>7, Zenon
      <3> QED  BY <3>5, <3>6, <3>7
    <2> QED  BY <2>1, <2>2
  <1>14. Queued'
    <2> SUFFICES ASSUME NEW e \in Memory!Sides, NEW i \in 1 .. Len(d_unread'[e])
                 PROVE  /\ Sender[d_unread'[e][i]] = e
                        /\ d_place'[d_unread'[e][i]] # -1
      BY DEF Queued
    <2>1. CASE d_unread'[e][i] = p /\ e = d
      BY <1>2, <1>4, <2>1
    <2>2. CASE i \in 1 .. Len(d_unread[e]) /\ d_unread'[e][i] = d_unread[e][i]
      BY <1>4, <1>9, <2>2, MemoryTypes, SMTT(30) DEF MemoryInv, Queued
    <2> QED  BY <1>13a, <2>1, <2>2
  <1>15. \A c : c \in Memory!Mapped /\ c \in o .. o + s - 1 =>
               d_mem'[c] = <<p, c - o>>
    BY <1>6
  <1>16. Kept'
    <2> SUFFICES ASSUME NEW e \in Memory!Sides,
                        NEW i \in 1 .. Len(d_unread'[e]),
                        NEW q, q = d_unread'[e][i],
                        NEW k \in 0 .. Size[q] - 1,
                        NEW c \in Memory!Mapped,
                        c = Memory!Start(e) + d_place'[q] + k
                 PROVE  d_mem'[c] = <<q, k>> \/ Shared(q, c)'
      BY DEF Kept
    <2>1. CASE q = p /\ e = d
      <3>1. c = o + k /\ k \in 0 .. s - 1 /\ o \in Nat /\ s \in Nat
        BY <1>1, <1>2, <1>4, <2>1, MemoryTypes, SMTT(30)
      <3> HIDE DEF o, s
      <3>2. c \in o .. o + s - 1 /\ c - o = k
        BY <3>1
      <3> QED  BY <1>15, <2>1, <3>2
    <2>2. CASE i \in 1 .. Len(d_unread[e]) /\ q = d_unread[e][i]
      <3>1. /\ q \in Mails /\ q # p /\ d_place'[q] = d_place[q]
            /\ d_place[q] \in 0 .. Capacity - 1 /\ Sender[q] = e
            /\ Size[q] \in 1 .. Capacity /\ Memory!Start(e) \in Nat
        BY <1>4, <1>9, <2>2, MemoryTypes, MemoryConstants, SMTT(30)
           DEF MemoryInv, Queued
      <3>2. c = Memory!Start(e) + d_place[q] + k /\ c \in Memory!Mapped
        BY <3>1
      <3>3. d_mem[c] = <<q, k>> \/ Shared(q, c)
        BY <2>2, <3>2 DEF MemoryInv, Kept
      <3>4. CASE c \notin o .. o + s - 1
        BY <1>6, <1>8, <3>1, <3>2, <3>3, <3>4
      <3>5. CASE c \in o .. o + s - 1 /\ e # d
        <4>1. /\ Sender[p] # Sender[q] /\ d_place'[p] # -1
              /\ c \in Cells(p)'
          BY <1>1, <1>2, <1>4, <1>7, <3>1, <3>5, SMTT(30), ZenonT(60)
        <4> QED  BY <4>1 DEF Shared
      <3>6. CASE c \in o .. o + s - 1 /\ e = d
        <4>1. /\ s \in 1 .. Capacity - d_ring[e].size /\ d_ring[e] = r
          BY <1>1, <1>2, <3>6
        <4>2. \/ d_place[q] + Size[q] <= r.tail
              \/ r.tail + s <= d_place[q]
          BY <2>2, <4>1, RoomIsFree
        <4> DEFINE S == Memory!Start(e)
                   a == d_place[q]
                   t == r.tail
        <4>3. S + a + k \in S + t .. S + t + s - 1
          BY <3>2, <3>6
        <4>4. S \in Nat /\ a \in Nat /\ t \in Nat
          BY <1>2, <3>1
        <4>5. s \in Nat /\ Size[q] \in Nat
          BY <1>1, <3>1, SMTT(30)
        <4>6. a + Size[q] <= t \/ t + s <= a
          BY <4>2
        <4> HIDE DEF S, a, t, s, o, r, u, n, d
        <4>7. FALSE
          BY <4>3, <4>4, <4>5, <4>6
        <4> QED  BY <4>7
      <3> QED  BY <3>4, <3>5, <3>6
    <2> QED  BY <1>13a, <2>1, <2>2
  <1>17. Outside'
    <2> SUFFICES ASSUME NEW q \in Mails
                 PROVE  (q \in d_outside') <=>
                          /\ d_place'[q] # -1
                          /\ Memory!Start(Sender[q]) + d_place'[q] + Size[q] - 1
                               \notin Memory!Mapped
      BY DEF Outside
    <2>1. CASE q = p
      <3>1. p \notin d_outside
        BY <1>1 DEF MemoryInv, Outside
      <3>2. (p \in d_outside') <=> o + s - 1 \notin Memory!Mapped
        BY <1>3, <3>1
      <3>3. d_place'[p] = r.tail /\ r.tail # -1
        BY <1>2, <1>4
      <3> QED  BY <2>1, <3>2, <3>3
    <2>2. CASE q # p
      <3>1. (q \in d_outside') <=> q \in d_outside
        BY <1>3, <2>2
      <3> QED  BY <1>4, <2>2, <3>1 DEF MemoryInv, Outside
    <2> QED  BY <2>1, <2>2
  <1>18. Read'
    <2>1. ASSUME NEW q \in d_spoilt
          PROVE  /\ d_place'[q] # -1
                 /\ q \in d_outside' \/ \E c \in Cells(q)' : Shared(q, c)'
      <3>1. /\ q \in Mails /\ d_place[q] # -1
            /\ q \in d_outside \/ \E c \in Cells(q) : Shared(q, c)
        BY DEF MemoryInv, Read, Memory!TypeOK, Mails
      <3>2. q # p
        BY <1>1, <3>1
      <3> QED  BY <1>3, <1>4, <1>7, <1>8, <3>1, <3>2
    <2>2. ASSUME NEW q \in d_arrived
          PROVE  d_place'[q] # -1 /\ q \notin d_outside'
      <3>1. q \in Mails /\ d_place[q] # -1 /\ q \notin d_outside
        BY DEF MemoryInv, Read, Memory!TypeOK, Mails
      <3>2. q # p
        BY <1>1, <3>1
      <3> QED  BY <1>3, <1>4, <3>1, <3>2
    <2> QED  BY <1>3, <2>1, <2>2 DEF Read
  <1> QED
    BY <1>12, <1>13, <1>14, <1>16, <1>17, <1>18 DEF MemoryInv

\* The ring that is read begins with its first packet, which leaves it.
LEMMA ReadKeeps ==
  ASSUME MemoryInv, NEW d \in Memory!Sides, Memory!Read(d)
  PROVE  MemoryInv'
  <1> DEFINE r == d_ring[d]
             u == d_unread[d]
             n == Len(u)
             p == Head(u)
             m == Size[p]
             o == Memory!Start(d) + r.head
  <1>1. /\ u # <<>> /\ u \in Seq(Mails) /\ r \in Memory!Ring
        /\ r.head \in 0 .. Capacity - 1 /\ r.tail \in 0 .. Capacity - 1
        /\ r.size \in 0 .. Capacity /\ Memory!Start(d) \in Nat
    BY MemoryTypes DEF Memory!Read
  <1>2. /\ n \in Nat \ {0} /\ p = u[1] /\ p \in Mails
        /\ Tail(u) \in Seq(Mails) /\ Len(Tail(u)) = n - 1
        /\ \A i \in 1 .. n - 1 : Tail(u)[i] = u[i + 1]
    BY <1>1, SeqFacts
  <1>3. m \in 1 .. Capacity /\ Capacity \in Nat \ {0} /\ Slack \in Nat
    BY <1>2, MemoryConstants
  <1>4. /\ d_mem' = d_mem /\ d_place' = d_place /\ d_outside' = d_outside
        /\ d_ring' = [d_ring EXCEPT ![d] = Memory!Consume(r, m)]
        /\ d_unread' = [d_unread EXCEPT ![d] = Tail(u)]
    BY DEF Memory!Read
  <1>5. /\ d_ring'[d] = Memory!Consume(r, m) /\ d_unread'[d] = Tail(u)
        /\ \A e \in Memory!Sides : e # d => /\ d_ring'[e] = d_ring[e]
                                            /\ d_unread'[e] = d_unread[e]
    BY <1>4 DEF MemoryInv, Memory!TypeOK
  <1>6. PICK at : Laid(at, u, r)
    BY DEF MemoryInv, Rings
  <1>7. /\ at \in [1 .. n + 1 -> 0 .. Capacity]
        /\ at[1] = 0 /\ at[n + 1] = r.size
        /\ \A i \in 1 .. n : /\ at[i + 1] = at[i] + Size[u[i]]
                             /\ d_place[u[i]] = Behind(r.head, at[i])
        /\ \A i, j \in 1 .. n + 1 : i <= j => at[i] <= at[j]
        /\ r.tail = Behind(r.head, r.size)
    BY <1>6 DEF Laid
  <1>8. at[2] = m /\ m <= r.size /\ d_place[p] = r.head /\ Sender[p] = d
    <2>1. /\ 1 \in 1 .. n /\ 1 + 1 = 2 /\ 2 \in 1 .. n + 1
          /\ n + 1 \in 1 .. n + 1 /\ 2 <= n + 1
      BY <1>2
    <2>2. at[2] = m
      BY <1>2, <1>3, <1>7, <2>1
    <2>3. m <= r.size
      BY <1>7, <2>1, <2>2
    <2>4. d_place[p] = Behind(r.head, 0)
      BY <1>2, <1>7, <2>1
    <2>5. Behind(r.head, 0) = r.head
      BY <1>1, <1>3 DEF Behind
    <2>6. Sender[p] = d
      BY <1>2, <2>1 DEF MemoryInv, Queued
    <2> QED  BY <2>2, <2>3, <2>4, <2>5, <2>6
  <1>9. Memory!Consume(r, m) = [head |-> (r.head + m) % Capacity,
                                tail |-> r.tail, size |-> r.size - m]
    BY DEF Memory!Consume
  <1>10. /\ (r.head + m) % Capacity = Behind(r.head, m)
         /\ Behind(r.head, m) \in 0 .. Capacity - 1
    <2>1. r.head \in 0 .. Capacity - 1 /\ m \in 0 .. Capacity
      BY <1>1, <1>3
    <2> HIDE DEF r, m
    <2> QED  BY <2>1, Wrapped, BehindIsOffset, Zenon
  <1>11. \A q, c : Shared(q, c)' <=> Shared(q, c)
    BY <1>4 DEF Shared, Cells
  <1>12. \A q : Cells(q)' = Cells(q)
    BY <1>4 DEF Cells
  <1>13. \A e \in Memory!Sides : \A i \in 1 .. Len(d_unread'[e]) :
           \E j \in 1 .. Len(d_unread[e]) : d_unread'[e][i] = d_unread[e][j]
    <2> SUFFICES ASSUME NEW e \in Memory!Sides, NEW i \in 1 .. Len(d_unread'[e])
                 PROVE  \E j \in 1 .. Len(d_unread[e]) :
                          d_unread'[e][i] = d_unread[e][j]
      OBVIOUS
    <2>1. CASE e # d
      BY <1>5, <2>1
    <2>2. CASE e = d
      <3>0. i \in 1 .. n - 1
        BY <1>2, <1>5, <2>2
      <3>1. i \in 1 .. n - 1 /\ i + 1 \in 1 .. n
        <4> HIDE DEF n
        <4> QED  BY <1>2, <3>0
      <3>2. d_unread'[e][i] = u[i + 1]
        BY <1>2, <1>5, <2>2, <3>1
      <3> QED  BY <2>2, <3>1, <3>2
    <2> QED  BY <2>1, <2>2
  <1>14. Queued' /\ Kept'
    <2>1. Queued'
      BY <1>4, <1>13 DEF MemoryInv, Queued
    <2>2. Kept'
      <3> SUFFICES ASSUME NEW e \in Memory!Sides,
                          NEW i \in 1 .. Len(d_unread'[e]),
                          NEW q, q = d_unread'[e][i],
                          NEW k \in 0 .. Size[q] - 1,
                          NEW c \in Memory!Mapped,
                          c = Memory!Start(e) + d_place'[q] + k
                   PROVE  d_mem'[c] = <<q, k>> \/ Shared(q, c)'
        BY DEF Kept
      <3>1. PICK j \in 1 .. Len(d_unread[e]) : q = d_unread[e][j]
        BY <1>13
      <3>2. d_mem[c] = <<q, k>> \/ Shared(q, c)
        BY <1>4, <3>1 DEF MemoryInv, Kept
      <3> QED  BY <1>4, <1>11, <3>2
    <2> QED  BY <2>1, <2>2
  <1>15. Outside'
    BY <1>4 DEF MemoryInv, Outside
  <1>16. Memory!TypeOK'
    <2>1. Memory!Consume(r, m) \in Memory!Ring
      <3>1. r.size - m \in 0 .. Capacity
        BY <1>1, <1>3, <1>8, SMTT(30)
      <3>2. (r.head + m) % Capacity \in 0 .. Capacity - 1
        BY <1>10
      <3> HIDE DEF r, m
      <3> QED  BY <1>1, <1>9, <3>1, <3>2 DEF Memory!Ring, Memory!Offsets
    <2>2. d_ring' \in [Memory!Sides -> Memory!Ring]
      BY <1>4, <2>1 DEF MemoryInv, Memory!TypeOK
    <2>3. d_unread' \in [Memory!Sides -> Seq(DOMAIN Sender)]
      BY <1>2, <1>4 DEF MemoryInv, Memory!TypeOK, Mails
    <2>4. /\ d_arrived' \subseteq DOMAIN Sender
          /\ d_spoilt' \subseteq DOMAIN Sender
      BY <1>2 DEF MemoryInv, Memory!TypeOK, Memory!Read, Mails
    <2> QED  BY <1>4, <2>2, <2>3, <2>4 DEF MemoryInv, Memory!TypeOK
  <1>17. Rings'
    <2> SUFFICES ASSUME NEW e \in Memory!Sides
                 PROVE  \E w : Laid(w, d_unread[e], d_ring[e])'
      BY DEF Rings
    <2>1. CASE e # d
      <3>1. PICK w : Laid(w, d_unread[e], d_ring[e])
        BY DEF MemoryInv, Rings
      <3>2. d_ring'[e] = d_ring[e] /\ d_unread'[e] = d_unread[e]
        BY <1>5, <2>1
      <3>3. Laid(w, d_unread[e], d_ring[e])'
        BY <1>4, <3>1, <3>2 DEF Laid
      <3> QED  BY <3>3
    <2>2. CASE e = d
      <3> DEFINE z == r.size
                 h == r.head
                 R == Memory!Consume(r, m)
                 v == Tail(u)
                 H == Behind(h, m)
                 new == [i \in 1 .. n |-> at[i + 1] - m]
      <3>1. R.head = H /\ R.tail = r.tail /\ R.size = z - m
        BY <1>9, <1>10
      <3>2. /\ h \in 0 .. Capacity - 1 /\ z \in 0 .. Capacity
            /\ m \in 1 .. Capacity /\ m <= z /\ Capacity \in Nat \ {0}
        BY <1>1, <1>3, <1>8
      <3>3. /\ at \in [1 .. n + 1 -> 0 .. Capacity] /\ at[n + 1] = z
            /\ \A i \in 1 .. n : /\ at[i + 1] = at[i] + Size[u[i]]
                                 /\ d_place[u[i]] = Behind(h, at[i])
            /\ \A i, j \in 1 .. n + 1 : i <= j => at[i] <= at[j]
            /\ r.tail = Behind(h, z) /\ at[2] = m
        BY <1>7, <1>8
      <3>4. /\ n \in Nat \ {0} /\ Len(v) = n - 1
            /\ \A i \in 1 .. n - 1 : v[i] = u[i + 1] /\ Size[u[i + 1]] \in Nat
        BY <1>1, <1>2, SeqFacts, MemoryConstants
      <3>5. d_ring'[e] = R /\ d_unread'[e] = v
        BY <1>5, <2>2
      <3> HIDE DEF R, v, r, n, u, z, h, m, H, p
      <3>6. \A i \in 1 .. n : /\ at[i + 1] \in 0 .. Capacity
                              /\ m <= at[i + 1] /\ at[i + 1] <= z
        <4> SUFFICES ASSUME NEW i \in 1 .. n
                     PROVE  /\ at[i + 1] \in 0 .. Capacity
                            /\ m <= at[i + 1] /\ at[i + 1] <= z
          OBVIOUS
        <4>1. /\ 2 \in 1 .. n + 1 /\ i + 1 \in 1 .. n + 1
              /\ n + 1 \in 1 .. n + 1 /\ 2 <= i + 1 /\ i + 1 <= n + 1
          BY <3>4
        <4> QED  BY <3>3, <4>1
      <3>7. \A y \in 0 .. Capacity : m <= y =>
              Behind(h, y) = Behind(H, y - m)
        <4> SUFFICES ASSUME NEW y \in 0 .. Capacity, m <= y
                     PROVE  Behind(h, y) = Behind(H, y - m)
          OBVIOUS
        <4>1. y - m \in 0 .. Capacity /\ m + (y - m) = y /\ m \in 0 .. Capacity
              /\ m + (y - m) <= Capacity
          BY <3>2
        <4>2. Behind(Behind(h, m), y - m) = Behind(h, m + (y - m))
          BY <3>2, <4>1, BehindTwice
        <4> QED  BY <4>1, <4>2 DEF H
      <3>8. R.tail = Behind(R.head, R.size)
        BY <3>1, <3>2, <3>3, <3>7
      <3>9. /\ new \in [1 .. Len(v) + 1 -> 0 .. Capacity]
            /\ new[1] = 0 /\ new[Len(v) + 1] = R.size
        <4>1. Len(v) + 1 = n /\ 1 \in 1 .. n /\ n \in 1 .. n /\ 1 + 1 = 2
          BY <3>4
        <4>2. \A i \in 1 .. n : at[i + 1] - m \in 0 .. Capacity
          BY <3>2, <3>6
        <4>3. new[1] = m - m /\ new[n] = z - m
          BY <3>3, <4>1
        <4> QED  BY <3>1, <3>2, <4>1, <4>2, <4>3
      <3>10. ASSUME NEW i \in 1 .. Len(v)
             PROVE  /\ new[i + 1] = new[i] + Size[v[i]]
                    /\ d_place[v[i]] = Behind(R.head, new[i])
        <4>1. /\ i \in 1 .. n - 1 /\ i \in 1 .. n /\ i + 1 \in 1 .. n
              /\ i + 1 + 1 = i + 2
          BY <3>4
        <4>2. v[i] = u[i + 1] /\ Size[v[i]] \in Nat
          BY <3>4, <4>1
        <4>3. new[i] = at[i + 1] - m /\ new[i + 1] = at[i + 2] - m
          BY <4>1
        <4>4. at[i + 2] = at[i + 1] + Size[v[i]]
          BY <3>3, <4>1, <4>2
        <4>5. /\ at[i + 1] \in 0 .. Capacity /\ m <= at[i + 1]
              /\ d_place[v[i]] = Behind(h, at[i + 1])
          BY <3>3, <3>6, <4>1, <4>2
        <4>6. d_place[v[i]] = Behind(H, at[i + 1] - m)
          BY <3>7, <4>5
        <4> HIDE DEF new
        <4>7. new[i + 1] = new[i] + Size[v[i]]
          BY <3>2, <4>2, <4>3, <4>4, <4>5
        <4> QED  BY <3>1, <4>3, <4>6, <4>7
      <3>11. ASSUME NEW i \in 1 .. Len(v) + 1, NEW j \in 1 .. Len(v) + 1,
                    i <= j
             PROVE  new[i] <= new[j]
        <4>1. /\ i \in 1 .. n /\ j \in 1 .. n
              /\ i + 1 \in 1 .. n + 1 /\ j + 1 \in 1 .. n + 1
              /\ i + 1 <= j + 1
          BY <3>4, <3>11
        <4>2. /\ at[i + 1] <= at[j + 1]
              /\ at[i + 1] \in 0 .. Capacity /\ at[j + 1] \in 0 .. Capacity
          BY <3>3, <4>1
        <4>3. new[i] = at[i + 1] - m /\ new[j] = at[j + 1] - m
          BY <4>1
        <4> HIDE DEF new
        <4> QED  BY <3>2, <4>2, <4>3
      <3>12. PICK w : w = new
        OBVIOUS
      <3> HIDE DEF new
      <3>13. Laid(w, d_unread[e], d_ring[e])'
        BY <1>4, <3>5, <3>8, <3>9, <3>10, <3>11, <3>12 DEF Laid
      <3> QED  BY <3>13
    <2> QED  BY <2>1, <2>2
  <1>18. Read'
    <2>1. /\ d_place[p] # -1
          /\ p \in d_outside <=> o + m - 1 \notin Memory!Mapped
      BY <1>1, <1>2, <1>8 DEF MemoryInv, Outside
    <2>2. CASE Memory!IntactAt(d_mem, o, p)
      <3>1. d_arrived' = d_arrived \cup {p} /\ d_spoilt' = d_spoilt
        BY <2>2 DEF Memory!Read
      <3>2. m - 1 \in 0 .. m - 1 /\ o + (m - 1) = o + m - 1
        BY <1>1, <1>3
      <3>3. o + m - 1 \in DOMAIN d_mem
        BY <2>2, <3>2 DEF Memory!IntactAt
      <3>4. p \notin d_outside
        BY <2>1, <3>3, MemoryTypes
      <3> QED  BY <1>4, <1>11, <1>12, <2>1, <3>1, <3>4 DEF MemoryInv, Read
    <2>3. CASE ~Memory!IntactAt(d_mem, o, p)
      <3>1. d_spoilt' = d_spoilt \cup {p} /\ d_arrived' = d_arrived
        BY <2>3 DEF Memory!Read
      <3>2. PICK k \in 0 .. m - 1 : o + k \notin Memory!Mapped
                                   \/ d_mem[o + k] # <<p, k>>
        BY <2>3, MemoryTypes DEF Memory!IntactAt
      <3>3. CASE o + k \notin Memory!Mapped
        <4>1. o + m - 1 \notin Memory!Mapped
          <5>1. o \in Nat /\ m \in Nat /\ k \in 0 .. m - 1
            BY <1>1, <1>3, SMTT(30)
          <5> HIDE DEF o, m
          <5> QED  BY <1>3, <3>3, <5>1 DEF Memory!Mapped
        <4> QED  BY <1>4, <1>11, <1>12, <2>1, <3>1, <4>1
                 DEF MemoryInv, Read
      <3>4. CASE o + k \in Memory!Mapped
        <4>1. 1 \in 1 .. Len(d_unread[d]) /\ p = d_unread[d][1]
          BY <1>2
        <4>2. o + k = Memory!Start(d) + d_place[p] + k
          BY <1>8
        <4>3. Shared(p, o + k)
          BY <3>2, <3>4, <4>1, <4>2 DEF MemoryInv, Kept
        <4>4. o + k \in Cells(p)
          <5>1. o \in Nat /\ m \in Nat /\ k \in 0 .. m - 1
            BY <1>1, <1>3, SMTT(30)
          <5>2. Cells(p) = o .. o + m - 1
            BY <1>8 DEF Cells
          <5> HIDE DEF o, m
          <5>3. o + k \in o .. o + m - 1
            BY <5>1
          <5> QED  BY <5>2, <5>3
        <4> QED  BY <1>4, <1>11, <1>12, <2>1, <3>1, <4>3, <4>4
                 DEF MemoryInv, Read
      <3> QED  BY <3>3, <3>4
    <2> QED  BY <2>2, <2>3
  <1> QED
    BY <1>14, <1>15, <1>16, <1>17, <1>18 DEF MemoryInv

\* Every step keeps the invariant; those of the other parts do not matter.
LEMMA MemoryNext ==
  ASSUME MemoryInv, [PacketsNext]_allVars
  PROVE  MemoryInv'
  <1>1. ASSUME NEW p \in Mails, Memory!Write(p)
        PROVE  MemoryInv'
    BY <1>1, WriteKeeps
  <1>2. ASSUME NEW d \in Memory!Sides, Memory!Read(d)
        PROVE  MemoryInv'
    BY <1>2, ReadKeeps
  <1>3. CASE UNCHANGED memoryVars
    <2>1. /\ d_mem' = d_mem /\ d_ring' = d_ring /\ d_unread' = d_unread
          /\ d_place' = d_place /\ d_arrived' = d_arrived
          /\ d_spoilt' = d_spoilt /\ d_outside' = d_outside
      BY <1>3 DEF memoryVars
    <2>2. Memory!TypeOK' /\ Queued' /\ Outside'
      BY <2>1 DEF MemoryInv, Memory!TypeOK, Queued, Outside
    <2>3. Rings'
      BY <2>1 DEF MemoryInv, Rings, Laid
    <2>4. Kept' /\ Read'
      BY <2>1, ZenonT(60) DEF MemoryInv, Kept, Read, Shared, Cells
    <2> QED  BY <2>2, <2>3, <2>4 DEF MemoryInv
  <1> QED
    BY <1>1, <1>2, <1>3 DEF PacketsNext, allVars, Memory!Next, Mails

\* A cell that packets of both directions were copied to is behind the end
\* of c_buf, and among the first of s_buf.
LEMMA SharedAtTheSeam ==
  ASSUME MemoryInv, NEW p \in Mails, d_place[p] # -1, NEW q \in Mails,
         d_place[q] # -1, Sender[q] # Sender[p],
         NEW c \in Cells(p), c \in Cells(q)
  PROVE  LET a == IF Sender[p] = "client" THEN p ELSE q
             b == IF Sender[p] = "client" THEN q ELSE p
         IN /\ Sender[a] = "client" /\ Sender[b] = "server"
            /\ c \in Memory!Seam /\ Memory!Crosses(a)
            /\ d_place[b] < d_place[a] + Size[a] - Capacity
            /\ Memory!Start("server") + d_place[b] \in Memory!Seam
  <1> DEFINE a == IF Sender[p] = "client" THEN p ELSE q
             b == IF Sender[p] = "client" THEN q ELSE p
  <1>1. /\ a \in Mails /\ b \in Mails
        /\ Sender[a] = "client" /\ Sender[b] = "server"
        /\ c \in Cells(a) /\ c \in Cells(b)
        /\ d_place[a] # -1 /\ d_place[b] # -1
    BY MemoryConstants DEF Memory!Sides
  <1> HIDE DEF a, b
  <1>2. /\ d_place[a] \in 0 .. Capacity - 1 /\ d_place[b] \in 0 .. Capacity - 1
        /\ Size[a] \in 1 .. Capacity /\ Capacity \in Nat \ {0}
    BY <1>1, MemoryTypes, MemoryConstants
  <1>3. /\ Memory!Start(Sender[a]) = 0 /\ Memory!Start(Sender[b]) = Capacity
        /\ Memory!Start("server") = Capacity
    BY <1>1 DEF Memory!Start
  <1>4. c \in d_place[a] .. d_place[a] + Size[a] - 1
    BY <1>1, <1>2, <1>3 DEF Cells
  <1>5. c \in Capacity + d_place[b] .. Capacity + d_place[b] + Size[b] - 1
    BY <1>1, <1>2, <1>3 DEF Cells
  <1>6. Size[b] \in Nat
    BY <1>1, MemoryConstants
  <1>7. /\ c \in Int /\ Capacity + d_place[b] <= c
        /\ c <= d_place[a] + Size[a] - 1
    BY <1>2, <1>4, <1>5, <1>6
  <1>8. /\ c \in Capacity .. Capacity + Size[a] - 2
        /\ Capacity + d_place[b] \in Capacity .. Capacity + Size[a] - 2
        /\ d_place[b] < d_place[a] + Size[a] - Capacity
        /\ d_place[a] + Size[a] > Capacity
    BY <1>2, <1>7
  <1>9. Capacity .. Capacity + Size[a] - 2 \subseteq Memory!Seam
    BY <1>1 DEF Memory!Seam, Mails
  <1> QED
    BY <1>1, <1>3, <1>8, <1>9 DEF Memory!Crosses, a, b

\* The invariant says what the run checks.
LEMMA MemoryInvIsEnough == MemoryInv => DirectionsStayApart
  <1> SUFFICES ASSUME MemoryInv PROVE DirectionsStayApart
    OBVIOUS
  <1>1. Memory!TypeOK
    BY DEF MemoryInv
  <1>2. Memory!SpoiltAtTheSeam
    <2> SUFFICES ASSUME NEW p \in d_spoilt \ d_outside
                 PROVE
          /\ \/ Sender[p] = "client" /\ Memory!Crosses(p)
             \/ /\ Sender[p] = "server"
                /\ Memory!Start("server") + d_place[p] \in Memory!Seam
          /\ \E q \in Mails :
               /\ Sender[q] # Sender[p]
               /\ d_place[q] # -1
               /\ LET c == IF Sender[p] = "client" THEN p ELSE q
                      s == IF Sender[p] = "client" THEN q ELSE p
                  IN /\ Memory!Crosses(c)
                     /\ d_place[s] < d_place[c] + Size[c] - Capacity
      BY DEF Memory!SpoiltAtTheSeam, Mails
    <2>1. p \in Mails /\ d_place[p] # -1 /\ \E c \in Cells(p) : Shared(p, c)
      BY DEF MemoryInv, Memory!TypeOK, Read, Mails
    <2>2. PICK c \in Cells(p), q \in Mails :
            /\ Sender[q] # Sender[p] /\ d_place[q] # -1 /\ c \in Cells(q)
      BY <2>1 DEF Shared
    <2> DEFINE a == IF Sender[p] = "client" THEN p ELSE q
               b == IF Sender[p] = "client" THEN q ELSE p
    <2>3. /\ Sender[a] = "client" /\ Sender[b] = "server"
          /\ Memory!Crosses(a)
          /\ d_place[b] < d_place[a] + Size[a] - Capacity
          /\ Memory!Start("server") + d_place[b] \in Memory!Seam
      BY <2>1, <2>2, SharedAtTheSeam
    <2>4. CASE Sender[p] = "client"
      BY <2>2, <2>3, <2>4
    <2>5. CASE Sender[p] # "client"
      BY <2>2, <2>3, <2>5
    <2> QED  BY <2>4, <2>5
  <1>3. Memory!OnlyServerLeavesMapping
    <2>1. ASSUME NEW p \in d_outside
          PROVE  Sender[p] = "server" /\ Memory!Crosses(p)
      <3>1. /\ p \in Mails /\ d_place[p] # -1
            /\ Memory!Start(Sender[p]) + d_place[p] + Size[p] - 1
                 \notin Memory!Mapped
        BY DEF MemoryInv, Memory!TypeOK, Outside, Mails
      <3>2. /\ d_place[p] \in 0 .. Capacity - 1 /\ Size[p] \in 1 .. Capacity
            /\ Capacity \in Nat \ {0} /\ Slack \in Nat
            /\ Sender[p] \in {"client", "server"}
        BY <3>1, MemoryTypes, MemoryConstants DEF Memory!Sides
      <3>3. CASE Sender[p] = "client"
        <4>1. d_place[p] + Size[p] - 1 \notin Memory!Mapped
          BY <3>1, <3>2, <3>3 DEF Memory!Start
        <4> QED  BY <3>2, <4>1 DEF Memory!Mapped
      <3>4. CASE Sender[p] = "server"
        <4>1. Capacity + d_place[p] + Size[p] - 1 \notin Memory!Mapped
          BY <3>1, <3>2, <3>4 DEF Memory!Start
        <4>2. d_place[p] + Size[p] > Capacity
          BY <3>2, <4>1 DEF Memory!Mapped
        <4> QED  BY <3>4, <4>2 DEF Memory!Crosses
      <3> QED  BY <3>2, <3>3, <3>4
    <2>2. d_outside \cap d_arrived = {}
      BY DEF MemoryInv, Read
    <2> QED  BY <2>1, <2>2 DEF Memory!OnlyServerLeavesMapping
  <1>4. Memory!UnreadIsIntact
    <2> SUFFICES ASSUME NEW d \in Memory!Sides, NEW i \in DOMAIN d_unread[d],
                        NEW p, p = d_unread[d][i], NEW k \in 0 .. Size[p] - 1,
                        NEW c \in Memory!Mapped \ Memory!Seam,
                        c = Memory!Start(d) + d_place[p] + k
                 PROVE  d_mem[c] = <<p, k>>
      BY SMTT(30) DEF Memory!UnreadIsIntact
    <2>1. i \in 1 .. Len(d_unread[d])
      BY MemoryTypes
    <2>2. /\ p \in Mails /\ d_place[p] \in 0 .. Capacity - 1
          /\ Sender[p] = d /\ Size[p] \in 1 .. Capacity
          /\ Memory!Start(d) \in Nat /\ Capacity \in Nat
      BY <2>1, MemoryTypes, MemoryConstants DEF MemoryInv, Queued
    <2>3. c \in Cells(p)
      BY <2>2 DEF Cells
    <2>4. ~Shared(p, c)
      BY <2>2, <2>3, SharedAtTheSeam DEF Shared
    <2> QED  BY <2>1, <2>4 DEF MemoryInv, Kept
  <1> QED
    BY <1>1, <1>2, <1>3, <1>4 DEF DirectionsStayApart,
                                  Memory!DirectionsStayApart

\* connection.hpp: whatever the sizes and the order of the packets, the two
\* directions disturb each other only where c_buf ends, what lies elsewhere
\* in a ring is as copied until it is read, and only packets of the server
\* reach past the mapping, which are then lost.
THEOREM RingsStayApart == PacketsSpec => []DirectionsStayApart
  <1>1. PacketsInit => MemoryInv
    BY MemoryInit DEF PacketsInit
  <1>2. MemoryInv /\ [PacketsNext]_allVars => MemoryInv'
    BY MemoryNext
  <1> QED  BY <1>1, <1>2, MemoryInvIsEnough, PTL DEF PacketsSpec

-----------------------------------------------------------------------------
(* The numbers of requests                                                 *)

\* The n-th request has number s: from 1 on, and from 1 again after the last.
Numbered(n, s) == \E lap \in Nat : n = lap * (2 * Half - 1) + s

\* While no two threads meet at the wrap, the threads in next_seq together do
\* not step over the end, and who resets the generator is alone there.
InOrder ==
  \/ /\ \A t \in Threads : i_pc[t] # "reset"
     /\ i_gen + Cardinality(Naming!Inside) < 2 * Half
  \/ /\ i_gen = 2 * Half - 1
     /\ \E t \in Threads : i_pc[t] = "reset" /\ Naming!Inside = {t}

NumbersAreTrue ==
  /\ Numbered(i_issued, i_gen)
  /\ \A p \in i_pending :
       /\ p.call <= i_issued
       /\ \E c \in Cmds, s \in 1 .. 2 * Half - 1 :
            p.id = Naming!PacketIdOf(c, s) /\ Numbered(p.call, s)
  /\ \A a \in i_answers :
       a.seq \in 1 .. 2 * Half - 1 /\ Numbered(a.call, a.seq)

NamingInv ==
  /\ Naming!TypeOK /\ Naming!AnswersOwnRequest
  /\ i_issued + Cardinality(Naming!Inside) <= MaxCalls
  /\ ~i_crowded => InOrder /\ NumbersAreTrue

\* The assumptions of the instance.
LEMMA NamingConstants ==
  /\ Half \in Nat /\ Half >= 2 /\ MaxCalls \in Nat
  /\ Cmds \subseteq Nat /\ IsFiniteSet(Threads)
  BY NamingAssumption
  DEF Naming!ConstantsOK, IsFiniteSet, Naming!IsFiniteSet

\* The instance counts as FiniteSets does.
LEMMA SameCardinality == \A S : Naming!Cardinality(S) = Cardinality(S)
  BY DEF Cardinality, Naming!Cardinality

-----------------------------------------------------------------------------

\* One of two sums of a multiple of Half and a rest gives the other's rest.
LEMMA SameRest ==
  ASSUME NEW j \in Int, NEW k \in Int,
         NEW r \in 0 .. Half - 1, NEW q \in 0 .. Half - 1,
         NEW x, x = j * Half + r, x = k * Half + q
  PROVE  r = q
  <1> DEFINE d == j - k
  <1>1. d \in Int /\ d * Half = q - r
    BY NamingConstants
  <1> HIDE DEF d
  <1>2. d >= 1 => d * Half >= Half
    BY <1>1, NamingConstants
  <1>3. d <= -1 => d * Half <= -Half
    BY <1>1, NamingConstants
  <1>4. d = 0
    BY <1>1, <1>2, <1>3, NamingConstants
  <1> QED  BY <1>1, <1>4, NamingConstants

\* packet_id keeps all of a number but its top bit.
LEMMA IdKeepsRest ==
  ASSUME NEW c \in Nat, NEW s \in 0 .. 2 * Half - 1
  PROVE  \E j \in Nat, h \in {0, 1}, r \in 0 .. Half - 1 :
           /\ Naming!PacketIdOf(c, s) = j * Half + r
           /\ s = h * Half + r
  <1> DEFINE h == s \div Half
             r == s % Half
             j == IF h = 1 /\ c % 2 = 0 THEN c + 1 ELSE c
  <1>1. /\ h \in Int /\ r \in 0 .. Half - 1 /\ s = Half * h + r
    BY NamingConstants
  <1>2. Naming!PacketIdOf(c, s) = j * Half + r
    BY DEF Naming!PacketIdOf
  <1>3. j \in Nat
    OBVIOUS
  <1> HIDE DEF h, r, j
  <1>4. h >= 2 => Half * h >= 2 * Half
    BY <1>1, NamingConstants
  <1>5. h <= -1 => Half * h <= -Half
    BY <1>1, NamingConstants
  <1>6. h \in {0, 1}
    BY <1>1, <1>4, <1>5, NamingConstants
  <1>7. s = h * Half + r
    BY <1>1, <1>6, NamingConstants
  <1> QED  BY <1>1, <1>2, <1>3, <1>6, <1>7

\* A packet id is a natural number.
LEMMA IdIsNat ==
  ASSUME NEW c \in Nat, NEW s \in 0 .. 2 * Half - 1
  PROVE  Naming!PacketIdOf(c, s) \in Nat
  <1>1. PICK j \in Nat, h \in {0, 1}, r \in 0 .. Half - 1 :
          Naming!PacketIdOf(c, s) = j * Half + r
    BY IdKeepsRest
  <1>2. j * Half \in Nat
    BY NamingConstants
  <1> QED  BY <1>1, <1>2, NamingConstants

\* Two requests of one id are the same, or far apart.
LEMMA SameIdIsFarApart ==
  ASSUME NEW c \in Nat, NEW s \in 1 .. 2 * Half - 1, NEW n \in Nat,
         NEW d \in Nat, NEW t \in 1 .. 2 * Half - 1, NEW m \in Nat,
         Numbered(n, s), Numbered(m, t),
         Naming!PacketIdOf(c, s) = Naming!PacketIdOf(d, t)
  PROVE  n = m \/ n - m >= Half - 1 \/ m - n >= Half - 1
  <1>1. s \in 0 .. 2 * Half - 1 /\ t \in 0 .. 2 * Half - 1
    BY NamingConstants
  <1>2. PICK j \in Nat, g \in {0, 1}, r \in 0 .. Half - 1 :
          Naming!PacketIdOf(c, s) = j * Half + r /\ s = g * Half + r
    BY <1>1, IdKeepsRest
  <1>3. PICK k \in Nat, h \in {0, 1}, q \in 0 .. Half - 1 :
          Naming!PacketIdOf(d, t) = k * Half + q /\ t = h * Half + q
    BY <1>1, IdKeepsRest
  <1>4. r = q
    <2> DEFINE x == Naming!PacketIdOf(c, s)
    <2>1. x = j * Half + r /\ x = k * Half + q
      BY <1>2, <1>3, Zenon
    <2>2. j \in Int /\ k \in Int
      OBVIOUS
    <2> HIDE DEF x
    <2>3. r \in 0 .. Half - 1 /\ q \in 0 .. Half - 1
      BY <1>2, <1>3
    <2> QED  BY <2>1, <2>2, <2>3, SameRest, ZenonT(60)
  <1>5. s - t \in {0, Half, -Half}
    BY <1>2, <1>3, <1>4, NamingConstants
  <1>6. PICK a \in Nat : n = a * (2 * Half - 1) + s
    BY DEF Numbered
  <1>7. PICK b \in Nat : m = b * (2 * Half - 1) + t
    BY DEF Numbered
  <1> DEFINE e == a - b
             M == 2 * Half - 1
  <1>8. e \in Int /\ n - m = e * M + (s - t) /\ M \in Nat /\ M = 2 * Half - 1
    BY <1>6, <1>7, NamingConstants
  <1> HIDE DEF e, M
  <1>9. /\ e >= 1 => e * M >= M
        /\ e <= -1 => e * M <= -M
        /\ e = 0 => e * M = 0
    BY <1>8, NamingConstants
  <1>10. e * M \in Int
    BY <1>8
  <1> QED  BY <1>5, <1>8, <1>9, <1>10, NamingConstants

\* The request after the n-th has the next number, or 1 after the last.
LEMMA NumberedNext ==
  ASSUME NEW n \in Nat, NEW s \in Nat, Numbered(n, s)
  PROVE  /\ Numbered(n + 1, s + 1)
         /\ s = 2 * Half - 1 => Numbered(n, 0)
  <1>1. PICK lap \in Nat : n = lap * (2 * Half - 1) + s
    BY DEF Numbered
  <1> DEFINE M == 2 * Half - 1
  <1>2. M \in Nat /\ lap * M \in Nat /\ (lap + 1) * M = lap * M + M
    BY NamingConstants
  <1>3. n + 1 = lap * M + (s + 1)
    BY <1>1, <1>2
  <1>4. s = M => n = (lap + 1) * M + 0
    BY <1>1, <1>2
  <1> QED  BY <1>3, <1>4 DEF Numbered

-----------------------------------------------------------------------------

\* The threads inside the generator are a finite set.
LEMMA InsideIsFinite ==
  /\ IsFiniteSet(Naming!Inside)
  /\ Cardinality(Naming!Inside) \in Nat
  /\ Cardinality(Naming!Inside) <= Cardinality(Threads)
  /\ Cardinality(Threads) \in Nat
  BY NamingConstants, FS_Subset, FS_CardinalityType DEF Naming!Inside

\* No number is given yet.
LEMMA NamingInit == PacketsInit => NamingInv
  <1> SUFFICES ASSUME PacketsInit PROVE NamingInv
    OBVIOUS
  <1> USE NamingConstants
  <1>1. Naming!Init
    BY DEF PacketsInit
  <1>2. Naming!Inside = {} /\ Cardinality(Naming!Inside) = 0
    BY <1>1, FS_EmptySet DEF Naming!Init, Naming!Inside
  <1>3. Naming!TypeOK /\ Naming!AnswersOwnRequest
    <2>1. 0 \in Naming!Seqs /\ 0 \in 0 .. MaxCalls
      BY DEF Naming!Seqs, Naming!Modulus
    <2> QED
      BY <1>1, <2>1 DEF Naming!Init, Naming!TypeOK, Naming!AnswersOwnRequest
  <1>4. InOrder
    BY <1>1, <1>2 DEF Naming!Init, InOrder
  <1>5. NumbersAreTrue
    <2>1. 0 = 0 * (2 * Half - 1) + 0
      OBVIOUS
    <2> QED  BY <1>1, <2>1 DEF Naming!Init, NumbersAreTrue, Numbered
  <1>6. i_issued + Cardinality(Naming!Inside) <= MaxCalls
    BY <1>1, <1>2 DEF Naming!Init
  <1> QED  BY <1>3, <1>4, <1>5, <1>6 DEF NamingInv

\* A thread that looks at the number.
LEMMA TestKeeps ==
  ASSUME NamingInv, NEW t \in Threads, NEW c \in Cmds, Naming!Test(t, c)
  PROVE  NamingInv'
  <1> USE NamingConstants
  <1>1. /\ i_pc[t] = "out" /\ i_issued + Cardinality(Naming!Inside) < MaxCalls
        /\ i_pc' = [i_pc EXCEPT ![t] = IF i_gen = 2 * Half - 1
                                         THEN "reset" ELSE "increment"]
        /\ i_cmd' = [i_cmd EXCEPT ![t] = c]
        /\ i_crowded' = (i_crowded \/ (Naming!Inside # {} /\ Naming!AtWrap))
        /\ UNCHANGED <<i_gen, i_issued, i_pending, i_answers, i_met>>
    BY SameCardinality DEF Naming!Test, Naming!Modulus
  <1>2. Naming!TypeOK'
    BY <1>1 DEF NamingInv, Naming!TypeOK
  <1>3. Naming!Inside' = Naming!Inside \cup {t} /\ t \notin Naming!Inside
    BY <1>1 DEF Naming!Inside, NamingInv, Naming!TypeOK
  <1>4. Cardinality(Naming!Inside)' = Cardinality(Naming!Inside) + 1
    BY <1>3, InsideIsFinite, FS_AddElement
  <1>5. i_issued \in Nat /\ i_gen \in 0 .. 2 * Half - 1
    BY DEF NamingInv, Naming!TypeOK, Naming!Seqs, Naming!Modulus
  <1>6. (i_issued + Cardinality(Naming!Inside) <= MaxCalls)'
    BY <1>1, <1>4, <1>5, InsideIsFinite
  <1>7. ASSUME ~i_crowded'
        PROVE  InOrder'
    <2>1. InOrder /\ ~(Naming!Inside # {} /\ Naming!AtWrap)
      BY <1>1, <1>7 DEF NamingInv
    <2>2. CASE Naming!AtWrap
      <3>1. Naming!Inside = {}
        BY <2>1, <2>2
      <3>2. Cardinality(Naming!Inside) = 0
        BY <3>1, FS_EmptySet
      <3>3. \A u \in Threads : i_pc[u] = "out"
        BY <3>1 DEF Naming!Inside
      <3>4. CASE i_gen = 2 * Half - 1
        <4>1. i_pc'[t] = "reset"
          BY <1>1, <3>4 DEF NamingInv, Naming!TypeOK
        <4> QED  BY <1>1, <1>3, <3>1, <3>4, <4>1 DEF InOrder
      <3>5. CASE i_gen # 2 * Half - 1
        <4>1. \A u \in Threads : i_pc'[u] # "reset"
          BY <1>1, <3>3, <3>5 DEF NamingInv, Naming!TypeOK
        <4>2. i_gen' + Cardinality(Naming!Inside)' < 2 * Half
          BY <1>1, <1>4, <1>5, <3>2, <3>5
        <4> QED  BY <4>1, <4>2 DEF InOrder
      <3> QED  BY <3>4, <3>5
    <2>3. CASE ~Naming!AtWrap
      <3>1. i_gen + Cardinality(Threads) < 2 * Half
        BY <1>5, <2>3, InsideIsFinite, SameCardinality
        DEF Naming!AtWrap, Naming!Modulus
      <3>2. Cardinality(Naming!Inside)' <= Cardinality(Threads)
        BY FS_Subset DEF Naming!Inside
      <3>3. Cardinality(Threads) \in Nat /\ Cardinality(Threads) > 0
        BY <1>4, <3>2, InsideIsFinite
      <3>4. i_gen' + Cardinality(Naming!Inside)' < 2 * Half
        BY <1>1, <1>4, <1>5, <3>1, <3>2, <3>3, InsideIsFinite
      <3>5. i_gen < 2 * Half - 1
        BY <1>5, <3>1, <3>3
      <3>6. \A u \in Threads : i_pc[u] # "reset"
        BY <1>5, <2>1, <3>5 DEF InOrder
      <3>7. \A u \in Threads : i_pc'[u] # "reset"
        BY <1>1, <1>5, <3>5, <3>6 DEF NamingInv, Naming!TypeOK
      <3> QED  BY <3>4, <3>7 DEF InOrder
    <2> QED  BY <2>2, <2>3
  <1>8. ~i_crowded' => NumbersAreTrue'
    BY <1>1 DEF NamingInv, NumbersAreTrue, Numbered
  <1>9. Naming!AnswersOwnRequest'
    BY <1>1 DEF NamingInv, Naming!AnswersOwnRequest
  <1> QED  BY <1>2, <1>6, <1>7, <1>8, <1>9 DEF NamingInv

\* A thread that sets the number back.
LEMMA ResetKeeps ==
  ASSUME NamingInv, NEW t \in Threads, Naming!Reset(t)
  PROVE  NamingInv'
  <1> USE NamingConstants
  <1>1. /\ i_pc[t] = "reset" /\ i_gen' = 0
        /\ i_pc' = [i_pc EXCEPT ![t] = "increment"]
        /\ UNCHANGED <<i_cmd, i_issued, i_pending, i_answers, i_met, i_crowded>>
    BY DEF Naming!Reset
  <1>2. Naming!TypeOK'
    BY <1>1 DEF NamingInv, Naming!TypeOK, Naming!Seqs, Naming!Modulus
  <1>3. Naming!Inside' = Naming!Inside /\ t \in Naming!Inside
    BY <1>1 DEF Naming!Inside, NamingInv, Naming!TypeOK
  <1>4. ASSUME ~i_crowded
        PROVE  InOrder' /\ NumbersAreTrue'
    <2>1. i_gen = 2 * Half - 1 /\ \E u \in Threads : Naming!Inside = {u}
      BY <1>1, <1>4 DEF NamingInv, InOrder
    <2>2. Naming!Inside = {t}
      BY <1>3, <2>1
    <2>3. Cardinality(Naming!Inside)' = 1
      <3>1. {t} = {} \cup {t}
        OBVIOUS
      <3> QED  BY <1>3, <2>2, <3>1, FS_EmptySet, FS_AddElement
    <2>4. \A u \in Threads : i_pc'[u] # "reset"
      <3>1. \A u \in Threads : u # t => i_pc[u] = "out"
        BY <2>2 DEF Naming!Inside
      <3> QED  BY <1>1, <3>1 DEF NamingInv, Naming!TypeOK
    <2>5. InOrder'
      BY <1>1, <2>3, <2>4 DEF InOrder
    <2>6. Numbered(i_issued, i_gen) /\ i_issued \in Nat /\ i_gen \in Nat
      BY <1>4 DEF NamingInv, NumbersAreTrue, Naming!TypeOK, Naming!Seqs,
                  Naming!Modulus
    <2>7. Numbered(i_issued, 0)
      BY <2>1, <2>6, NumberedNext
    <2>8. NumbersAreTrue'
      BY <1>1, <1>4, <2>7 DEF NamingInv, NumbersAreTrue, Numbered
    <2> QED  BY <2>5, <2>8
  <1>5. Naming!AnswersOwnRequest'
    BY <1>1 DEF NamingInv, Naming!AnswersOwnRequest
  <1> QED  BY <1>1, <1>2, <1>3, <1>4, <1>5 DEF NamingInv

\* What the increment gives in order is a number, and the next one.
LEMMA NextNumber ==
  ASSUME NamingInv, NEW t \in Threads, Naming!Increment(t), ~i_crowded
  PROVE  /\ i_gen' = i_gen + 1 /\ i_gen' \in 1 .. 2 * Half - 1
         /\ Numbered(i_issued', i_gen')
         /\ \A u \in Threads : i_pc[u] # "reset"
         /\ i_gen + Cardinality(Naming!Inside) < 2 * Half
  <1> USE NamingConstants
  <1>1. /\ i_pc[t] = "increment" /\ i_gen' = (i_gen + 1) % (2 * Half)
        /\ i_issued' = i_issued + 1
    BY DEF Naming!Increment, Naming!Incremented, Naming!Modulus
  <1>2. t \in Naming!Inside
    BY <1>1 DEF Naming!Inside
  <1>3. /\ \A u \in Threads : i_pc[u] # "reset"
        /\ i_gen + Cardinality(Naming!Inside) < 2 * Half
    BY <1>1, <1>2 DEF NamingInv, InOrder
  <1>4. Cardinality(Naming!Inside) >= 1
    BY <1>2, InsideIsFinite, FS_EmptySet
  <1>5. i_gen \in Nat /\ i_issued \in Nat /\ Numbered(i_issued, i_gen)
    BY DEF NamingInv, NumbersAreTrue, Naming!TypeOK, Naming!Seqs,
           Naming!Modulus
  <1>6. i_gen + 1 < 2 * Half
    BY <1>3, <1>4, <1>5, InsideIsFinite
  <1>7. i_gen' = i_gen + 1
    <2> DEFINE a == i_gen + 1
               M == 2 * Half
    <2>1. a \in Nat /\ M \in Nat /\ a < M
      BY <1>5, <1>6
    <2> HIDE DEF a, M
    <2>2. a % M = a
      BY <2>1
    <2> QED  BY <1>1, <2>2 DEF a, M
  <1> QED  BY <1>1, <1>3, <1>5, <1>6, <1>7, NumberedNext

\* A thread that takes the next number.
LEMMA IncrementKeeps ==
  ASSUME NamingInv, NEW t \in Threads, Naming!Increment(t)
  PROVE  NamingInv'
  <1> USE NamingConstants
  <1> DEFINE id == Naming!PacketIdOf(i_cmd[t], i_gen')
             new == [id |-> id, call |-> i_issued + 1]
             answer == [cmd |-> i_cmd[t], seq |-> i_gen', call |-> i_issued + 1]
  <1>1. /\ i_pc[t] = "increment" /\ i_gen' = (i_gen + 1) % (2 * Half)
        /\ i_pc' = [i_pc EXCEPT ![t] = "out"]
        /\ i_issued' = i_issued + 1
        /\ i_pending' = {p \in i_pending : p.id # id} \cup {new}
        /\ i_answers' = IF i_gen' = 0 THEN i_answers
                        ELSE i_answers \cup {answer}
        /\ UNCHANGED <<i_cmd, i_met, i_crowded>>
    BY DEF Naming!Increment, Naming!Incremented, Naming!Modulus,
           Naming!Awaiting
  <1>2. Naming!Inside' = Naming!Inside \ {t} /\ t \in Naming!Inside
    BY <1>1 DEF Naming!Inside, NamingInv, Naming!TypeOK
  <1>3. /\ Cardinality(Naming!Inside)' = Cardinality(Naming!Inside) - 1
        /\ Cardinality(Naming!Inside) \in Nat
        /\ Cardinality(Naming!Inside) >= 1
    BY <1>2, InsideIsFinite, FS_RemoveElement, FS_EmptySet
  <1>4. /\ i_issued \in Nat /\ i_gen \in 0 .. 2 * Half - 1
        /\ i_cmd[t] \in Cmds /\ i_cmd[t] \in Nat
    <2>1. i_cmd[t] \in Cmds
      BY DEF NamingInv, Naming!TypeOK
    <2>2. i_issued \in Nat /\ i_gen \in 0 .. 2 * Half - 1
      BY DEF NamingInv, Naming!TypeOK, Naming!Seqs, Naming!Modulus
    <2> QED  BY <2>1, <2>2
  <1>5. i_issued + 1 \in 1 .. MaxCalls
    BY <1>3, <1>4 DEF NamingInv
  <1>6. (i_issued + Cardinality(Naming!Inside) <= MaxCalls)'
    BY <1>1, <1>3, <1>4 DEF NamingInv
  <1>7. i_gen' \in 0 .. 2 * Half - 1
    <2> DEFINE a == i_gen + 1
               M == 2 * Half
    <2>1. a \in Nat /\ M \in Nat \ {0}
      BY <1>4
    <2> HIDE DEF a, M
    <2>2. a % M \in 0 .. M - 1
      BY <2>1
    <2> QED  BY <1>1, <2>2 DEF a, M
  <1>8. id \in Nat
    BY <1>4, <1>7, IdIsNat
  <1> HIDE DEF id
  <1>9. Naming!TypeOK'
    <2>1. i_gen' \in Naming!Seqs
      BY <1>7 DEF Naming!Seqs, Naming!Modulus
    <2>2. i_pending' \subseteq [id : Nat, call : 1 .. MaxCalls]
      BY <1>1, <1>5, <1>8 DEF NamingInv, Naming!TypeOK
    <2>3. i_answers' \subseteq
            [cmd : Cmds, seq : Naming!Seqs, call : 1 .. MaxCalls]
      BY <1>1, <1>4, <1>5, <2>1 DEF NamingInv, Naming!TypeOK
    <2>4. i_issued' \in 0 .. MaxCalls
      BY <1>1, <1>5
    <2>5. /\ i_pc' \in [Threads -> {"out", "reset", "increment"}]
          /\ i_cmd' \in [Threads -> Cmds] /\ i_crowded' \in BOOLEAN
          /\ i_met' \subseteq [call : 1 .. MaxCalls, answers : 1 .. MaxCalls]
      BY <1>1 DEF NamingInv, Naming!TypeOK
    <2> QED  BY <2>1, <2>2, <2>3, <2>4, <2>5 DEF Naming!TypeOK
  <1>10. ASSUME ~i_crowded'
         PROVE  InOrder' /\ NumbersAreTrue'
    <2>1. /\ i_gen' = i_gen + 1 /\ i_gen' \in 1 .. 2 * Half - 1
          /\ Numbered(i_issued', i_gen')
          /\ \A u \in Threads : i_pc[u] # "reset"
          /\ i_gen + Cardinality(Naming!Inside) < 2 * Half
      BY <1>1, <1>10, NextNumber
    <2>2. \A u \in Threads : i_pc'[u] # "reset"
      BY <1>1, <2>1 DEF NamingInv, Naming!TypeOK
    <2>3. i_gen' + Cardinality(Naming!Inside)' < 2 * Half
      BY <1>3, <1>4, <2>1
    <2>4. InOrder'
      BY <2>2, <2>3 DEF InOrder
    <2>5. NumbersAreTrue
      BY <1>1, <1>10 DEF NamingInv
    <2>6. ASSUME NEW p \in i_pending'
          PROVE  /\ p.call <= i_issued'
                 /\ \E c \in Cmds, s \in 1 .. 2 * Half - 1 :
                      p.id = Naming!PacketIdOf(c, s) /\ Numbered(p.call, s)
      <3>1. CASE p \in i_pending
        <4>1. p.call \in Nat
          BY <3>1 DEF NamingInv, Naming!TypeOK
        <4>2. p.call <= i_issued
          BY <2>5, <3>1 DEF NumbersAreTrue
        <4> QED
          BY <1>1, <1>4, <2>5, <3>1, <4>1, <4>2 DEF NumbersAreTrue
      <3>2. CASE p = new
        <4>1. p.id = id /\ p.call = i_issued'
          BY <1>1, <3>2
        <4> QED  BY <1>1, <1>4, <2>1, <4>1 DEF id
      <3> QED  BY <1>1, <2>6, <3>1, <3>2
    <2>7. ASSUME NEW a \in i_answers'
          PROVE  a.seq \in 1 .. 2 * Half - 1 /\ Numbered(a.call, a.seq)
      <3>1. CASE a \in i_answers
        BY <2>5, <3>1 DEF NumbersAreTrue
      <3>2. CASE a = answer
        <4>1. a.seq = i_gen' /\ a.call = i_issued'
          BY <1>1, <3>2
        <4> QED  BY <2>1, <4>1
      <3> QED  BY <1>1, <2>7, <3>1, <3>2
    <2> QED  BY <2>1, <2>4, <2>6, <2>7 DEF NumbersAreTrue, Numbered
  <1>11. Naming!AnswersOwnRequest'
    BY <1>1 DEF NamingInv, Naming!AnswersOwnRequest
  <1> QED  BY <1>6, <1>9, <1>10, <1>11 DEF NamingInv

\* A request that is answered.
LEMMA RespondKeeps ==
  ASSUME NamingInv, NEW a \in i_answers, Naming!Respond(a)
  PROVE  NamingInv'
  <1> USE NamingConstants
  <1> DEFINE found == {p \in i_pending :
                         p.id = Naming!PacketIdOf(a.cmd, a.seq)}
  <1>1. /\ i_answers' = i_answers \ {a} /\ i_pending' = i_pending \ found
        /\ i_met' = i_met \cup {[call |-> p.call, answers |-> a.call] :
                                  p \in found}
        /\ UNCHANGED <<i_gen, i_pc, i_cmd, i_issued, i_crowded>>
    BY DEF Naming!Respond
  <1>2. a.cmd \in Nat /\ a.call \in 1 .. MaxCalls
    BY DEF NamingInv, Naming!TypeOK
  <1>3. \A p \in found : p \in i_pending /\ p.call \in 1 .. MaxCalls
    BY DEF NamingInv, Naming!TypeOK
  <1>4. Naming!TypeOK'
    BY <1>1, <1>2, <1>3 DEF NamingInv, Naming!TypeOK
  <1>5. UNCHANGED Naming!Inside
    BY <1>1 DEF Naming!Inside
  <1>6. ~i_crowded' => InOrder' /\ NumbersAreTrue'
    BY <1>1, <1>5 DEF NamingInv, InOrder, NumbersAreTrue, Numbered
  <1>7. ASSUME ~i_crowded, NEW p \in found
        PROVE  \/ p.call = a.call
               \/ p.call - a.call >= Half - 1
               \/ a.call - p.call >= Half - 1
    <2>1. PICK c \in Cmds, s \in 1 .. 2 * Half - 1 :
            p.id = Naming!PacketIdOf(c, s) /\ Numbered(p.call, s)
      BY <1>3, <1>7 DEF NamingInv, NumbersAreTrue
    <2>2. a.seq \in 1 .. 2 * Half - 1 /\ Numbered(a.call, a.seq)
      BY <1>7 DEF NamingInv, NumbersAreTrue
    <2>3. c \in Nat /\ p.call \in Nat /\ a.call \in Nat
      BY <1>2, <1>3
    <2>4. Naming!PacketIdOf(c, s) = Naming!PacketIdOf(a.cmd, a.seq)
      BY <2>1
    <2> QED  BY <1>2, <2>1, <2>2, <2>3, <2>4, SameIdIsFarApart
  <1>8. Naming!AnswersOwnRequest'
    <2> SUFFICES ASSUME ~i_crowded, NEW m \in i_met'
                 PROVE  \/ m.call = m.answers
                        \/ m.call - m.answers >= Half - 1
                        \/ m.answers - m.call >= Half - 1
      BY <1>1 DEF Naming!AnswersOwnRequest
    <2>1. CASE m \in i_met
      BY <2>1 DEF NamingInv, Naming!AnswersOwnRequest
    <2>2. CASE m \notin i_met
      <3>1. PICK p \in found : m = [call |-> p.call, answers |-> a.call]
        BY <1>1, <2>2
      <3> HIDE DEF found
      <3>2. m.call = p.call /\ m.answers = a.call
        BY <3>1
      <3> QED  BY <1>7, <3>2
    <2> QED  BY <2>1, <2>2
  <1>9. (i_issued + Cardinality(Naming!Inside) <= MaxCalls)'
    BY <1>1, <1>5 DEF NamingInv
  <1> QED  BY <1>4, <1>6, <1>8, <1>9 DEF NamingInv

\* Every step keeps the invariant; those of the other parts do not matter.
LEMMA NamingNext == NamingInv /\ [PacketsNext]_allVars => NamingInv'
  <1> SUFFICES ASSUME NamingInv, [PacketsNext]_allVars PROVE NamingInv'
    OBVIOUS
  <1>1. ASSUME NEW p \in i_pending, Naming!TimeOut(p) PROVE NamingInv'
    <2>1. /\ i_pending' = i_pending \ {p}
          /\ UNCHANGED <<i_gen, i_pc, i_cmd, i_issued, i_answers, i_met,
                         i_crowded>>
      BY <1>1 DEF Naming!TimeOut
    <2>2. UNCHANGED Naming!Inside
      BY <2>1 DEF Naming!Inside
    <2>3. Naming!TypeOK' /\ Naming!AnswersOwnRequest'
      BY <2>1 DEF NamingInv, Naming!TypeOK, Naming!AnswersOwnRequest
    <2>4. ~i_crowded' => InOrder' /\ NumbersAreTrue'
      BY <2>1, <2>2 DEF NamingInv, InOrder, NumbersAreTrue, Numbered
    <2> QED  BY <2>1, <2>2, <2>3, <2>4 DEF NamingInv
  <1>2. CASE UNCHANGED namingVars
    <2>1. UNCHANGED <<i_gen, i_pc, i_cmd, i_issued, i_pending, i_answers,
                      i_met, i_crowded>>
      BY <1>2 DEF namingVars
    <2>2. UNCHANGED Naming!Inside
      BY <2>1 DEF Naming!Inside
    <2>3. Naming!TypeOK' /\ Naming!AnswersOwnRequest'
      BY <2>1 DEF NamingInv, Naming!TypeOK, Naming!AnswersOwnRequest
    <2>4. ~i_crowded' => InOrder' /\ NumbersAreTrue'
      BY <2>1, <2>2 DEF NamingInv, InOrder, NumbersAreTrue, Numbered
    <2> QED  BY <2>1, <2>2, <2>3, <2>4 DEF NamingInv
  <1> QED
    BY <1>1, <1>2, TestKeeps, ResetKeeps, IncrementKeeps, RespondKeeps
    DEF PacketsNext, allVars, Naming!Next, Naming!Build

\* A step that builds a request is an increment.
LEMMA IssuedByIncrement ==
  ASSUME [PacketsNext]_allVars, i_issued' # i_issued
  PROVE  \E t \in Threads : Naming!Increment(t)
  BY DEF PacketsNext, allVars, namingVars, Naming!Next, Naming!Build,
         Naming!Test, Naming!Reset, Naming!Respond, Naming!TimeOut

\* A request whose id is in use would be a lap behind.
LEMMA StoredBeside ==
  ASSUME NamingInv, [PacketsNext]_allVars, NEW p \in i_pending,
         i_issued' # i_issued, p \notin i_pending', ~i_crowded
  PROVE  i_issued' - p.call >= Half - 1
  <1> USE NamingConstants
  <1>1. PICK t \in Threads : Naming!Increment(t)
    BY IssuedByIncrement
  <1>2. i_gen' \in 1 .. 2 * Half - 1 /\ Numbered(i_issued', i_gen')
    BY <1>1, NextNumber
  <1>3. p.id = Naming!PacketIdOf(i_cmd[t], i_gen') /\ i_issued' = i_issued + 1
    BY <1>1 DEF Naming!Increment, Naming!Awaiting
  <1>4. /\ i_issued \in Nat /\ i_cmd[t] \in Nat /\ p.call \in Nat
        /\ p.call <= i_issued
    <2>1. i_cmd[t] \in Cmds
      BY DEF NamingInv, Naming!TypeOK
    <2>2. i_issued \in Nat /\ p.call \in Nat
      BY DEF NamingInv, Naming!TypeOK
    <2>3. p.call <= i_issued
      BY DEF NamingInv, NumbersAreTrue
    <2> QED  BY <2>1, <2>2, <2>3
  <1>5. PICK c \in Cmds, s \in 1 .. 2 * Half - 1 :
          p.id = Naming!PacketIdOf(c, s) /\ Numbered(p.call, s)
    BY DEF NamingInv, NumbersAreTrue
  <1>6. \/ i_issued' = p.call \/ i_issued' - p.call >= Half - 1
        \/ p.call - i_issued' >= Half - 1
    <2>1. i_issued' \in Nat /\ c \in Nat
      BY <1>3, <1>4
    <2>2. Naming!PacketIdOf(i_cmd[t], i_gen') = Naming!PacketIdOf(c, s)
      BY <1>3, <1>5
    <2> QED  BY <1>2, <1>4, <1>5, <2>1, <2>2, SameIdIsFarApart
  <1> QED  BY <1>3, <1>4, <1>6

\* packet.hpp, for any number of threads, commands and sequence numbers: what
\* runs the callback of another request, or takes its place in the map, is at
\* least 2^31 - 1 requests away, and no request has number 0, unless two
\* threads were in next_seq as the generator wrapped.
THEOREM RequestsAreNamedApart == PacketsSpec => RequestsAreToldApart
  <1>1. NamingInv => Naming!TypeOK /\ Naming!AnswersOwnRequest
    BY DEF NamingInv
  <1>2. ASSUME NamingInv, [PacketsNext]_allVars
        PROVE  [\A p \in i_pending :
                  (i_issued' # i_issued /\ p \notin i_pending' /\ ~i_crowded)
                    => i_issued' - p.call >= Half - 1]_namingVars
    BY <1>2, StoredBeside
  <1>3. ASSUME NamingInv, [PacketsNext]_allVars
        PROVE  [(i_issued' # i_issued /\ ~i_crowded) => i_gen' # 0]_namingVars
    <2> SUFFICES ASSUME i_issued' # i_issued, ~i_crowded PROVE i_gen' # 0
      OBVIOUS
    <2>1. PICK t \in Threads : Naming!Increment(t)
      BY <1>3, IssuedByIncrement
    <2> QED  BY <1>3, <2>1, NextNumber, NamingConstants
  <1> QED
    BY <1>1, <1>2, <1>3, NamingInit, NamingNext, PTL
    DEF PacketsSpec, RequestsAreToldApart, Naming!RequestsAreToldApart,
        Naming!StoredBesideOthers, Naming!NumbersAreNotZero, Naming!vars,
        namingVars

-----------------------------------------------------------------------------
(* Finite induction, in the forms the proofs below need                    *)

\* What holds of 0, and of the next of each, holds of all up to n.
LEMMA Upward ==
  ASSUME NEW n \in Nat, NEW S, 0 \in S,
         \A i \in 1 .. n : i - 1 \in S => i \in S
  PROVE  0 .. n \subseteq S
  <1> DEFINE F == (0 .. n) \ S
  <1> SUFFICES ASSUME F # {} PROVE FALSE
    OBVIOUS
  <1>1. F \subseteq Nat
    OBVIOUS
  <1>2. PICK f \in F : \A g \in F : <<g, f>> \notin OpToRel(<, Nat)
    <2> HIDE DEF F
    <2> QED  BY <1>1, NatLessThanWellFounded, WFMin
  <1>3. f \in 0 .. n /\ f \notin S /\ f # 0
    BY <1>2
  <1>4. f \in 1 .. n /\ f - 1 \in 0 .. n /\ f - 1 \in Nat /\ f - 1 < f
    BY <1>3
  <1>5. f - 1 \in F
    BY <1>3, <1>4
  <1>6. <<f - 1, f>> \in OpToRel(<, Nat)
    BY <1>4 DEF OpToRel
  <1> QED  BY <1>2, <1>5, <1>6

\* What holds of each number up to n of which all higher ones have it holds of
\* all up to n.
LEMMA Downward ==
  ASSUME NEW n \in Nat, NEW S,
         \A i \in 0 .. n : (\A j \in i + 1 .. n : j \in S) => i \in S
  PROVE  0 .. n \subseteq S
  <1> DEFINE T == {k \in 0 .. n : n - k .. n \subseteq S}
  <1>1. 0 \in T
    <2>1. \A j \in n + 1 .. n : j \in S
      OBVIOUS
    <2>2. n \in S /\ n - 0 .. n = {n}
      BY <2>1
    <2> QED  BY <2>2
  <1>2. ASSUME NEW k \in 1 .. n, k - 1 \in T
        PROVE  k \in T
    <2>1. n - (k - 1) .. n \subseteq S
      BY <1>2
    <2>2. n - k \in 0 .. n /\ (n - k) + 1 = n - (k - 1)
      OBVIOUS
    <2>3. n - k \in S
      BY <2>1, <2>2
    <2>4. n - k .. n = {n - k} \cup (n - (k - 1) .. n)
      OBVIOUS
    <2> QED  BY <2>1, <2>3, <2>4
  <1>3. n \in T
    <2> HIDE DEF T
    <2>1. 0 .. n \subseteq T
      BY <1>1, <1>2, Upward
    <2> QED  BY <2>1
  <1> QED  BY <1>3

\* A set of numbers up to n has a highest one.
LEMMA Highest ==
  ASSUME NEW n \in Nat, NEW T, T \subseteq 0 .. n, T # {}
  PROVE  \E m \in T : \A j \in T : j <= m
  <1> DEFINE D == {n - j : j \in T}
  <1>1. D \subseteq Nat /\ D # {}
    <2>1. \A j \in T : n - j \in Nat
      OBVIOUS
    <2>2. PICK j : j \in T
      OBVIOUS
    <2>3. n - j \in D
      BY <2>2
    <2> QED  BY <2>1, <2>3
  <1>2. PICK d \in D : \A e \in D : <<e, d>> \notin OpToRel(<, Nat)
    <2> HIDE DEF D
    <2> QED  BY <1>1, NatLessThanWellFounded, WFMin
  <1>3. PICK m \in T : d = n - m
    BY <1>2
  <1>4. ASSUME NEW j \in T, j > m  PROVE FALSE
    <2>1. n - j \in D /\ n - j < d /\ n - j \in Nat /\ d \in Nat
      BY <1>3, <1>4
    <2>2. <<n - j, d>> \in OpToRel(<, Nat)
      BY <2>1 DEF OpToRel
    <2> QED  BY <1>2, <2>1, <2>2
  <1>5. \A j \in T : j <= m
    <2> TAKE j \in T
    <2>1. ~(j > m)
      BY <1>4
    <2>2. j \in Int /\ m \in Int
      OBVIOUS
    <2> QED  BY <2>1, <2>2
  <1> QED  BY <1>5

\* A search upward: from each o it goes on at next[o], or ends with leaf[o].
Nexts(n) == [0 .. n -> 0 .. n]

IsSearch(f, n, D, next, leaf) ==
  /\ f \in [0 .. n -> D]
  /\ \A o \in 0 .. n : f[o] = IF next[o] > o THEN f[next[o]] ELSE leaf[o]

\* A function that is defined by looking further on exists: what a recursive
\* definition needs before it can be unfolded.
LEMMA SearchExists ==
  ASSUME NEW n \in Nat, NEW D, NEW leaf \in [0 .. n -> D], NEW next \in Nexts(n)
  PROVE  \E f : IsSearch(f, n, D, next, leaf)
  <1> USE DEF Nexts
  <1> DEFINE Search(k, f) ==
               \A o \in k .. n :
                 f[o] = IF next[o] > o THEN f[next[o]] ELSE leaf[o]
             S == {k \in 0 .. n : \E f \in [0 .. n -> D] : Search(k, f)}
  <1>1. ASSUME NEW k \in 0 .. n, \A j \in k + 1 .. n : j \in S
        PROVE  k \in S
    <2>1. \E f \in [0 .. n -> D] : Search(k + 1, f)
      <3>1. CASE k = n
        <4>1. Search(k + 1, leaf)
          BY <3>1
        <4> HIDE DEF Search
        <4> QED  BY <4>1
      <3>2. CASE k # n
        <4>1. k + 1 \in k + 1 .. n
          BY <3>2
        <4> HIDE DEF Search
        <4> QED  BY <1>1, <4>1
      <3> QED  BY <3>1, <3>2
    <2>2. PICK f \in [0 .. n -> D] : Search(k + 1, f)
      BY <2>1
    <2> DEFINE h == [f EXCEPT ![k] = IF next[k] > k THEN f[next[k]]
                                     ELSE leaf[k]]
    <2>3. h \in [0 .. n -> D]
      OBVIOUS
    <2>4. ASSUME NEW o \in k .. n
          PROVE  h[o] = IF next[o] > o THEN h[next[o]] ELSE leaf[o]
      <3>1. next[o] > o => next[o] # k
        OBVIOUS
      <3>2. next[o] > o => h[next[o]] = f[next[o]]
        BY <3>1
      <3>3. CASE o = k
        BY <3>2, <3>3
      <3>4. CASE o \in k + 1 .. n
        BY <2>2, <3>2, <3>4
      <3> QED  BY <3>3, <3>4
    <2>5. Search(k, h)
      BY <2>4
    <2> HIDE DEF h, Search
    <2> QED  BY <2>3, <2>5
  <1>2. \E f \in [0 .. n -> D] : Search(0, f)
    <2>1. 0 \in S
      <3> HIDE DEF S
      <3>1. 0 .. n \subseteq S
        BY <1>1, Downward
      <3> QED  BY <3>1
    <2> HIDE DEF Search
    <2> QED  BY <2>1
  <1> QED  BY <1>2 DEF IsSearch

-----------------------------------------------------------------------------
(* What encode_packet makes, and a stream of it                            *)

\* What the assumption on the constants says of the sets of Framing.
LEMMA CodingConstants ==
  /\ Values \in Nat /\ Values >= 1
  /\ Coding!Flag \in Coding!Bytes /\ Coding!Bytes \subseteq Nat
  /\ Ids \subseteq Coding!Bytes /\ Bodies \subseteq Seq(Coding!Bytes)
  /\ \A b \in Bodies : Len(b) \in Coding!Bytes
  /\ Runs \subseteq Seq(Coding!Bytes)
  /\ MaxBody \in Nat /\ MaxPackets \in Nat /\ MaxDamage \in Nat
  <1>1. Values \in Nat /\ Values >= 1
    BY CodingAssumption DEF Coding!ConstantsOK
  <1> QED
    BY <1>1, CodingAssumption
    DEF Coding!ConstantsOK, Coding!Flag, Coding!Bytes

\* A checksum is a byte.
LEMMA Crc8IsByte ==
  ASSUME NEW h, h[1] \in Coding!Bytes, h[2] \in Coding!Bytes,
         h[3] \in Coding!Bytes
  PROVE  Coding!Crc8(h) \in Coding!Bytes
  <1> DEFINE sum == h[1] + 2 * h[2] + 3 * h[3]
  <1>1. sum \in Nat
    <2>1. h[1] \in Nat /\ h[2] \in Nat /\ h[3] \in Nat
      BY CodingConstants
    <2> QED  BY <2>1
  <1> HIDE DEF sum
  <1>2. sum % Values \in 0 .. Values - 1
    BY <1>1, CodingConstants
  <1> QED  BY <1>2 DEF sum, Coding!Crc8, Coding!Bytes

\* Concatenation, place by place.
LEMMA Concat ==
  ASSUME NEW S, NEW s \in Seq(S), NEW t \in Seq(S)
  PROVE  /\ s \o t \in Seq(S)
         /\ Len(s) \in Nat /\ Len(t) \in Nat
         /\ Len(s \o t) = Len(s) + Len(t)
         /\ \A i \in 1 .. Len(s) : (s \o t)[i] = s[i]
         /\ \A j \in 1 .. Len(t) : (s \o t)[Len(s) + j] = t[j]
  <1>1. /\ s \o t \in Seq(S) /\ Len(s \o t) = Len(s) + Len(t)
        /\ Len(s) \in Nat /\ Len(t) \in Nat
    OBVIOUS
  <1>2. \A i \in 1 .. Len(s) : (s \o t)[i] = s[i]
    OBVIOUS
  <1>3. \A j \in 1 .. Len(t) : (s \o t)[Len(s) + j] = t[j]
    OBVIOUS
  <1> QED  BY <1>1, <1>2, <1>3

\* What an encoded packet looks like, byte by byte.
LEMMA EncodeFacts ==
  ASSUME NEW p \in Coding!Packets
  PROVE  /\ p.id \in Coding!Bytes /\ p.body \in Seq(Coding!Bytes)
         /\ Len(p.body) \in Nat /\ Len(p.body) \in Coding!Bytes
         /\ Coding!Encode(p) \in Seq(Coding!Bytes)
         /\ Len(Coding!Encode(p)) = 4 + Len(p.body)
         /\ Coding!Encode(p)[1] = Coding!Flag
         /\ Coding!Encode(p)[2] = p.id
         /\ Coding!Encode(p)[3] = Len(p.body)
         /\ Coding!Encode(p)[4] =
              Coding!Crc8(<<Coding!Flag, p.id, Len(p.body)>>)
         /\ \A j \in 1 .. Len(p.body) : Coding!Encode(p)[4 + j] = p.body[j]
  <1>1. /\ p.id \in Coding!Bytes /\ p.body \in Seq(Coding!Bytes)
        /\ Len(p.body) \in Nat /\ Len(p.body) \in Coding!Bytes
    BY CodingConstants DEF Coding!Packets
  <1> DEFINE h == <<Coding!Flag, p.id, Len(p.body)>>
             crc == Coding!Crc8(h)
             b == p.body
  <1>2. crc \in Coding!Bytes
    BY <1>1, CodingConstants, Crc8IsByte
  <1>3. Coding!Encode(p) = (h \o <<crc>>) \o b
    BY DEF Coding!Encode
  <1> DEFINE hc == h \o <<crc>>
             code == hc \o b
  <1>4. /\ h \in Seq(Coding!Bytes) /\ <<crc>> \in Seq(Coding!Bytes)
        /\ b \in Seq(Coding!Bytes)
    BY <1>1, <1>2, CodingConstants
  <1>5. /\ Len(h) = 3
        /\ h[1] = Coding!Flag /\ h[2] = p.id /\ h[3] = Len(b)
        /\ Len(<<crc>>) = 1 /\ <<crc>>[1] = crc
    OBVIOUS
  <1> HIDE DEF h, crc, b
  <1> DEFINE last == <<crc>>
  <1>6. last \in Seq(Coding!Bytes) /\ Len(last) = 1 /\ last[1] = crc
    BY <1>4, <1>5
  <1> HIDE DEF last
  <1>7. /\ hc \in Seq(Coding!Bytes)
        /\ Len(hc) = Len(h) + Len(last)
        /\ \A i \in 1 .. Len(h) : hc[i] = h[i]
        /\ \A i \in 1 .. Len(last) : hc[Len(h) + i] = last[i]
    <2>1. /\ h \in Seq(Coding!Bytes) /\ last \in Seq(Coding!Bytes)
          /\ hc = h \o last
      BY <1>4, <1>6 DEF last
    <2> QED  BY <2>1, Concat
  <1> HIDE DEF hc
  <1>8. Len(hc) = 4 /\ hc[4] = crc /\ \A i \in {1, 2, 3} : hc[i] = h[i]
    BY <1>5, <1>6, <1>7
  <1>9. /\ code \in Seq(Coding!Bytes)
        /\ Len(code) = Len(hc) + Len(b)
        /\ \A i \in 1 .. Len(hc) : code[i] = hc[i]
        /\ \A j \in 1 .. Len(b) : code[Len(hc) + j] = b[j]
    <2>1. hc \in Seq(Coding!Bytes)
      BY <1>7
    <2> QED  BY <1>4, <2>1, Concat
  <1>10. Coding!Encode(p) = code
    BY <1>3 DEF hc
  <1> HIDE DEF code
  <1>11. \A i \in {1, 2, 3, 4} : code[i] = hc[i]
    BY <1>8, <1>9
  <1>12. /\ code[1] = Coding!Flag /\ code[2] = p.id /\ code[3] = Len(b)
         /\ code[4] = crc /\ Len(code) = 4 + Len(b)
         /\ \A j \in 1 .. Len(b) : code[4 + j] = b[j]
    BY <1>5, <1>8, <1>9, <1>11
  <1> QED  BY <1>1, <1>9, <1>10, <1>12 DEF crc, h, b

\* EncodeAll is what it has to be at each packet in turn.
LEMMA EncodeAllIs ==
  ASSUME NEW ps \in Seq(Coding!Packets), NEW D,
         NEW g \in [0 .. Len(ps) -> D], g[0] = <<>>,
         \A i \in 1 .. Len(ps) : g[i] = g[i - 1] \o Coding!Encode(ps[i])
  PROVE  Coding!EncodeAll(ps) = g[Len(ps)]
  <1> DEFINE n == Len(ps)
             code == [i \in 1 .. n |-> Coding!Encode(ps[i])]
             First[i \in 0 .. Len(ps)] ==
               IF i = 0 THEN <<>> ELSE First[i - 1] \o Coding!Encode(ps[i])
             S == {i \in 0 .. n : First[i] = g[i]}
  <1> HIDE DEF First
  <1>1. n \in Nat /\ \A i \in 0 .. n : i = 0 \/ i \in 1 .. n
    OBVIOUS
  <1>2. g = [i \in 0 .. Len(ps) |->
               IF i = 0 THEN <<>> ELSE g[i - 1] \o Coding!Encode(ps[i])]
    BY <1>1
  <1>3. First = [i \in 0 .. Len(ps) |->
                   IF i = 0 THEN <<>>
                   ELSE First[i - 1] \o Coding!Encode(ps[i])]
    BY <1>2 DEF First
  <1>4. \A i \in 1 .. n : code[i] = Coding!Encode(ps[i])
    OBVIOUS
  <1> HIDE DEF code
  <1>5. /\ First[0] = <<>>
        /\ \A i \in 1 .. n : First[i] = First[i - 1] \o code[i]
    <2>1. 0 \in 0 .. n /\ \A i \in 1 .. n : i \in 0 .. n /\ i # 0
      BY <1>1
    <2> QED  BY <1>3, <1>4, <2>1
  <1>6. \A i \in 1 .. n : g[i] = g[i - 1] \o code[i]
    BY <1>4
  <1>7. 0 \in S
    BY <1>1, <1>5
  <1>8. ASSUME NEW i \in 1 .. n, i - 1 \in S  PROVE i \in S
    <2> HIDE DEF n
    <2>1. First[i - 1] = g[i - 1] /\ i \in 0 .. n
      BY <1>1, <1>8
    <2>2. First[i] = g[i]
      BY <1>5, <1>6, <2>1
    <2> QED  BY <2>1, <2>2
  <1>9. 0 .. n \subseteq S
    <2> HIDE DEF S, n
    <2> QED  BY <1>1, <1>7, <1>8, Upward
  <1>10. First[n] = g[n]
    BY <1>1, <1>9
  <1> QED  BY <1>10 DEF Coding!EncodeAll, First

\* The packets among the first i of ps that are not oversized, for each i.
Goods(good, ps) ==
  /\ good \in [0 .. Len(ps) -> Seq(Coding!Packets)]
  /\ good[0] = <<>>
  /\ \A i \in 1 .. Len(ps) :
       good[i] = IF Coding!Oversize(ps[i]) THEN good[i - 1]
                 ELSE Append(good[i - 1], ps[i])

\* Acceptable is what it has to be at each packet in turn.
LEMMA AcceptableIs ==
  ASSUME NEW ps \in Seq(Coding!Packets), NEW good, Goods(good, ps)
  PROVE  Coding!Acceptable(ps) = good[Len(ps)]
  <1> DEFINE n == Len(ps)
             First[i \in 0 .. Len(ps)] ==
               IF i = 0 THEN <<>>
               ELSE IF Coding!Oversize(ps[i]) THEN First[i - 1]
               ELSE Append(First[i - 1], ps[i])
             S == {i \in 0 .. n : First[i] = good[i]}
  <1> HIDE DEF First
  <1>1. n \in Nat /\ \A i \in 0 .. n : i = 0 \/ i \in 1 .. n
    OBVIOUS
  <1>2. good = [i \in 0 .. Len(ps) |->
                  IF i = 0 THEN <<>>
                  ELSE IF Coding!Oversize(ps[i]) THEN good[i - 1]
                  ELSE Append(good[i - 1], ps[i])]
    BY <1>1 DEF Goods
  <1>3. First = [i \in 0 .. Len(ps) |->
                   IF i = 0 THEN <<>>
                   ELSE IF Coding!Oversize(ps[i]) THEN First[i - 1]
                   ELSE Append(First[i - 1], ps[i])]
    BY <1>2 DEF First
  <1>4. /\ First[0] = <<>>
        /\ \A i \in 1 .. n :
             First[i] = IF Coding!Oversize(ps[i]) THEN First[i - 1]
                        ELSE Append(First[i - 1], ps[i])
    <2>1. 0 \in 0 .. n /\ \A i \in 1 .. n : i \in 0 .. n /\ i # 0
      BY <1>1
    <2> QED  BY <1>3, <2>1
  <1>5. 0 \in S
    BY <1>1, <1>4 DEF Goods
  <1>6. ASSUME NEW i \in 1 .. n, i - 1 \in S  PROVE i \in S
    <2>1. First[i - 1] = good[i - 1] /\ i \in 0 .. n
      BY <1>1, <1>6
    <2>2. First[i] = good[i]
      BY <1>4, <2>1 DEF Goods
    <2> QED  BY <2>1, <2>2
  <1>7. 0 .. n \subseteq S
    <2> HIDE DEF S, n
    <2> QED  BY <1>1, <1>5, <1>6, Upward
  <1>8. First[n] = good[n]
    BY <1>1, <1>7
  <1> QED  BY <1>8 DEF Coding!Acceptable, First

-----------------------------------------------------------------------------
(* What decode_packet does at an offset of the stream                      *)

Check(flag, id, len) == (flag + 2 * id + 3 * len) % Values

\* What is found at offset o: the header says how long the body is.
Found(s, o) ==
  [found |-> TRUE, consumed |-> o + (4 + s[o + 3]), id |-> s[o + 2],
   body |-> SubSeq(s, o + 5, o + (4 + s[o + 3]))]

\* One look at offset o, which decides or goes on as g does further on.
Look(g, s, o) ==
  IF o < Len(s) /\ s[o + 1] # Coding!Flag THEN g[o + 1]
  ELSE IF Len(s) - o < 4 THEN Coding!Nothing(o)
  ELSE IF s[o + 4] # Check(s[o + 1], s[o + 2], s[o + 3]) THEN g[o + 1]
  ELSE IF s[o + 3] > MaxBody THEN g[o + 4]
  ELSE IF Len(s) - o < 4 + s[o + 3] THEN Coding!Nothing(o)
  ELSE Found(s, o)

\* The rest of a sequence, place by place.
LEMMA Rest ==
  ASSUME NEW S, NEW s \in Seq(S), NEW o \in 0 .. Len(s)
  PROVE  /\ SubSeq(s, o + 1, Len(s)) \in Seq(S)
         /\ Len(s) \in Nat /\ Len(SubSeq(s, o + 1, Len(s))) = Len(s) - o
         /\ \A j \in 1 .. Len(s) - o :
              SubSeq(s, o + 1, Len(s))[j] = s[o + j]
  <1>1. Len(s) \in Nat
    OBVIOUS
  <1>2. \A j \in 1 .. Len(s) - o : o + j \in 1 .. Len(s) /\ s[o + j] \in S
    BY <1>1
  <1>3. /\ Len(SubSeq(s, o + 1, Len(s))) = Len(s) - o
        /\ \A j \in 1 .. Len(s) - o :
             SubSeq(s, o + 1, Len(s))[j] = s[o + j]
    BY <1>1, <1>2
  <1>4. SubSeq(s, o + 1, Len(s)) \in Seq(S)
    BY <1>1, <1>2
  <1> QED  BY <1>1, <1>3, <1>4

\* What the code reads in the rest of the buffer is what lies behind o.
LEMMA LookIsBody ==
  ASSUME NEW s \in Seq(Coding!Bytes), NEW o \in 0 .. Len(s), NEW g,
         NEW rest, rest = SubSeq(s, o + 1, Len(s))
  PROVE  Look(g, s, o) =
           IF rest # <<>> /\ rest[1] # Coding!Flag THEN g[o + 1]
           ELSE IF Len(rest) < Coding!HeaderLength THEN Coding!Nothing(o)
           ELSE IF rest[4] # Coding!Crc8(SubSeq(rest, 1, 3)) THEN g[o + 1]
           ELSE IF Coding!TooLong(rest) THEN g[o + Coding!HeaderLength]
           ELSE IF Len(rest) < Coding!PacketLength(rest) THEN Coding!Nothing(o)
           ELSE [found |-> TRUE, consumed |-> o + Coding!PacketLength(rest),
                 id |-> rest[2],
                 body |-> SubSeq(rest, Coding!HeaderLength + 1,
                                 Coding!PacketLength(rest))]
  <1>1. /\ rest \in Seq(Coding!Bytes) /\ Len(rest) = Len(s) - o
        /\ Len(s) \in Nat
        /\ \A j \in 1 .. Len(s) - o : rest[j] = s[o + j]
    BY Rest
  <1>2. rest # <<>> <=> o < Len(s)
    <2>1. rest # <<>> <=> Len(rest) # 0
      <3>1. rest \in Seq(Coding!Bytes)
        BY <1>1
      <3> QED  BY <3>1, EmptySeq
    <2>2. Len(rest) = Len(s) - o /\ Len(s) \in Nat
      BY <1>1
    <2> QED  BY <2>1, <2>2
  <1>3. o < Len(s) => rest[1] = s[o + 1]
    BY <1>1
  <1>4. CASE Len(s) - o < 4
    BY <1>1, <1>2, <1>3, <1>4
    DEF Look, Coding!HeaderLength
  <1>5. CASE ~(Len(s) - o < 4)
    <2>1. /\ rest[1] = s[o + 1] /\ rest[2] = s[o + 2]
          /\ rest[3] = s[o + 3] /\ rest[4] = s[o + 4]
      BY <1>1, <1>5
    <2>2. s[o + 3] \in Nat
      <3>1. o + 3 \in 1 .. Len(s)
        BY <1>1, <1>5
      <3>2. s[o + 3] \in Coding!Bytes
        BY <3>1
      <3> QED  BY <3>2, CodingConstants
    <2>3. Coding!Crc8(SubSeq(rest, 1, 3)) = Check(s[o + 1], s[o + 2], s[o + 3])
      <3> DEFINE h == SubSeq(rest, 1, 3)
      <3>1. h[1] = rest[1] /\ h[2] = rest[2] /\ h[3] = rest[3]
        BY <1>1, <1>5
      <3> QED  BY <2>1, <3>1 DEF Coding!Crc8, Check
    <2>4. /\ Coding!TooLong(rest) <=> s[o + 3] > MaxBody
          /\ Coding!PacketLength(rest) = 4 + s[o + 3]
          /\ Coding!HeaderLength = 4
      BY <2>1 DEF Coding!TooLong, Coding!PacketLength, Coding!HeaderLength
    <2>5. ASSUME ~(Len(s) - o < 4 + s[o + 3])
          PROVE  SubSeq(rest, 5, 4 + s[o + 3]) =
                   SubSeq(s, o + 5, o + (4 + s[o + 3]))
      <3> DEFINE m == s[o + 3]
      <3>1. m \in Nat /\ o + (4 + m) <= Len(s) /\ 4 + m <= Len(rest)
        BY <1>1, <2>2, <2>5
      <3> HIDE DEF m
      <3>2. \A j \in 1 .. m : rest[4 + j] = s[o + (4 + j)]
        BY <1>1, <3>1
      <3>3. SubSeq(rest, 5, 4 + m) = [j \in 1 .. m |-> rest[4 + j]]
        BY <1>1, <3>1
      <3>4. SubSeq(s, o + 5, o + (4 + m)) = [j \in 1 .. m |-> s[o + (4 + j)]]
        BY <1>1, <3>1
      <3> QED  BY <3>2, <3>3, <3>4 DEF m
    <2> HIDE DEF Coding!HeaderLength
    <2>6. Coding!HeaderLength + 1 = 5
      BY <2>4
    <2> QED
      BY <1>1, <1>2, <1>5, <2>1, <2>3, <2>4, <2>5, <2>6 DEF Look, Found
  <1> QED  BY <1>4, <1>5

\* Decode is the look at the start of a function that looks at every offset.
LEMMA DecodeLooks ==
  ASSUME NEW s \in Seq(Coding!Bytes)
  PROVE  \E f : /\ Coding!Decode(s) = f[0]
                /\ \A o \in 0 .. Len(s) : f[o] = Look(f, s, o)
  <1> DEFINE n == Len(s)
             goes(o) == \/ o < n /\ s[o + 1] # Coding!Flag
                        \/ /\ ~(n - o < 4)
                           /\ s[o + 4] # Check(s[o + 1], s[o + 2], s[o + 3])
             leaps(o) == ~goes(o) /\ ~(n - o < 4) /\ s[o + 3] > MaxBody
             ends(o) == IF \/ n - o < 4
                           \/ n - o < 4 + s[o + 3]
                        THEN Coding!Nothing(o) ELSE Found(s, o)
             next == [o \in 0 .. n |-> IF goes(o) THEN o + 1
                                       ELSE IF leaps(o) THEN o + 4 ELSE o]
             leaf == [o \in 0 .. n |-> ends(o)]
             D == {ends(o) : o \in 0 .. n}
             Valued(g, o) ==
               LET rest == SubSeq(s, o + 1, Len(s))
               IN IF rest # <<>> /\ rest[1] # Coding!Flag THEN g[o + 1]
                  ELSE IF Len(rest) < Coding!HeaderLength
                       THEN Coding!Nothing(o)
                  ELSE IF rest[4] # Coding!Crc8(SubSeq(rest, 1, 3))
                       THEN g[o + 1]
                  ELSE IF Coding!TooLong(rest)
                       THEN g[o + Coding!HeaderLength]
                  ELSE IF Len(rest) < Coding!PacketLength(rest)
                       THEN Coding!Nothing(o)
                  ELSE [found |-> TRUE,
                        consumed |-> o + Coding!PacketLength(rest),
                        id |-> rest[2],
                        body |-> SubSeq(rest, Coding!HeaderLength + 1,
                                        Coding!PacketLength(rest))]
             Scan[o \in 0 .. Len(s)] == Valued(Scan, o)
  <1> HIDE DEF Scan, Valued
  <1>1. \A g, o : o \in 0 .. n => Look(g, s, o) = Valued(g, o)
    <2> TAKE g, o
    <2> HAVE o \in 0 .. n
    <2> DEFINE rest == SubSeq(s, o + 1, Len(s))
    <2>1. rest = SubSeq(s, o + 1, Len(s))
      OBVIOUS
    <2> HIDE DEF rest
    <2> QED  BY <2>1, LookIsBody DEF Valued
  <1>2. n \in Nat
    OBVIOUS
  <1>3. leaf \in [0 .. n -> D]
    <2> HIDE DEF n
    <2>1. \A o \in 0 .. n : ends(o) \in D
      OBVIOUS
    <2> HIDE DEF D, ends
    <2> QED  BY <2>1
  <1>4. next \in Nexts(n)
    <2>1. ASSUME NEW o \in 0 .. n
          PROVE  (IF goes(o) THEN o + 1 ELSE IF leaps(o) THEN o + 4 ELSE o)
                   \in 0 .. n
      <3>1. goes(o) => o + 1 \in 0 .. n
        <4>1. goes(o) => o < n
          BY <1>2
        <4> HIDE DEF goes, n
        <4> QED  BY <1>2, <4>1
      <3>2. leaps(o) => o + 4 \in 0 .. n
        <4>1. leaps(o) => ~(n - o < 4)
          OBVIOUS
        <4> HIDE DEF leaps, n
        <4> QED  BY <1>2, <4>1
      <3> HIDE DEF goes, leaps, n
      <3> QED  BY <3>1, <3>2
    <2> HIDE DEF goes, leaps, n
    <2> QED  BY <2>1 DEF Nexts
  <1>5. PICK f : IsSearch(f, n, D, next, leaf)
    <2> HIDE DEF n, D, next, leaf
    <2> QED  BY <1>2, <1>3, <1>4, SearchExists
  <1>6. \A o \in 0 .. n : f[o] = Look(f, s, o)
    <2> TAKE o \in 0 .. n
    <2>1. /\ f[o] = IF next[o] > o THEN f[next[o]] ELSE leaf[o]
          /\ next[o] = IF goes(o) THEN o + 1
                       ELSE IF leaps(o) THEN o + 4 ELSE o
          /\ leaf[o] = ends(o)
      <3> HIDE DEF goes, leaps, ends, n
      <3> QED  BY <1>5 DEF IsSearch
    <2>2. /\ goes(o) => f[o] = f[o + 1]
          /\ leaps(o) => f[o] = f[o + 4]
          /\ ~goes(o) /\ ~leaps(o) => f[o] = ends(o)
      <3>1. o \in Int /\ (leaps(o) => ~goes(o))
        OBVIOUS
      <3> HIDE DEF goes, leaps, ends, n, next, leaf
      <3> QED  BY <2>1, <3>1
    <2> HIDE DEF next, leaf, D
    <2> QED  BY <2>2 DEF Look
  <1> HIDE DEF n, next, leaf, D, goes, leaps, ends
  <1>7. f = [o \in 0 .. Len(s) |-> Valued(f, o)]
    <2>1. f = [o \in 0 .. n |-> f[o]]
      BY <1>5 DEF IsSearch
    <2>2. \A o \in 0 .. n : f[o] = Valued(f, o)
      BY <1>1, <1>6
    <2> HIDE DEF Valued
    <2> QED  BY <2>1, <2>2 DEF n
  <1>8. Scan = [o \in 0 .. Len(s) |-> Valued(Scan, o)]
    <2>1. \E g : g = [o \in 0 .. Len(s) |-> Valued(g, o)]
      BY <1>7
    <2> QED  BY <2>1 DEF Scan
  <1>9. \A o \in 0 .. Len(s) : Scan[o] = Look(Scan, s, o)
    BY <1>1, <1>8 DEF n
  <1>10. Coding!Decode(s) = Scan[0]
    BY DEF Coding!Decode, Scan, Valued
  <1> QED  BY <1>9, <1>10

IsScan(f, s) == \A o \in 0 .. Len(s) : f[o] = Look(f, s, o)

\* What every answer is that is found from offset o on: of the right type,
\* within the stream, and less than the largest packet is left when nothing
\* was found.
Fine(d, s, o) ==
  /\ d.found \in BOOLEAN
  /\ d.consumed \in o .. Len(s)
  /\ d.found => /\ d.consumed > o
                /\ d.id \in Coding!Bytes /\ d.body \in Seq(Coding!Bytes)
  /\ ~d.found => Len(s) - d.consumed < 4 + MaxBody

\* To find nothing is a proper result where less than a packet is left.
LEMMA NothingIsFine ==
  ASSUME NEW s \in Seq(Coding!Bytes), NEW o \in 0 .. Len(s),
         Len(s) - o < 4 + MaxBody
  PROVE  Fine(Coding!Nothing(o), s, o)
  <1> DEFINE d == Coding!Nothing(o)
  <1>1. d.found = FALSE /\ d.consumed = o /\ o \in o .. Len(s)
    BY DEF Coding!Nothing
  <1> HIDE DEF d
  <1>2. Fine(d, s, o)
    BY <1>1 DEF Fine
  <1> QED  BY <1>2 DEF d

\* A packet that ends within the stream is a proper result.
LEMMA FoundIsFine ==
  ASSUME NEW s \in Seq(Coding!Bytes), NEW o \in 0 .. Len(s),
         o + 4 <= Len(s), o + (4 + s[o + 3]) <= Len(s)
  PROVE  Fine(Found(s, o), s, o)
  <1> DEFINE d == Found(s, o)
             m == s[o + 3]
             n == Len(s)
  <1> n \in Nat
    OBVIOUS
  <1>1. m \in Nat /\ s[o + 2] \in Coding!Bytes
    <2>1. o + 3 \in 1 .. n /\ o + 2 \in 1 .. n
      OBVIOUS
    <2>2. m \in Coding!Bytes /\ s[o + 2] \in Coding!Bytes
      BY <2>1
    <2> QED  BY <2>2, CodingConstants
  <1>2. o + (4 + m) \in o .. n /\ o + 5 \in 1 .. n + 1 /\ o + (4 + m) > o
    BY <1>1
  <1>3. SubSeq(s, o + 5, o + (4 + m)) \in Seq(Coding!Bytes)
    <2> HIDE DEF m
    <2>1. \A i \in o + 5 .. o + (4 + m) : s[i] \in Coding!Bytes
      BY <1>1, <1>2
    <2> QED  BY <1>1, <1>2, <2>1
  <1>4. /\ d.found = TRUE /\ d.consumed = o + (4 + m) /\ d.id = s[o + 2]
        /\ d.body = SubSeq(s, o + 5, o + (4 + m))
    BY DEF Found
  <1> HIDE DEF d, m
  <1>5. Fine(d, s, o)
    BY <1>1, <1>2, <1>3, <1>4 DEF Fine
  <1> QED  BY <1>5 DEF d

\* What is found further on is also found from here on.
LEMMA FineBefore ==
  ASSUME NEW s \in Seq(Coding!Bytes), NEW o \in 0 .. Len(s),
         NEW a \in 0 .. o, NEW d, Fine(d, s, o)
  PROVE  Fine(d, s, a)
  <1>1. d.consumed \in o .. Len(s) =>
          d.consumed \in a .. Len(s) /\ (d.consumed > o => d.consumed > a)
    OBVIOUS
  <1> QED  BY <1>1 DEF Fine

\* The scan gives a proper result from each offset on.
LEMMA ScanIsFine ==
  ASSUME NEW s \in Seq(Coding!Bytes), NEW f, IsScan(f, s)
  PROVE  \A o \in 0 .. Len(s) : Fine(f[o], s, o)
  <1> DEFINE n == Len(s)
             S == {o \in 0 .. n : Fine(f[o], s, o)}
  <1>1. n \in Nat /\ MaxBody \in Nat
    BY CodingConstants
  <1>2. ASSUME NEW o \in 0 .. n, \A j \in o + 1 .. n : j \in S
        PROVE  o \in S
    <2>1. f[o] = Look(f, s, o)
      BY DEF IsScan
    <2>2. ASSUME NEW a \in o + 1 .. n, f[o] = f[a]  PROVE o \in S
      <3>1. Fine(f[a], s, a) /\ a \in 0 .. n /\ o \in 0 .. a
        BY <1>2
      <3> QED  BY <2>2, <3>1, FineBefore
    <2>3. CASE o < n /\ s[o + 1] # Coding!Flag
      <3>1. f[o] = f[o + 1] /\ o + 1 \in o + 1 .. n
        BY <1>1, <2>1, <2>3 DEF Look
      <3> QED  BY <2>2, <3>1
    <2>4. CASE n - o < 4 /\ ~(o < n /\ s[o + 1] # Coding!Flag)
      <3>1. f[o] = Coding!Nothing(o)
        BY <2>1, <2>4 DEF Look
      <3>2. n - o < 4 + MaxBody
        BY <1>1, <2>4
      <3> QED  BY <3>1, <3>2, NothingIsFine
    <2>5. CASE ~(n - o < 4) /\ ~(o < n /\ s[o + 1] # Coding!Flag)
      <3>1. o + 4 \in o + 1 .. n /\ o + 1 \in o + 1 .. n
        BY <1>1, <2>5
      <3>2. s[o + 3] \in Nat
        <4>1. o + 3 \in 1 .. n
          BY <3>1
        <4>2. s[o + 3] \in Coding!Bytes
          BY <4>1
        <4> QED  BY <4>2, CodingConstants
      <3>3. \/ f[o] = f[o + 1]
            \/ f[o] = f[o + 4]
            \/ /\ f[o] = Coding!Nothing(o)
               /\ ~(s[o + 3] > MaxBody) /\ n - o < 4 + s[o + 3]
            \/ /\ f[o] = Found(s, o)
               /\ ~(n - o < 4 + s[o + 3])
        BY <2>1, <2>5 DEF Look
      <3>4. CASE f[o] = f[o + 1]
        BY <2>2, <3>1, <3>4
      <3>5. CASE f[o] = f[o + 4]
        BY <2>2, <3>1, <3>5
      <3>6. CASE /\ f[o] = Coding!Nothing(o)
                 /\ ~(s[o + 3] > MaxBody) /\ n - o < 4 + s[o + 3]
        <4>1. n - o < 4 + MaxBody
          BY <1>1, <3>2, <3>6
        <4> QED  BY <3>6, <4>1, NothingIsFine
      <3>7. CASE f[o] = Found(s, o) /\ ~(n - o < 4 + s[o + 3])
        <4>1. o + 4 <= n /\ o + (4 + s[o + 3]) <= n
          BY <1>1, <2>5, <3>2, <3>7
        <4> QED  BY <3>7, <4>1, FoundIsFine
      <3> QED  BY <3>3, <3>4, <3>5, <3>6, <3>7
    <2> QED  BY <2>3, <2>4, <2>5
  <1>3. 0 .. n \subseteq S
    <2> HIDE DEF n, S
    <2> QED  BY <1>1, <1>2, Downward
  <1> QED  BY <1>3

\* decode_packet gives a proper result whatever is in the stream.
LEMMA DecodeIsFine ==
  ASSUME NEW s \in Seq(Coding!Bytes)
  PROVE  Fine(Coding!Decode(s), s, 0)
  <1>1. PICK f : Coding!Decode(s) = f[0] /\ IsScan(f, s)
    BY DecodeLooks DEF IsScan
  <1>2. 0 \in 0 .. Len(s)
    OBVIOUS
  <1> QED  BY <1>1, <1>2, ScanIsFine

\* At the end there is nothing to be found.
LEMMA NothingAtTheEnd ==
  ASSUME NEW s \in Seq(Coding!Bytes), NEW f, IsScan(f, s)
  PROVE  ~f[Len(s)].found /\ f[Len(s)].consumed = Len(s)
  <1>1. Len(s) \in 0 .. Len(s) /\ ~(Len(s) < Len(s)) /\ Len(s) - Len(s) < 4
    OBVIOUS
  <1>2. f[Len(s)] = Look(f, s, Len(s))
    BY <1>1 DEF IsScan
  <1>3. f[Len(s)] = Coding!Nothing(Len(s))
    BY <1>1, <1>2 DEF Look
  <1> QED  BY <1>3 DEF Coding!Nothing

\* Where there is no flag the scan goes on to the end of the stretch.
LEMMA NoFlagIsSkipped ==
  ASSUME NEW s \in Seq(Coding!Bytes), NEW f, IsScan(f, s),
         NEW a \in 0 .. Len(s), NEW b \in a .. Len(s),
         \A i \in a + 1 .. b : s[i] # Coding!Flag
  PROVE  f[a] = f[b]
  <1> DEFINE n == Len(s)
             T == {i \in 0 .. b - a : f[a] = f[a + i]}
  <1>1. n \in Nat /\ b - a \in Nat
    OBVIOUS
  <1>2. 0 \in T
    BY <1>1
  <1>3. ASSUME NEW i \in 1 .. b - a, i - 1 \in T  PROVE i \in T
    <2> DEFINE o == a + (i - 1)
    <2>1. o \in 0 .. n /\ o + 1 = a + i /\ o < n /\ o + 1 \in a + 1 .. b
      BY <1>1
    <2>2. f[a] = f[o]
      BY <1>3
    <2> HIDE DEF o
    <2>3. f[o] = f[o + 1]
      BY <2>1 DEF IsScan, Look
    <2> QED  BY <2>1, <2>2, <2>3
  <1>4. 0 .. b - a \subseteq T
    <2> HIDE DEF T
    <2> QED  BY <1>1, <1>2, <1>3, Upward
  <1>5. b - a \in T /\ a + (b - a) = b
    BY <1>1, <1>4
  <1> QED  BY <1>5

-----------------------------------------------------------------------------
(* What becomes of a packet that lies whole at an offset of the stream     *)

\* Packet p lies behind offset o.
Holds(s, o, p) ==
  LET e == Coding!Encode(p)
  IN /\ o \in 0 .. Len(s) /\ o + Len(e) <= Len(s)
     /\ \A j \in 1 .. Len(e) : s[o + j] = e[j]

\* What lies in the stream where a packet is held.
LEMMA HoldsFacts ==
  ASSUME NEW s \in Seq(Coding!Bytes), NEW p \in Coding!Packets, NEW o,
         Holds(s, o, p)
  PROVE  /\ o \in Nat /\ Len(s) \in Nat /\ Len(p.body) \in Nat
         /\ o + (4 + Len(p.body)) <= Len(s)
         /\ s[o + 1] = Coding!Flag /\ s[o + 2] = p.id
         /\ s[o + 3] = Len(p.body)
         /\ s[o + 4] = Check(Coding!Flag, p.id, Len(p.body))
         /\ \A j \in 1 .. Len(p.body) : s[o + (4 + j)] = p.body[j]
  <1> DEFINE e == Coding!Encode(p)
             l == Len(p.body)
             n == Len(s)
             c == Check(Coding!Flag, p.id, l)
  <1>1. /\ l \in Nat /\ Len(e) = 4 + l
        /\ e[1] = Coding!Flag /\ e[2] = p.id /\ e[3] = l
        /\ \A j \in 1 .. l : e[4 + j] = p.body[j]
    BY EncodeFacts
  <1>2. e[4] = c
    <2>1. e[4] = Coding!Crc8(<<Coding!Flag, p.id, l>>)
      BY EncodeFacts
    <2> QED  BY <2>1 DEF Coding!Crc8, Check
  <1>3. /\ n \in Nat /\ o \in 0 .. n /\ o + Len(e) <= n
        /\ \A j \in 1 .. Len(e) : s[o + j] = e[j]
    BY DEF Holds
  <1> HIDE DEF e, l, n, c
  <1>4. /\ 1 \in 1 .. Len(e) /\ 2 \in 1 .. Len(e) /\ 3 \in 1 .. Len(e)
        /\ 4 \in 1 .. Len(e)
        /\ \A j \in 1 .. l : 4 + j \in 1 .. Len(e)
    BY <1>1, <1>3
  <1>5. /\ s[o + 1] = Coding!Flag /\ s[o + 2] = p.id
        /\ s[o + 3] = l /\ s[o + 4] = c
    BY <1>1, <1>2, <1>3, <1>4
  <1>6. \A j \in 1 .. l : s[o + (4 + j)] = p.body[j]
    BY <1>1, <1>3, <1>4
  <1>7. o \in Nat /\ o + (4 + l) <= n
    BY <1>1, <1>3
  <1> QED  BY <1>1, <1>3, <1>5, <1>6, <1>7 DEF l, c, n

\* A packet that is not oversized is found.
LEMMA PacketIsFound ==
  ASSUME NEW s \in Seq(Coding!Bytes), NEW f, IsScan(f, s),
         NEW p \in Coding!Packets, NEW o, Holds(s, o, p),
         ~Coding!Oversize(p)
  PROVE  /\ f[o].found
         /\ f[o].consumed = o + (4 + Len(p.body))
         /\ f[o].id = p.id
         /\ f[o].body = p.body
  <1> DEFINE l == Len(p.body)
             n == Len(s)
  <1>1. /\ o \in Nat /\ n \in Nat /\ l \in Nat /\ o + (4 + l) <= n
        /\ s[o + 1] = Coding!Flag /\ s[o + 2] = p.id /\ s[o + 3] = l
        /\ s[o + 4] = Check(Coding!Flag, p.id, l)
        /\ \A j \in 1 .. l : s[o + (4 + j)] = p.body[j]
    BY HoldsFacts
  <1>2. l <= MaxBody
    BY <1>1, CodingConstants DEF Coding!Oversize
  <1>3. f[o] = Look(f, s, o)
    <2>1. o \in 0 .. n
      <3> HIDE DEF l, n
      <3> QED  BY <1>1
    <2> QED  BY <2>1 DEF IsScan
  <1>4. f[o] = Found(s, o)
    <2> HIDE DEF l, n
    <2>1. /\ o \in Nat /\ n \in Nat /\ l \in Nat /\ o + (4 + l) <= n
          /\ MaxBody \in Nat
      BY <1>1, CodingConstants
    <2>2. ~(n - o < 4) /\ ~(n - o < 4 + l) /\ ~(l > MaxBody)
      BY <1>2, <2>1
    <2> QED  BY <1>1, <1>3, <2>2 DEF Look, n
  <1> DEFINE b == SubSeq(s, o + 5, o + (4 + l))
  <1>5. /\ f[o].found /\ f[o].consumed = o + (4 + l) /\ f[o].id = p.id
        /\ f[o].body = b
    <2> DEFINE d == Found(s, o)
    <2>1. /\ d.found = TRUE /\ d.consumed = o + (4 + s[o + 3])
          /\ d.id = s[o + 2] /\ d.body = SubSeq(s, o + 5, o + (4 + s[o + 3]))
      BY DEF Found
    <2>2. f[o] = d
      BY <1>4
    <2> HIDE DEF d, l
    <2> QED  BY <1>1, <2>1, <2>2
  <1>6. b = [j \in 1 .. l |-> s[o + (4 + j)]]
    <2>1. o \in Nat /\ n \in Nat /\ l \in Nat /\ o + (4 + l) <= n
      BY <1>1
    <2> HIDE DEF l
    <2> QED  BY <2>1
  <1>7. b = p.body
    <2>1. p.body \in Seq(Coding!Bytes)
      BY EncodeFacts
    <2>2. p.body = [j \in 1 .. l |-> p.body[j]]
      BY <2>1
    <2>3. \A j \in 1 .. l : s[o + (4 + j)] = p.body[j]
      BY <1>1
    <2> HIDE DEF b, l
    <2> QED  BY <1>6, <2>2, <2>3
  <1> HIDE DEF b
  <1> QED  BY <1>5, <1>7

\* A plain packet that is oversized is skipped: decoding goes on behind it.
LEMMA PacketIsSkipped ==
  ASSUME NEW s \in Seq(Coding!Bytes), NEW f, IsScan(f, s),
         NEW p \in Coding!Packets, NEW o, Holds(s, o, p),
         Coding!Plain(p), Coding!Oversize(p)
  PROVE  f[o] = f[o + (4 + Len(p.body))]
  <1> DEFINE l == Len(p.body)
             n == Len(s)
             end == o + (4 + l)
  <1>1. /\ o \in Nat /\ n \in Nat /\ l \in Nat /\ end <= n
        /\ s[o + 1] = Coding!Flag /\ s[o + 2] = p.id /\ s[o + 3] = l
        /\ s[o + 4] = Check(Coding!Flag, p.id, l)
    BY HoldsFacts
  <1>2. Len(Coding!Encode(p)) = 4 + l
    BY EncodeFacts
  <1> HIDE DEF n, l
  <1>3. o + 4 \in 0 .. n /\ end \in o + 4 .. n /\ o \in 0 .. n
    BY <1>1
  <1>4. ASSUME NEW i \in (o + 4) + 1 .. end  PROVE s[i] # Coding!Flag
    <2> DEFINE j == i - o
    <2>1. /\ j \in 2 .. Len(Coding!Encode(p)) /\ i = o + j
          /\ j \in 1 .. Len(Coding!Encode(p))
      BY <1>1, <1>2
    <2> HIDE DEF j
    <2>2. Coding!Encode(p)[j] # Coding!Flag
      BY <2>1 DEF Coding!Plain
    <2> QED  BY <2>1, <2>2 DEF Holds
  <1>5. f[o + 4] = f[end]
    <2> HIDE DEF end
    <2> QED  BY <1>3, <1>4, NoFlagIsSkipped DEF n
  <1>6. f[o] = Look(f, s, o) /\ ~(n - o < 4)
    BY <1>1, <1>3 DEF IsScan, n
  <1>7. l > MaxBody
    BY DEF Coding!Oversize, l
  <1>8. f[o] = f[o + 4]
    <2> HIDE DEF end
    <2> QED  BY <1>1, <1>6, <1>7 DEF Look, n
  <1> QED  BY <1>5, <1>8 DEF l

-----------------------------------------------------------------------------
(* The packets in the stream                                               *)

\* Of the packets ps, packet i ends at byte cut[i] of all that was sent.  The
\* first r bytes are consumed, the others are in the stream s, as they were
\* sent but for those in bad.
Streamed(s, ps, r, cut, bad) ==
  /\ cut \in [0 .. Len(ps) -> Nat] /\ cut[0] = 0
  /\ \A i \in 1 .. Len(ps) : cut[i] = cut[i - 1] + Len(Coding!Encode(ps[i]))
  /\ \A i, j \in 0 .. Len(ps) : i < j => cut[i] < cut[j]
  /\ r \in 0 .. cut[Len(ps)] /\ Len(s) = cut[Len(ps)] - r
  /\ bad \subseteq 1 .. cut[Len(ps)]
  /\ \A i \in 1 .. Len(ps) :
       \A j \in 1 .. Len(Coding!Encode(ps[i])) :
         (cut[i - 1] + j > r /\ cut[i - 1] + j \notin bad)
           => s[cut[i - 1] + j - r] = Coding!Encode(ps[i])[j]

\* The numbers in it, for whoever needs nothing else of it.
LEMMA StreamedFacts ==
  ASSUME NEW s \in Seq(Coding!Bytes), NEW ps \in Seq(Coding!Packets),
         NEW r, NEW cut, NEW bad, Streamed(s, ps, r, cut, bad)
  PROVE  /\ Len(ps) \in Nat /\ Len(s) \in Nat /\ r \in Nat
         /\ \A i \in 0 .. Len(ps) : cut[i] \in Nat /\ cut[i] <= cut[Len(ps)]
         /\ \A i, j \in 0 .. Len(ps) : i <= j => cut[i] <= cut[j]
         /\ \A i, j \in 0 .. Len(ps) : cut[i] < cut[j] => i < j
         /\ \A i \in 1 .. Len(ps) : ps[i] \in Coding!Packets
         /\ cut[Len(ps)] = r + Len(s)
         /\ \A x \in bad : x \in Nat /\ x >= 1 /\ x <= cut[Len(ps)]
  <1> DEFINE n == Len(ps)
  <1>1. /\ n \in Nat /\ Len(s) \in Nat
        /\ \A i \in 1 .. n : ps[i] \in Coding!Packets
    OBVIOUS
  <1>2. /\ cut \in [0 .. n -> Nat]
        /\ \A i, j \in 0 .. n : i < j => cut[i] < cut[j]
        /\ r \in 0 .. cut[n] /\ Len(s) = cut[n] - r
        /\ bad \subseteq 1 .. cut[n]
    BY DEF Streamed
  <1> HIDE DEF n
  <1>3. \A i \in 0 .. n : cut[i] \in Nat
    BY <1>2
  <1>4. \A i, j \in 0 .. n : i <= j => cut[i] <= cut[j]
    <2> TAKE i, j \in 0 .. n
    <2>1. i = j \/ i < j \/ i > j
      BY <1>1
    <2> QED  BY <1>2, <1>3, <2>1
  <1>5. \A i, j \in 0 .. n : cut[i] < cut[j] => i < j
    <2> TAKE i, j \in 0 .. n
    <2>1. ~(i < j) => j <= i
      BY <1>1
    <2> QED  BY <1>3, <1>4, <2>1
  <1>6. n \in 0 .. n /\ \A i \in 0 .. n : i <= n
    BY <1>1
  <1>7. \A i \in 0 .. n : cut[i] <= cut[n]
    BY <1>4, <1>6
  <1>8. cut[n] \in Nat
    BY <1>3, <1>6
  <1>9. r \in Nat /\ cut[n] = r + Len(s)
    BY <1>1, <1>2, <1>8
  <1>10. \A x \in bad : x \in Nat /\ x >= 1 /\ x <= cut[n]
    BY <1>2, <1>8
  <1> QED  BY <1>1, <1>3, <1>4, <1>5, <1>7, <1>9, <1>10 DEF n

\* Ends gives where the packets end.
LEMMA EndsAre ==
  ASSUME NEW ps \in Seq(Coding!Packets), NEW cut \in [0 .. Len(ps) -> Nat],
         cut[0] = 0,
         \A i \in 1 .. Len(ps) : cut[i] = cut[i - 1] + Len(Coding!Encode(ps[i]))
  PROVE  Coding!Ends(ps) = cut
  <1> DEFINE n == Len(ps)
             End[i \in 0 .. Len(ps)] ==
               IF i = 0 THEN 0 ELSE End[i - 1] + Len(Coding!Encode(ps[i]))
             S == {i \in 0 .. n : End[i] = cut[i]}
  <1> HIDE DEF End
  <1>1. n \in Nat /\ \A i \in 0 .. n : i = 0 \/ i \in 1 .. n
    OBVIOUS
  <1>2. cut = [i \in 0 .. Len(ps) |->
                 IF i = 0 THEN 0 ELSE cut[i - 1] + Len(Coding!Encode(ps[i]))]
    BY <1>1
  <1>3. End = [i \in 0 .. Len(ps) |->
                 IF i = 0 THEN 0 ELSE End[i - 1] + Len(Coding!Encode(ps[i]))]
    BY <1>2 DEF End
  <1>4. /\ End[0] = 0
        /\ \A i \in 1 .. n : End[i] = End[i - 1] + Len(Coding!Encode(ps[i]))
    <2>1. 0 \in 0 .. n /\ \A i \in 1 .. n : i \in 0 .. n /\ i # 0
      BY <1>1
    <2> QED  BY <1>3, <2>1
  <1>5. 0 \in S
    BY <1>1, <1>4
  <1>6. ASSUME NEW i \in 1 .. n, i - 1 \in S  PROVE i \in S
    <2>1. End[i - 1] = cut[i - 1] /\ i \in 0 .. n
      BY <1>1, <1>6
    <2>2. End[i] = cut[i]
      BY <1>4, <2>1
    <2> QED  BY <2>1, <2>2
  <1>7. 0 .. n \subseteq S
    <2> HIDE DEF S, n
    <2> QED  BY <1>1, <1>5, <1>6, Upward
  <1>8. End = cut
    <2>1. End = [i \in 0 .. n |-> End[i]]
      BY <1>3
    <2>2. cut = [i \in 0 .. n |-> cut[i]]
      OBVIOUS
    <2>3. \A i \in 0 .. n : End[i] = cut[i]
      BY <1>7
    <2> QED  BY <2>1, <2>2, <2>3
  <1> QED  BY <1>8 DEF Coding!Ends, End

\* Byte j of a packet of m bytes that starts behind byte c, when r are
\* consumed and n are in the stream: where it is there.
LEMMA Place ==
  ASSUME NEW c \in Nat, NEW m \in Nat, NEW r \in Nat, NEW n \in Nat,
         NEW j \in 1 .. m, c + j > r, c + m <= r + n
  PROVE  c + j - r \in 1 .. n
  OBVIOUS

\* A commit lays the packet behind the others.
LEMMA StreamedSend ==
  ASSUME NEW s \in Seq(Coding!Bytes), NEW ps \in Seq(Coding!Packets),
         NEW r, NEW cut, NEW bad, Streamed(s, ps, r, cut, bad),
         NEW p \in Coding!Packets
  PROVE  \E cut2 :
           /\ Streamed(s \o Coding!Encode(p), Append(ps, p), r, cut2, bad)
           /\ \A i \in 0 .. Len(ps) : cut2[i] = cut[i]
  <1> DEFINE n == Len(ps)
             e == Coding!Encode(p)
             qs == Append(ps, p)
             t == s \o e
             new == [i \in 0 .. n + 1 |->
                       IF i <= n THEN cut[i] ELSE cut[n] + Len(e)]
  <1>1. n \in Nat /\ e \in Seq(Coding!Bytes) /\ Len(e) \in Nat /\ Len(e) >= 1
    <2>1. e \in Seq(Coding!Bytes) /\ Len(e) = 4 + Len(p.body)
          /\ Len(p.body) \in Nat
      BY EncodeFacts
    <2> HIDE DEF e
    <2> QED  BY <2>1
  <1>2. /\ Len(qs) = n + 1 /\ qs[n + 1] = p
        /\ \A i \in 1 .. n : qs[i] = ps[i] /\ ps[i] \in Coding!Packets
    OBVIOUS
  <1>3. /\ cut \in [0 .. n -> Nat] /\ cut[0] = 0
        /\ \A i \in 1 .. n : cut[i] = cut[i - 1] + Len(Coding!Encode(ps[i]))
        /\ \A i, j \in 0 .. n : i < j => cut[i] < cut[j]
        /\ \A i \in 1 .. n : \A j \in 1 .. Len(Coding!Encode(ps[i])) :
             (cut[i - 1] + j > r /\ cut[i - 1] + j \notin bad)
               => s[cut[i - 1] + j - r] = Coding!Encode(ps[i])[j]
    BY DEF Streamed
  <1>4. /\ Len(t) = Len(s) + Len(e) /\ Len(s) \in Nat
        /\ \A j \in 1 .. Len(s) : t[j] = s[j]
        /\ \A j \in 1 .. Len(e) : t[Len(s) + j] = e[j]
    BY <1>1, Concat
  <1>5. /\ r \in Nat /\ cut[n] \in Nat /\ cut[n] = r + Len(s)
        /\ \A i \in 0 .. n : cut[i] \in Nat /\ cut[i] <= cut[n]
        /\ \A x \in bad : x \in Nat /\ x >= 1 /\ x <= cut[n]
    <2>1. n \in 0 .. n
      BY <1>1
    <2> QED  BY <2>1, StreamedFacts
  <1> HIDE DEF n, e, qs, t
  <1>6. /\ \A i \in 0 .. n : new[i] = cut[i]
        /\ new[n + 1] = cut[n] + Len(e)
        /\ new \in [0 .. n + 1 -> Nat]
    <2>1. /\ \A i \in 0 .. n : i \in 0 .. n + 1 /\ i <= n
          /\ n + 1 \in 0 .. n + 1 /\ ~(n + 1 <= n)
          /\ \A i \in 0 .. n + 1 : i <= n => i \in 0 .. n
      BY <1>1
    <2>2. cut[n] + Len(e) \in Nat
      BY <1>1, <1>5
    <2> QED  BY <1>5, <2>1, <2>2
  <1> HIDE DEF new
  <1>7. \A i \in 1 .. n + 1 :
          new[i] = new[i - 1] + Len(Coding!Encode(qs[i]))
    <2> TAKE i \in 1 .. n + 1
    <2>1. CASE i \in 1 .. n
      <3>1. i - 1 \in 0 .. n /\ i \in 0 .. n
        BY <1>1, <2>1
      <3> QED  BY <1>2, <1>3, <1>6, <2>1, <3>1
    <2>2. CASE i = n + 1
      <3>1. i - 1 = n /\ n \in 0 .. n
        BY <1>1, <2>2
      <3> QED  BY <1>2, <1>6, <2>2, <3>1 DEF e
    <2> QED  BY <1>1, <2>1, <2>2
  <1>8. \A i, j \in 0 .. n + 1 : i < j => new[i] < new[j]
    <2> TAKE i, j \in 0 .. n + 1
    <2> HAVE i < j
    <2>1. i \in 0 .. n
      BY <1>1
    <2>2. CASE j \in 0 .. n
      BY <1>3, <1>6, <2>1, <2>2
    <2>3. CASE j = n + 1
      BY <1>1, <1>5, <1>6, <2>1, <2>3
    <2> QED  BY <1>1, <2>2, <2>3
  <1>9. /\ r \in 0 .. new[n + 1] /\ Len(t) = new[n + 1] - r
        /\ bad \subseteq 1 .. new[n + 1] /\ new[0] = 0
    <2>1. 0 \in 0 .. n
      BY <1>1
    <2> QED  BY <1>1, <1>3, <1>4, <1>5, <1>6, <2>1
  <1>10. ASSUME NEW i \in 1 .. n + 1,
                NEW j \in 1 .. Len(Coding!Encode(qs[i])),
                new[i - 1] + j > r, new[i - 1] + j \notin bad
         PROVE  t[new[i - 1] + j - r] = Coding!Encode(qs[i])[j]
    <2>1. CASE i \in 1 .. n
      <3>1. i - 1 \in 0 .. n /\ i \in 0 .. n
        BY <1>1, <2>1
      <3>2. /\ new[i - 1] = cut[i - 1] /\ qs[i] = ps[i]
            /\ cut[i] = cut[i - 1] + Len(Coding!Encode(ps[i]))
            /\ cut[i - 1] \in Nat /\ cut[i] \in Nat /\ cut[i] <= cut[n]
        BY <1>2, <1>3, <1>5, <1>6, <2>1, <3>1
      <3>3. s[cut[i - 1] + j - r] = Coding!Encode(ps[i])[j]
        BY <1>3, <1>10, <2>1, <3>2
      <3> DEFINE a == cut[i - 1] + j - r
                 m == Len(Coding!Encode(ps[i]))
      <3>4. j \in 1 .. m
        BY <1>10, <3>2
      <3>5. a \in 1 .. Len(s)
        <4>1. m \in Nat
          BY <1>2, <2>1, EncodeFacts
        <4>2. cut[i - 1] + m <= r + Len(s) /\ cut[i - 1] + j > r
          BY <1>5, <1>10, <3>2
        <4> HIDE DEF m
        <4> QED  BY <1>4, <1>5, <3>2, <3>4, <4>1, <4>2, Place
      <3> HIDE DEF a
      <3> QED  BY <1>4, <3>2, <3>3, <3>5 DEF a
    <2>2. CASE i = n + 1
      <3>1. i - 1 = n /\ n \in 0 .. n
        BY <1>1, <2>2
      <3>2. new[i - 1] = cut[n] /\ qs[i] = p
        BY <1>2, <1>6, <2>2, <3>1
      <3>3. j \in 1 .. Len(e)
        BY <3>2 DEF e
      <3>4. new[i - 1] + j - r = Len(s) + j
        BY <1>1, <1>4, <1>5, <3>2, <3>3
      <3> QED  BY <1>4, <3>2, <3>3, <3>4 DEF e
    <2> QED  BY <1>1, <2>1, <2>2
  <1>11. Streamed(t, qs, r, new, bad)
    BY <1>2, <1>6, <1>7, <1>8, <1>9, <1>10 DEF Streamed
  <1> QED  BY <1>6, <1>11 DEF t, qs, e, n

\* What is consumed is no longer in the stream.
LEMMA StreamedConsume ==
  ASSUME NEW s \in Seq(Coding!Bytes), NEW ps \in Seq(Coding!Packets),
         NEW r, NEW cut, NEW bad, Streamed(s, ps, r, cut, bad),
         NEW d \in 0 .. Len(s)
  PROVE  Streamed(SubSeq(s, d + 1, Len(s)), ps, r + d, cut, bad)
  <1> DEFINE n == Len(ps)
             t == SubSeq(s, d + 1, Len(s))
  <1>1. /\ Len(t) = Len(s) - d /\ Len(s) \in Nat
        /\ \A j \in 1 .. Len(s) - d : t[j] = s[d + j]
    BY Rest
  <1>2. /\ r \in Nat /\ n \in Nat /\ cut[n] = r + Len(s)
        /\ \A i \in 0 .. n : cut[i] \in Nat /\ cut[i] <= cut[n]
        /\ \A i \in 1 .. n : ps[i] \in Coding!Packets
    BY StreamedFacts
  <1>3. /\ \A i \in 1 .. n : cut[i] = cut[i - 1] + Len(Coding!Encode(ps[i]))
        /\ \A i \in 1 .. n : \A j \in 1 .. Len(Coding!Encode(ps[i])) :
             (cut[i - 1] + j > r /\ cut[i - 1] + j \notin bad)
               => s[cut[i - 1] + j - r] = Coding!Encode(ps[i])[j]
    BY DEF Streamed
  <1> HIDE DEF n, t
  <1>4. r + d \in 0 .. cut[n] /\ Len(t) = cut[n] - (r + d)
    <2>1. cut[n] \in Nat
      BY <1>2
    <2> QED  BY <1>1, <1>2, <2>1
  <1>5. ASSUME NEW i \in 1 .. n,
               NEW j \in 1 .. Len(Coding!Encode(ps[i])),
               cut[i - 1] + j > r + d, cut[i - 1] + j \notin bad
        PROVE  t[cut[i - 1] + j - (r + d)] = Coding!Encode(ps[i])[j]
    <2> DEFINE m == Len(Coding!Encode(ps[i]))
               a == cut[i - 1] + j - (r + d)
    <2>1. /\ cut[i - 1] \in Nat /\ cut[i] \in Nat /\ cut[i] <= cut[n]
          /\ cut[i] = cut[i - 1] + m
      <3>1. i - 1 \in 0 .. n /\ i \in 0 .. n
        BY <1>2
      <3> QED  BY <1>2, <1>3, <3>1
    <2>2. m \in Nat
      BY <1>2, EncodeFacts
    <2>3. j \in 1 .. m
      OBVIOUS
    <2>4. s[cut[i - 1] + j - r] = Coding!Encode(ps[i])[j]
      <3>1. cut[i - 1] + j > r
        BY <1>2, <1>5, <2>1, SMTT(30), ZenonT(60)
      <3> QED  BY <1>3, <1>5, <3>1
    <2>5. a \in 1 .. Len(s) - d /\ d + a = cut[i - 1] + j - r
      <3>1. cut[i - 1] + m <= (r + d) + (Len(s) - d) /\ cut[n] \in Nat
        BY <1>1, <1>2, <2>1
      <3>2. r + d \in Nat /\ Len(s) - d \in Nat
        BY <1>1, <1>2
      <3>3. cut[i - 1] + j > r + d
        BY <1>5
      <3> HIDE DEF m
      <3>4. cut[i - 1] + j - (r + d) \in 1 .. Len(s) - d
        BY <2>1, <2>2, <2>3, <3>1, <3>2, <3>3, Place
      <3>5. j \in Int
        BY <2>2, <2>3
      <3> DEFINE x == cut[i - 1]
      <3>6. x \in Int /\ r \in Int /\ d \in Int
        BY <1>1, <1>2, <2>1
      <3> HIDE DEF x
      <3>7. d + (x + j - (r + d)) = x + j - r
        BY <3>5, <3>6
      <3> QED  BY <3>4, <3>7 DEF x
    <2> HIDE DEF a
    <2> QED  BY <1>1, <2>4, <2>5 DEF a
  <1>6. Streamed(t, ps, r + d, cut, bad)
    BY <1>4, <1>5 DEF Streamed, n
  <1> QED  BY <1>6 DEF t

\* What is copied over the stream: the bytes it hits are bad.
LEMMA StreamedDamage ==
  ASSUME NEW s \in Seq(Coding!Bytes), NEW ps \in Seq(Coding!Packets),
         NEW r, NEW cut, NEW bad, Streamed(s, ps, r, cut, bad),
         NEW hit \in SUBSET (1 .. Len(s)), NEW t \in Seq(Coding!Bytes),
         Len(t) = Len(s), \A j \in 1 .. Len(s) : j \notin hit => t[j] = s[j]
  PROVE  Streamed(t, ps, r, cut, bad \cup {r + j : j \in hit})
  <1> DEFINE n == Len(ps)
             more == {r + j : j \in hit}
  <1>1. /\ r \in Nat /\ n \in Nat /\ cut[n] = r + Len(s) /\ Len(s) \in Nat
        /\ \A i \in 0 .. n : cut[i] \in Nat /\ cut[i] <= cut[n]
        /\ \A i \in 1 .. n : ps[i] \in Coding!Packets
    BY StreamedFacts
  <1>2. /\ \A i \in 1 .. n : cut[i] = cut[i - 1] + Len(Coding!Encode(ps[i]))
        /\ \A i \in 1 .. n : \A j \in 1 .. Len(Coding!Encode(ps[i])) :
             (cut[i - 1] + j > r /\ cut[i - 1] + j \notin bad)
               => s[cut[i - 1] + j - r] = Coding!Encode(ps[i])[j]
        /\ bad \subseteq 1 .. cut[n] /\ Len(s) = cut[n] - r
    BY DEF Streamed
  <1>3. more \subseteq 1 .. cut[n]
    BY <1>1
  <1>4. bad \cup more \subseteq 1 .. cut[n]
    <2> HIDE DEF more
    <2> QED  BY <1>2, <1>3
  <1>5. ASSUME NEW i \in 1 .. n,
               NEW j \in 1 .. Len(Coding!Encode(ps[i])),
               cut[i - 1] + j > r, cut[i - 1] + j \notin bad \cup more
        PROVE  t[cut[i - 1] + j - r] = Coding!Encode(ps[i])[j]
    <2> DEFINE m == Len(Coding!Encode(ps[i]))
               a == cut[i - 1] + j - r
    <2>1. /\ cut[i - 1] \in Nat /\ cut[i] \in Nat /\ cut[i] <= cut[n]
          /\ cut[i] = cut[i - 1] + m
      <3>1. i - 1 \in 0 .. n /\ i \in 0 .. n
        BY <1>1
      <3> QED  BY <1>1, <1>2, <3>1
    <2>2. m \in Nat
      BY <1>1, EncodeFacts
    <2>3. j \in 1 .. m
      OBVIOUS
    <2>4. s[a] = Coding!Encode(ps[i])[j]
      BY <1>2, <1>5
    <2>5. a \in 1 .. Len(s) /\ r + a = cut[i - 1] + j
      <3>1. cut[i - 1] + m <= r + Len(s)
        BY <1>1, <2>1
      <3>2. cut[i - 1] + j > r
        BY <1>5
      <3> HIDE DEF m
      <3>3. cut[i - 1] + j - r \in 1 .. Len(s)
        BY <1>1, <2>1, <2>2, <2>3, <3>1, <3>2, Place
      <3>4. j \in Int
        BY <2>2, <2>3
      <3> QED  BY <1>1, <2>1, <3>3, <3>4
    <2> HIDE DEF a
    <2>6. a \notin hit
      BY <1>5, <2>5
    <2>7. t[a] = Coding!Encode(ps[i])[j]
      BY <2>4, <2>5, <2>6
    <2> QED  BY <2>7 DEF a
  <1> HIDE DEF n, more
  <1>6. Streamed(t, ps, r, cut, bad \cup more)
    BY <1>2, <1>4, <1>5 DEF Streamed, n
  <1> QED  BY <1>6 DEF more

\* A packet that is not yet looked at and not hit lies whole in the stream.
LEMMA StreamedHolds ==
  ASSUME NEW s \in Seq(Coding!Bytes), NEW ps \in Seq(Coding!Packets),
         NEW r, NEW cut, NEW bad, Streamed(s, ps, r, cut, bad),
         NEW i \in 1 .. Len(ps), r <= cut[i - 1],
         \A x \in bad : x <= cut[i - 1] \/ cut[i] < x
  PROVE  /\ Holds(s, cut[i - 1] - r, ps[i])
         /\ (cut[i - 1] - r) + (4 + Len(ps[i].body)) = cut[i] - r
  <1> DEFINE n == Len(ps)
             e == Coding!Encode(ps[i])
             o == cut[i - 1] - r
  <1>1. /\ r \in Nat /\ n \in Nat /\ cut[n] = r + Len(s) /\ Len(s) \in Nat
        /\ \A h \in 0 .. n : cut[h] \in Nat /\ cut[h] <= cut[n]
        /\ ps[i] \in Coding!Packets
    BY StreamedFacts
  <1>2. /\ cut[i - 1] \in Nat /\ cut[i] \in Nat /\ cut[i] <= cut[n]
        /\ cut[i] = cut[i - 1] + Len(e)
        /\ \A j \in 1 .. Len(e) :
             (cut[i - 1] + j > r /\ cut[i - 1] + j \notin bad)
               => s[cut[i - 1] + j - r] = e[j]
    <2>1. i - 1 \in 0 .. n /\ i \in 0 .. n
      BY <1>1
    <2> QED  BY <1>1, <2>1 DEF Streamed
  <1>3. Len(e) = 4 + Len(ps[i].body) /\ Len(ps[i].body) \in Nat
    BY <1>1, EncodeFacts
  <1> HIDE DEF e, n
  <1>4. Len(e) \in Nat
    BY <1>3
  <1>5. \A x \in bad : x \in Nat
    BY StreamedFacts
  <1>6. ASSUME NEW j \in 1 .. Len(e)  PROVE s[o + j] = e[j]
    <2>1. cut[i - 1] + j > r /\ cut[i - 1] + j - r = o + j
      BY <1>1, <1>2, <1>4, SMTT(30), ZenonT(60)
    <2>2. cut[i - 1] + j \notin bad
      <3>1. ~(cut[i - 1] + j <= cut[i - 1]) /\ ~(cut[i] < cut[i - 1] + j)
        BY <1>2, <1>4
      <3> QED  BY <3>1
    <2> QED  BY <1>2, <2>1, <2>2
  <1>7. o \in 0 .. Len(s) /\ o + Len(e) <= Len(s)
    BY <1>1, <1>2, <1>4, SMTT(30), ZenonT(60)
  <1>8. Holds(s, o, ps[i])
    <2> HIDE DEF o
    <2> QED  BY <1>6, <1>7 DEF Holds, e
  <1>9. o + (4 + Len(ps[i].body)) = cut[i] - r
    BY <1>1, <1>2, <1>3, SMTT(30), ZenonT(60)
  <1> QED  BY <1>8, <1>9

-----------------------------------------------------------------------------
(* The scan over packets that are plain                                    *)

\* Over packets that are not hit the scan comes to the next one that is not
\* oversized, or to the end of those that are known to be whole.
LEMMA Onward ==
  ASSUME NEW s \in Seq(Coding!Bytes), NEW ps \in Seq(Coding!Packets),
         NEW r, NEW cut, NEW bad, Streamed(s, ps, r, cut, bad),
         NEW f, IsScan(f, s), NEW good, Goods(good, ps),
         \A i \in 1 .. Len(ps) : Coding!Plain(ps[i]),
         NEW a \in 0 .. Len(ps), NEW b \in a .. Len(ps), r <= cut[a],
         \A x \in bad : x <= cut[a] \/ cut[b] < x
  PROVE  \E i \in a .. b :
           /\ \A j \in a .. i : good[j] = good[a]
           /\ f[cut[a] - r] = f[cut[i] - r]
           /\ \/ i = b
              \/ /\ i < b /\ ~Coding!Oversize(ps[i + 1])
                 /\ f[cut[a] - r].found
                 /\ f[cut[a] - r].consumed = cut[i + 1] - r
                 /\ f[cut[a] - r].id = ps[i + 1].id
                 /\ f[cut[a] - r].body = ps[i + 1].body
  <1> DEFINE n == Len(ps)
             start == f[cut[a] - r]
             T == {i \in 0 .. n : /\ i \in a .. b
                                  /\ \A j \in a .. i : good[j] = good[a]
                                  /\ start = f[cut[i] - r]}
  <1>1. /\ n \in Nat /\ \A i \in 1 .. n : ps[i] \in Coding!Packets
        /\ \A i \in 0 .. n : cut[i] \in Nat
        /\ \A i, j \in 0 .. n : i <= j => cut[i] <= cut[j]
        /\ r \in Nat
        /\ \A x \in bad : x \in Nat
    BY StreamedFacts
  <1>2. \A i \in 1 .. n :
          good[i] = IF Coding!Oversize(ps[i]) THEN good[i - 1]
                    ELSE Append(good[i - 1], ps[i])
    BY DEF Goods
  <1> HIDE DEF n
  <1>3. a \in T
    <2>1. a \in a .. b /\ \A j \in a .. a : j = a
      BY <1>1 DEF n
    <2> HIDE DEF start
    <2> QED  BY <2>1 DEF start, n
  <1>4. PICK i \in T : \A j \in T : j <= i
    <2>1. T \subseteq 0 .. n /\ T # {}
      BY <1>3
    <2> HIDE DEF T
    <2> QED  BY <1>1, <2>1, Highest
  <1>5. /\ i \in 0 .. n /\ i \in a .. b /\ start = f[cut[i] - r]
        /\ \A j \in a .. i : good[j] = good[a]
    BY <1>4
  <1> HIDE DEF start, T
  <1>6. CASE i = b
    BY <1>5, <1>6 DEF start
  <1>7. CASE i # b
    <2> DEFINE m == i + 1
               p == ps[m]
               o == cut[i] - r
    <2>1. /\ m \in 1 .. n /\ m - 1 = i /\ m \in 0 .. n /\ m \in a .. b /\ i < b
          /\ a <= i /\ m <= b /\ a \in 0 .. n /\ b \in 0 .. n
      BY <1>1, <1>5, <1>7 DEF n
    <2>2. p \in Coding!Packets /\ Coding!Plain(p)
      BY <1>1, <2>1 DEF n
    <2>3. Holds(s, o, p) /\ o + (4 + Len(p.body)) = cut[m] - r
      <3>1. /\ cut[a] <= cut[i] /\ cut[m] <= cut[b]
            /\ cut[a] \in Nat /\ cut[i] \in Nat /\ cut[m] \in Nat
            /\ cut[b] \in Nat
        BY <1>1, <1>5, <2>1
      <3>2. r <= cut[m - 1]
        BY <1>1, <2>1, <3>1
      <3>3. \A x \in bad : x <= cut[m - 1] \/ cut[m] < x
        BY <1>1, <2>1, <3>1, SMTT(30), ZenonT(60)
      <3>4. m \in 1 .. Len(ps)
        BY <2>1 DEF n
      <3> HIDE DEF m
      <3>5. Holds(s, cut[m - 1] - r, ps[m])
            /\ (cut[m - 1] - r) + (4 + Len(ps[m].body)) = cut[m] - r
        BY <3>2, <3>3, <3>4, StreamedHolds
      <3> QED  BY <2>1, <3>5
    <2>4. good[m] = IF Coding!Oversize(p) THEN good[i]
                    ELSE Append(good[i], p)
      BY <1>2, <2>1
    <2> HIDE DEF m, p, o
    <2>5. CASE Coding!Oversize(p)
      <3>1. f[o] = f[cut[m] - r]
        BY <2>2, <2>3, <2>5, PacketIsSkipped
      <3>2. good[m] = good[a]
        <4>1. i \in a .. i
          BY <2>1, <1>5
        <4> QED  BY <1>5, <2>4, <2>5, <4>1
      <3>3. \A j \in a .. m : good[j] = good[a]
        <4>1. \A j \in a .. m : j = m \/ j \in a .. i
          BY <1>5 DEF m
        <4> QED  BY <1>5, <3>2, <4>1
      <3>4. m \in T
        BY <1>5, <2>1, <3>1, <3>3 DEF T, o
      <3>5. m <= i
        BY <1>4, <3>4
      <3> QED  BY <1>5, <3>5 DEF m
    <2>6. CASE ~Coding!Oversize(p)
      <3>1. /\ f[o].found /\ f[o].consumed = o + (4 + Len(p.body))
            /\ f[o].id = p.id /\ f[o].body = p.body
        BY <2>2, <2>3, <2>6, PacketIsFound
      <3> QED  BY <1>5, <2>1, <2>3, <2>6, <3>1 DEF start, o, p, m
    <2> QED  BY <2>5, <2>6
  <1> QED  BY <1>6, <1>7

\* From any place behind all that was hit the scan comes to where the next
\* packet starts.
LEMMA ToNextPacket ==
  ASSUME NEW s \in Seq(Coding!Bytes), NEW ps \in Seq(Coding!Packets),
         NEW r, NEW cut, NEW bad, Streamed(s, ps, r, cut, bad),
         NEW f, IsScan(f, s),
         \A i \in 1 .. Len(ps) : Coding!Plain(ps[i]),
         NEW c \in 0 .. Len(s), NEW l \in 0 .. Len(ps), r + c <= cut[l],
         \A x \in bad : x <= r + c
  PROVE  \E i \in 0 .. l : r + c <= cut[i] /\ f[c] = f[cut[i] - r]
  <1> DEFINE n == Len(ps)
             T == {j \in 0 .. l : r + c <= cut[l - j]}
  <1>1. /\ n \in Nat /\ Len(s) \in Nat /\ r \in Nat
        /\ \A i \in 1 .. n : ps[i] \in Coding!Packets
        /\ \A i \in 0 .. n : cut[i] \in Nat /\ cut[i] <= cut[n]
        /\ cut[n] = r + Len(s)
    BY StreamedFacts
  <1>2. 0 \in T
    BY <1>1
  <1>3. PICK m \in T : \A j \in T : j <= m
    <2>1. T \subseteq 0 .. l
      OBVIOUS
    <2>2. l \in Nat
      <3> HIDE DEF T
      <3> QED  BY <1>1
    <2>3. T # {}
      BY <1>2
    <2> HIDE DEF T, n
    <2> QED  BY <2>1, <2>2, <2>3, Highest
  <1> DEFINE i == l - m
  <1>4. /\ m \in 0 .. l /\ i \in 0 .. l /\ i \in 0 .. n /\ r + c <= cut[i]
    BY <1>1, <1>3
  <1>5. i # 0 => cut[i - 1] < r + c
    <2> SUFFICES ASSUME i # 0 PROVE cut[i - 1] < r + c
      OBVIOUS
    <2>1. m + 1 \in 0 .. l /\ l - (m + 1) = i - 1 /\ i - 1 \in 0 .. n
      BY <1>4
    <2>2. m + 1 \notin T
      <3>1. ~(m + 1 <= m)
        BY <1>4
      <3> HIDE DEF T
      <3> QED  BY <1>3, <3>1
    <2>3. ~(r + c <= cut[i - 1])
      <3> HIDE DEF i
      <3> QED  BY <2>1, <2>2
    <2> HIDE DEF i, T
    <2> QED  BY <1>1, <2>1, <2>3
  <1> HIDE DEF i, T, n
  <1>6. cut[i] \in Nat /\ cut[i] - r \in c .. Len(s)
    BY <1>1, <1>4
  <1>7. ASSUME NEW y \in c + 1 .. cut[i] - r  PROVE s[y] # Coding!Flag
    <2>1. i # 0
      <3>1. cut[0] = 0
        BY DEF Streamed
      <3> QED  BY <1>1, <1>6, <1>7, <3>1
    <2> DEFINE q == ps[i]
               e == Coding!Encode(q)
               j == r + y - cut[i - 1]
    <2>2. i \in 1 .. n /\ i - 1 \in 0 .. n
      BY <1>1, <1>4, <2>1
    <2>3. /\ cut[i - 1] \in Nat /\ cut[i - 1] < r + c
          /\ cut[i] = cut[i - 1] + Len(e)
      BY <1>1, <1>5, <2>1, <2>2 DEF Streamed, n
    <2>4. q \in Coding!Packets /\ Coding!Plain(q) /\ Len(e) \in Nat
      <3>1. q \in Coding!Packets /\ Coding!Plain(q)
        BY <1>1, <2>2 DEF n
      <3>2. Len(e) = 4 + Len(q.body) /\ Len(q.body) \in Nat
        BY <3>1, EncodeFacts
      <3> HIDE DEF e
      <3> QED  BY <3>1, <3>2
    <2> HIDE DEF q, e
    <2>5. /\ j \in 2 .. Len(e) /\ j \in 1 .. Len(e)
          /\ cut[i - 1] + j = r + y /\ r + y > r /\ r + y - r = y
          /\ r + y > r + c /\ cut[i - 1] + j - r = y
      <3> DEFINE low == cut[i - 1]
                 high == cut[i]
                 size == Len(e)
      <3>1. /\ low \in Nat /\ high \in Nat /\ size \in Nat /\ r \in Nat
            /\ c \in Nat /\ low < r + c /\ high = low + size
        BY <1>1, <1>6, <2>3, <2>4
      <3>2. y \in Nat /\ y >= c + 1 /\ y <= high - r
        <4> HIDE DEF low, size
        <4> QED  BY <1>7, <3>1
      <3> HIDE DEF low, high, size
      <3>3. /\ r + y - low \in 2 .. size /\ r + y - low \in 1 .. size
            /\ low + (r + y - low) = r + y /\ r + y > r /\ r + y - r = y
            /\ r + y > r + c /\ low + (r + y - low) - r = y
        BY <3>1, <3>2
      <3> QED  BY <3>3 DEF low, size
    <2> HIDE DEF j
    <2>6. e[j] # Coding!Flag
      BY <2>4, <2>5 DEF Coding!Plain, e
    <2>7. r + y \notin bad
      <3>1. ~(r + y <= r + c)
        BY <1>1, <2>5
      <3> QED  BY <3>1
    <2>8. s[y] = e[j]
      <3>1. (cut[i - 1] + j > r /\ cut[i - 1] + j \notin bad)
              => s[cut[i - 1] + j - r] = e[j]
        BY <2>2, <2>5 DEF Streamed, n, e, q
      <3>2. cut[i - 1] + j > r /\ cut[i - 1] + j \notin bad
        BY <2>5, <2>7
      <3>3. cut[i - 1] + j - r = y
        BY <2>5
      <3> QED  BY <3>1, <3>2, <3>3
    <2> QED  BY <2>6, <2>8
  <1>8. f[c] = f[cut[i] - r]
    <2>1. cut[i] - r \in c .. Len(s)
      BY <1>6
    <2> QED  BY <1>7, <2>1, NoFlagIsSkipped
  <1> QED  BY <1>4, <1>8

\* Over what was hit the scan finds a packet that ends where the packets are
\* out of reach, or gets behind all that was hit before that.
LEMMA OverDamage ==
  ASSUME NEW s \in Seq(Coding!Bytes), NEW ps \in Seq(Coding!Packets),
         NEW r, NEW cut, NEW bad, Streamed(s, ps, r, cut, bad),
         NEW f, IsScan(f, s), NEW l \in 0 .. Len(ps),
         \A x \in bad : x + 3 + MaxBody <= cut[l],
         NEW o \in 0 .. Len(s), r + o <= cut[l]
  PROVE  \/ f[o].found /\ r + f[o].consumed <= cut[l]
         \/ \E c \in o .. Len(s) : /\ f[o] = f[c] /\ r + c <= cut[l]
                                   /\ \A x \in bad : x <= r + c
  <1> DEFINE n == Len(s)
             top == cut[l]
             Comes(y) ==
               \/ f[y].found /\ r + f[y].consumed <= top
               \/ \E c \in y .. n : /\ f[y] = f[c] /\ r + c <= top
                                    /\ \A x \in bad : x <= r + c
             S == {y \in 0 .. n : r + y <= top => Comes(y)}
  <1>1. /\ n \in Nat /\ r \in Nat /\ top \in Nat /\ top <= r + n
        /\ MaxBody \in Nat /\ \A x \in bad : x \in Nat
    BY StreamedFacts, CodingConstants
  <1>2. ASSUME NEW y \in 0 .. n, \A z \in y + 1 .. n : z \in S
        PROVE  y \in S
    <2> SUFFICES ASSUME r + y <= top PROVE Comes(y)
      OBVIOUS
    <2>1. CASE \A x \in bad : x <= r + y
      <3>1. y \in y .. n
        BY <1>1
      <3> QED  BY <2>1, <3>1
    <2>2. CASE ~(\A x \in bad : x <= r + y)
      <3>1. PICK x \in bad : ~(x <= r + y)
        BY <2>2
      <3>2. x \in Nat /\ x + 3 + MaxBody <= top
        BY <1>1
      <3>3. /\ r + y + 4 + MaxBody <= top /\ ~(n - y < 4)
            /\ y + 1 \in y + 1 .. n /\ y + 4 \in y + 1 .. n
            /\ r + (y + 1) <= top /\ r + (y + 4) <= top
            /\ n - y >= 4 + MaxBody
        <4> HIDE DEF top, n
        <4> QED  BY <1>1, <3>1, <3>2
      <3>4. ASSUME NEW z \in {y + 1, y + 4}, f[y] = f[z]  PROVE Comes(y)
        <4>1. z \in y + 1 .. n /\ r + z <= top
          BY <3>3
        <4>2. Comes(z) /\ z .. n \subseteq y .. n
          <5>1. Comes(z)
            <6> HIDE DEF Comes
            <6> QED  BY <1>2, <4>1
          <5>2. z .. n \subseteq y .. n
            BY <1>1, <4>1
          <5> QED  BY <5>1, <5>2
        <4> QED  BY <3>4, <4>2
      <3>5. s[y + 3] \in Nat
        <4>1. y + 3 \in 1 .. n
          BY <1>1, <3>3, SMTT(30), ZenonT(60)
        <4>2. s[y + 3] \in Coding!Bytes
          BY <4>1
        <4> QED  BY <4>2, CodingConstants
      <3>6. \/ f[y] = f[y + 1]
            \/ f[y] = f[y + 4]
            \/ ~(s[y + 3] > MaxBody) /\ n - y < 4 + s[y + 3]
            \/ ~(s[y + 3] > MaxBody) /\ f[y] = Found(s, y)
        <4>1. f[y] = Look(f, s, y)
          BY DEF IsScan
        <4> HIDE DEF Comes, S
        <4> QED  BY <3>3, <4>1 DEF Look
      <3>7. CASE f[y] = f[y + 1]
        BY <3>4, <3>7
      <3>8. CASE f[y] = f[y + 4]
        BY <3>4, <3>8
      <3>9. CASE ~(s[y + 3] > MaxBody) /\ n - y < 4 + s[y + 3]
        <4> HIDE DEF Comes, S
        <4> DEFINE length == s[y + 3]
                   left == n - y
        <4>1. /\ length \in Nat /\ MaxBody \in Nat /\ ~(length > MaxBody)
              /\ left < 4 + length
          BY <1>1, <3>5, <3>9
        <4>2. left >= 4 + MaxBody
          BY <3>3
        <4>3. left \in Int
          BY <1>1
        <4> HIDE DEF length, left, n
        <4>4. FALSE
          BY <4>1, <4>2, <4>3
        <4> QED  BY <4>4
      <3>10. CASE ~(s[y + 3] > MaxBody) /\ f[y] = Found(s, y)
        <4>1. f[y].found /\ f[y].consumed = y + (4 + s[y + 3])
          BY <3>10 DEF Found
        <4>2. r + (y + (4 + s[y + 3])) <= top
          <5> DEFINE length == s[y + 3]
          <5>1. /\ length \in Nat /\ MaxBody \in Nat /\ ~(length > MaxBody)
                /\ r \in Nat /\ y \in Nat /\ top \in Nat
                /\ r + y + 4 + MaxBody <= top
            BY <1>1, <3>3, <3>5, <3>10
          <5> HIDE DEF length, top, n
          <5>2. r + (y + (4 + length)) <= top
            BY <5>1
          <5> QED  BY <5>2 DEF length
        <4> HIDE DEF top, n
        <4> QED  BY <4>1, <4>2
      <3> QED  BY <3>6, <3>7, <3>8, <3>9, <3>10
    <2> QED  BY <2>1, <2>2
  <1>3. 0 .. n \subseteq S
    <2> HIDE DEF S
    <2> QED  BY <1>1, <1>2, Downward
  <1>4. Comes(o)
    <2> HIDE DEF Comes
    <2> QED  BY <1>3
  <1> QED  BY <1>4

\* The stream up to a packet and the packet.
LEMMA HoldsNext ==
  ASSUME NEW s \in Seq(Coding!Bytes), NEW p \in Coding!Packets, NEW o,
         Holds(s, o, p)
  PROVE  SubSeq(s, 1, o) \o Coding!Encode(p) =
           SubSeq(s, 1, o + Len(Coding!Encode(p)))
  <1> DEFINE e == Coding!Encode(p)
             a == SubSeq(s, 1, o)
             b == SubSeq(s, 1, o + Len(e))
             B == Coding!Bytes
  <1>1. /\ e \in Seq(B) /\ o \in 0 .. Len(s) /\ o + Len(e) <= Len(s)
        /\ \A j \in 1 .. Len(e) : s[o + j] = e[j]
    <2>1. e \in Seq(B)
      BY EncodeFacts
    <2> HIDE DEF e
    <2> QED  BY <2>1 DEF Holds, e
  <1> HIDE DEF e
  <1> DEFINE l == Len(e)
  <1>2. l \in Nat /\ Len(s) \in Nat /\ o \in Nat
    BY <1>1
  <1>3. /\ a \in Seq(B) /\ Len(a) = o
        /\ \A j \in 1 .. o : a[j] = s[j]
    <2>1. \A j \in 1 .. o : s[j] \in B
      BY <1>1, <1>2
    <2> QED  BY <1>1, <1>2, <2>1
  <1>4. /\ b \in Seq(B) /\ Len(b) = o + l
        /\ \A j \in 1 .. o + l : b[j] = s[j]
    <2>1. \A j \in 1 .. o + l : s[j] \in B /\ j \in 1 .. Len(s)
      BY <1>1, <1>2
    <2> HIDE DEF l, B
    <2> QED  BY <1>1, <1>2, <2>1 DEF l
  <1> HIDE DEF a, b, B
  <1>5. /\ a \o e \in Seq(B) /\ Len(a \o e) = Len(a) + Len(e)
        /\ \A i \in 1 .. Len(a) : (a \o e)[i] = a[i]
        /\ \A j \in 1 .. Len(e) : (a \o e)[Len(a) + j] = e[j]
    <2>1. a \in Seq(B) /\ e \in Seq(B)
      BY <1>1, <1>3
    <2> QED  BY <2>1, Concat
  <1> DEFINE c == a \o e
  <1>6. /\ c \in Seq(B) /\ Len(c) = o + l
        /\ \A i \in 1 .. o : c[i] = s[i]
        /\ \A j \in 1 .. l : c[o + j] = s[o + j]
    <2> HIDE DEF c
    <2>1. /\ c \in Seq(B) /\ Len(c) = Len(a) + Len(e)
          /\ \A i \in 1 .. Len(a) : c[i] = a[i]
          /\ \A j \in 1 .. Len(e) : c[Len(a) + j] = e[j]
      BY <1>5 DEF c
    <2> QED  BY <1>1, <1>3, <2>1
  <1> HIDE DEF c, l
  <1>7. \A i \in 1 .. o + l : c[i] = b[i]
    <2> TAKE i \in 1 .. o + l
    <2>1. CASE i \in 1 .. o
      BY <1>4, <1>6, <2>1
    <2>2. CASE i \in o + 1 .. o + l
      <3>1. i - o \in 1 .. l /\ o + (i - o) = i
        BY <1>2, <2>2
      <3>2. c[o + (i - o)] = s[o + (i - o)]
        BY <1>6, <3>1
      <3> QED  BY <1>4, <3>1, <3>2
    <2> QED  BY <1>2, <2>1, <2>2
  <1>8. c = [i \in 1 .. o + l |-> c[i]] /\ b = [i \in 1 .. o + l |-> b[i]]
    <2>1. c \in Seq(B) /\ Len(c) = o + l /\ b \in Seq(B) /\ Len(b) = o + l
      BY <1>4, <1>6
    <2> QED  BY <2>1
  <1>9. c = b
    BY <1>7, <1>8, Zenon
  <1> QED  BY <1>9 DEF a, b, c, e, l

\* The stream is what encoding the packets that are not consumed gives.
LEMMA StreamedIsEncoded ==
  ASSUME NEW s \in Seq(Coding!Bytes), NEW ps \in Seq(Coding!Packets),
         NEW k \in 0 .. Len(ps), NEW cut, Streamed(s, ps, cut[k], cut, {})
  PROVE  s = Coding!EncodeAll(SubSeq(ps, k + 1, Len(ps)))
  <1> DEFINE n == Len(ps)
             m == n - k
             rest == SubSeq(ps, k + 1, Len(ps))
             upTo(i) == SubSeq(s, 1, cut[k + i] - cut[k])
             D == {upTo(i) : i \in 0 .. m}
             g == [i \in 0 .. m |-> upTo(i)]
  <1>1. /\ k \in 0 .. n /\ cut \in [0 .. n -> Nat]
        /\ \A i \in 1 .. n : cut[i] = cut[i - 1] + Len(Coding!Encode(ps[i]))
        /\ Len(s) = cut[n] - cut[k]
    BY DEF Streamed
  <1>2. n \in Nat /\ k \in Nat /\ m \in Nat /\ k + m = n /\ k + 0 = k
    BY <1>1
  <1>3. /\ rest \in Seq(Coding!Packets) /\ Len(rest) = m
        /\ \A i \in 1 .. m : rest[i] = ps[k + i]
    BY <1>1, Rest
  <1>4. cut[k] \in Nat /\ \A i \in 0 .. m : cut[k + i] \in Nat
    <2>1. k \in 0 .. n /\ \A i \in 0 .. m : k + i \in 0 .. n
      BY <1>2
    <2>2. cut \in [0 .. n -> Nat]
      BY <1>1
    <2> HIDE DEF n, m
    <2> QED  BY <2>1, <2>2
  <1> HIDE DEF n, m, rest
  <1>5. g \in [0 .. m -> D]
    <2>1. \A i \in 0 .. m : upTo(i) \in D
      OBVIOUS
    <2> HIDE DEF D, upTo
    <2> QED  BY <2>1
  <1>6. g[0] = <<>>
    <2>1. upTo(0) = SubSeq(s, 1, 0)
      BY <1>2, <1>4
    <2>2. g[0] = upTo(0)
      <3>1. 0 \in 0 .. m
        BY <1>2
      <3> HIDE DEF upTo
      <3> QED  BY <3>1
    <2> HIDE DEF g, upTo
    <2> QED  BY <2>1, <2>2
  <1>7. ASSUME NEW i \in 1 .. m
        PROVE  g[i] = g[i - 1] \o Coding!Encode(rest[i])
    <2> DEFINE j == k + i
               o == cut[j - 1] - cut[k]
               e == Coding!Encode(ps[j])
    <2>1. /\ j \in k + 1 .. n /\ j \in 1 .. n /\ j - 1 = k + (i - 1)
          /\ i - 1 \in 0 .. m /\ i \in 0 .. m /\ j \in 0 .. n
          /\ j - 1 \in 0 .. n
      BY <1>2
    <2>2. ps[j] \in Coding!Packets
      BY <2>1 DEF n
    <2> HIDE DEF j
    <2>3. cut[k] <= cut[j - 1]
      <3>1. k <= j - 1 /\ k \in 0 .. n
        BY <1>1, <2>1, <1>2
      <3> QED  BY <2>1, <3>1, StreamedFacts DEF n
    <2>4. Holds(s, o, ps[j])
      <3>1. \A x \in {} : x <= cut[j - 1] \/ cut[j] < x
        OBVIOUS
      <3>2. j \in 1 .. Len(ps)
        BY <2>1 DEF n
      <3> HIDE DEF o
      <3> QED  BY <2>3, <3>1, <3>2, StreamedHolds DEF o
    <2>5. SubSeq(s, 1, o) \o e = SubSeq(s, 1, o + Len(e))
      BY <2>2, <2>4, HoldsNext
    <2>6. o + Len(e) = cut[j] - cut[k]
      <3>1. /\ cut[j] = cut[j - 1] + Len(e) /\ cut[j - 1] \in Nat
            /\ cut[j] \in Nat
        BY <1>1, <2>1
      <3>2. Len(e) \in Nat
        BY <2>2, EncodeFacts
      <3> HIDE DEF e
      <3> QED  BY <1>4, <3>1, <3>2
    <2>7. upTo(i - 1) = SubSeq(s, 1, o)
      BY <2>1
    <2>8. upTo(i) = SubSeq(s, 1, o + Len(e))
      BY <2>6 DEF j
    <2>9. g[i] = upTo(i) /\ g[i - 1] = upTo(i - 1) /\ rest[i] = ps[j]
      BY <1>3, <2>1 DEF j
    <2> HIDE DEF g, upTo, o, e
    <2>10. g[i] = g[i - 1] \o e
      BY <2>5, <2>7, <2>8, <2>9
    <2> QED  BY <2>9, <2>10 DEF e
  <1>8. g[m] = s
    <2>1. upTo(m) = SubSeq(s, 1, Len(s))
      BY <1>1, <1>2
    <2>2. SubSeq(s, 1, Len(s)) = s
      OBVIOUS
    <2>3. g[m] = upTo(m)
      <3>1. m \in 0 .. m
        BY <1>2
      <3> HIDE DEF upTo
      <3> QED  BY <3>1
    <2> HIDE DEF g, upTo
    <2> QED  BY <2>1, <2>2, <2>3
  <1> HIDE DEF g, D, upTo
  <1>9. Coding!EncodeAll(rest) = g[Len(rest)]
    BY <1>3, <1>5, <1>6, <1>7, EncodeAllIs
  <1> QED  BY <1>3, <1>8, <1>9 DEF rest

\* With a packet more its place among the good ones follows.
LEMMA GoodsSend ==
  ASSUME NEW ps \in Seq(Coding!Packets), NEW good, Goods(good, ps),
         NEW p \in Coding!Packets
  PROVE  \E good2 : /\ Goods(good2, Append(ps, p))
                    /\ \A i \in 0 .. Len(ps) : good2[i] = good[i]
  <1> DEFINE n == Len(ps)
             qs == Append(ps, p)
             next == IF Coding!Oversize(p) THEN good[n]
                     ELSE Append(good[n], p)
             new == [i \in 0 .. n + 1 |-> IF i <= n THEN good[i] ELSE next]
  <1>1. /\ n \in Nat /\ Len(qs) = n + 1 /\ qs[n + 1] = p
        /\ \A i \in 1 .. n : qs[i] = ps[i]
    OBVIOUS
  <1>2. /\ good \in [0 .. n -> Seq(Coding!Packets)] /\ good[0] = <<>>
        /\ \A i \in 1 .. n :
             good[i] = IF Coding!Oversize(ps[i]) THEN good[i - 1]
                       ELSE Append(good[i - 1], ps[i])
    BY DEF Goods
  <1>3. next \in Seq(Coding!Packets)
    <2>1. good[n] \in Seq(Coding!Packets)
      BY <1>1, <1>2
    <2> QED  BY <2>1
  <1> HIDE DEF n, qs, next
  <1>4. /\ \A i \in 0 .. n : new[i] = good[i]
        /\ new[n + 1] = next
        /\ new \in [0 .. n + 1 -> Seq(Coding!Packets)]
    <2>1. \A i \in 0 .. n : good[i] \in Seq(Coding!Packets)
      BY <1>2
    <2>2. \A i \in 0 .. n + 1 : i \in 0 .. n \/ ~(i <= n)
      BY <1>1
    <2>3. \A i \in 0 .. n : i \in 0 .. n + 1 /\ i <= n
      BY <1>1
    <2>4. n + 1 \in 0 .. n + 1 /\ ~(n + 1 <= n)
      BY <1>1
    <2> QED  BY <1>3, <2>1, <2>2, <2>3, <2>4
  <1> HIDE DEF new
  <1>5. ASSUME NEW i \in 1 .. n + 1
        PROVE  new[i] = IF Coding!Oversize(qs[i]) THEN new[i - 1]
                        ELSE Append(new[i - 1], qs[i])
    <2>1. CASE i \in 1 .. n
      <3>1. i \in 0 .. n /\ i - 1 \in 0 .. n
        BY <1>1, <2>1
      <3>2. new[i] = good[i] /\ new[i - 1] = good[i - 1] /\ qs[i] = ps[i]
        BY <1>1, <1>4, <2>1, <3>1
      <3>3. good[i] = IF Coding!Oversize(ps[i]) THEN good[i - 1]
                      ELSE Append(good[i - 1], ps[i])
        BY <1>2, <2>1
      <3> QED  BY <3>2, <3>3
    <2>2. CASE i = n + 1
      <3>1. i - 1 = n /\ n \in 0 .. n
        BY <1>1, <2>2
      <3>2. new[i - 1] = good[n] /\ new[i] = next /\ qs[i] = p
        BY <1>1, <1>4, <2>2, <3>1
      <3> QED  BY <3>2 DEF next
    <2> QED  BY <1>1, <2>1, <2>2
  <1>6. new[0] = <<>>
    BY <1>1, <1>2, <1>4
  <1>7. Goods(new, qs)
    BY <1>1, <1>4, <1>5, <1>6 DEF Goods
  <1> QED  BY <1>4, <1>7 DEF qs, n

-----------------------------------------------------------------------------
(* What was received, beside what was to be received                       *)

\* What is decoded: not always one of the packets that can be sent.
Received == [id : Coding!Bytes, body : Seq(Coding!Bytes)]

\* What Receive makes of what was received.
Taken(got, d) ==
  IF d.found THEN Append(got, [id |-> d.id, body |-> d.body]) ELSE got

\* Append, element by element.
LEMMA AppendIs ==
  ASSUME NEW S, NEW s \in Seq(S), NEW x \in S
  PROVE  /\ Append(s, x) \in Seq(S) /\ Len(s) \in Nat
         /\ Len(Append(s, x)) = Len(s) + 1
         /\ Append(s, x)[Len(s) + 1] = x
         /\ \A j \in 1 .. Len(s) : Append(s, x)[j] = s[j]
         /\ Append(s, x) = [j \in 1 .. Len(s) + 1 |->
                              IF j <= Len(s) THEN s[j] ELSE x]
  <1> DEFINE n == Len(s)
             t == Append(s, x)
  <1>1. /\ t \in Seq(S) /\ n \in Nat /\ Len(t) = n + 1 /\ t[n + 1] = x
        /\ \A j \in 1 .. n : t[j] = s[j]
    OBVIOUS
  <1>2. t = [j \in 1 .. n + 1 |-> t[j]]
    <2>1. t \in Seq(S) /\ Len(t) = n + 1
      BY <1>1
    <2> HIDE DEF t, n
    <2> QED  BY <2>1
  <1> HIDE DEF t, n
  <1>3. \A j \in 1 .. n + 1 : t[j] = IF j <= n THEN s[j] ELSE x
    <2> TAKE j \in 1 .. n + 1
    <2>1. CASE j \in 1 .. n
      BY <1>1, <2>1
    <2>2. CASE j = n + 1
      BY <1>1, <2>2
    <2> QED  BY <1>1, <2>1, <2>2
  <1>4. t = [j \in 1 .. n + 1 |-> IF j <= n THEN s[j] ELSE x]
    BY <1>2, <1>3, Zenon
  <1> QED  BY <1>1, <1>4 DEF t, n

\* A packet that arrives unaltered is among those that can be received.
LEMMA PacketIsReceivable ==
  ASSUME NEW p \in Coding!Packets
  PROVE  p \in Received /\ p = [id |-> p.id, body |-> p.body]
  BY EncodeFacts DEF Received, Coding!Packets

\* The first elements of t are those of s.
Starts(t, s) ==
  Len(s) <= Len(t) /\ \A i \in 1 .. Len(s) : t[i] = s[i]

\* What s has behind its first c elements is what t ends with, and there are
\* at least x elements before it.
Follows(t, s, c, x) ==
  \E h \in Int : /\ Len(t) = Len(s) + h
                 /\ x <= c + h
                 /\ \A i \in c + 1 .. Len(s) : t[i + h] = s[i]

\* Both stay so when t grows, or both grow by the same.
LEMMA StartsAppend ==
  ASSUME NEW S, NEW t \in Seq(S), NEW s \in Seq(S), NEW p \in S, Starts(t, s)
  PROVE  Starts(Append(t, p), s)
  <1> DEFINE u == Append(t, p)
  <1>1. /\ Len(t) \in Nat /\ Len(s) \in Nat /\ Len(u) = Len(t) + 1
        /\ \A j \in 1 .. Len(t) : u[j] = t[j]
    BY AppendIs
  <1>2. Len(s) <= Len(t) /\ \A i \in 1 .. Len(s) : t[i] = s[i]
    BY DEF Starts
  <1> HIDE DEF u
  <1>3. Len(s) <= Len(u) /\ \A i \in 1 .. Len(s) : u[i] = s[i]
    BY <1>1, <1>2
  <1> QED  BY <1>3 DEF Starts, u

\* What ends alike goes on alike.
LEMMA FollowsAppend ==
  ASSUME NEW S, NEW t \in Seq(S), NEW s \in Seq(S), NEW p \in S,
         NEW c \in 0 .. Len(s), NEW x \in Nat, Follows(t, s, c, x)
  PROVE  Follows(Append(t, p), Append(s, p), c, x)
  <1> DEFINE u == Append(t, p)
             v == Append(s, p)
             a == Len(t)
             b == Len(s)
  <1>1. /\ a \in Nat /\ b \in Nat /\ Len(u) = a + 1 /\ Len(v) = b + 1
        /\ u[a + 1] = p /\ v[b + 1] = p
        /\ \A j \in 1 .. a : u[j] = t[j]
        /\ \A j \in 1 .. b : v[j] = s[j]
    BY AppendIs
  <1>2. PICK h \in Int : /\ a = b + h /\ x <= c + h
                         /\ \A i \in c + 1 .. b : t[i + h] = s[i]
    BY DEF Follows
  <1>3. c \in Nat /\ c <= b
    <2> HIDE DEF b
    <2> QED  BY <1>1 DEF b
  <1> HIDE DEF u, v, a, b
  <1>4. ASSUME NEW i \in c + 1 .. b + 1  PROVE u[i + h] = v[i]
    <2>1. CASE i \in c + 1 .. b
      <3>1. i \in 1 .. b /\ i + h \in 1 .. a
        BY <1>1, <1>2, <1>3, <2>1
      <3> QED  BY <1>1, <1>2, <2>1, <3>1
    <2>2. CASE i = b + 1
      <3>1. i + h = a + 1
        BY <1>1, <1>2, <2>2
      <3> QED  BY <1>1, <2>2, <3>1
    <2> QED  BY <1>1, <1>3, <2>1, <2>2
  <1>5. Len(u) = Len(v) + h
    BY <1>1, <1>2
  <1>6. Follows(u, v, c, x)
    BY <1>1, <1>2, <1>4, <1>5 DEF Follows
  <1> QED  BY <1>6 DEF u, v

\* Whatever is long enough ends with nothing.
LEMMA FollowsNothing ==
  ASSUME NEW S, NEW t \in Seq(S), NEW s \in Seq(S), NEW x \in Nat,
         x <= Len(t)
  PROVE  Follows(t, s, Len(s), x)
  <1> DEFINE a == Len(t)
             b == Len(s)
             h == a - b
  <1>1. a \in Nat /\ b \in Nat /\ x <= a
    OBVIOUS
  <1> HIDE DEF a, b
  <1>2. /\ h \in Int /\ a = b + h /\ x <= b + h
        /\ \A i : i \notin b + 1 .. b
    BY <1>1
  <1> HIDE DEF h
  <1>3. \E k \in Int : /\ a = b + k /\ x <= b + k
                       /\ \A i \in b + 1 .. b : t[i + k] = s[i]
    BY <1>2
  <1> QED  BY <1>3 DEF Follows, a, b

\* What is the same ends the same way.
LEMMA FollowsItself ==
  ASSUME NEW S, NEW s \in Seq(S), NEW c \in 0 .. Len(s), NEW x \in Nat, x <= c
  PROVE  Follows(s, s, c, x)
  <1>1. Len(s) = Len(s) + 0 /\ 0 \in Int /\ x <= c + 0
    OBVIOUS
  <1>2. \A i \in c + 1 .. Len(s) : s[i + 0] = s[i]
    OBVIOUS
  <1> QED  BY <1>1, <1>2 DEF Follows

\* Later there are no fewer good ones.
LEMMA GoodsGrow ==
  ASSUME NEW ps \in Seq(Coding!Packets), NEW good, Goods(good, ps)
  PROVE  /\ \A i \in 0 .. Len(ps) : /\ good[i] \in Seq(Coding!Packets)
                                    /\ good[i] \in Seq(Received)
                                    /\ Len(good[i]) \in Nat
         /\ \A i, j \in 0 .. Len(ps) : i <= j => Len(good[i]) <= Len(good[j])
  <1> DEFINE n == Len(ps)
             size(i) == Len(good[i])
             S == {j \in 0 .. n : \A i \in 0 .. j : size(i) <= size(j)}
  <1>1. /\ good \in [0 .. n -> Seq(Coding!Packets)]
        /\ \A i \in 1 .. n :
             good[i] = IF Coding!Oversize(ps[i]) THEN good[i - 1]
                       ELSE Append(good[i - 1], ps[i])
    BY DEF Goods
  <1>2. /\ n \in Nat
        /\ \A i \in 1 .. n : ps[i] \in Coding!Packets /\ i - 1 \in 0 .. n
    OBVIOUS
  <1>3. Seq(Coding!Packets) \subseteq Seq(Received)
    <2>1. Coding!Packets \subseteq Received
      BY PacketIsReceivable
    <2> QED  BY <2>1
  <1> HIDE DEF n
  <1>4. ASSUME NEW i \in 0 .. n
        PROVE  good[i] \in Seq(Coding!Packets) /\ size(i) \in Nat
    <2>1. good[i] \in Seq(Coding!Packets)
      BY <1>1
    <2> QED  BY <2>1
  <1>5. ASSUME NEW i \in 1 .. n  PROVE size(i - 1) <= size(i)
    <2>1. good[i - 1] \in Seq(Coding!Packets) /\ size(i - 1) \in Nat
      BY <1>2, <1>4
    <2>2. CASE Coding!Oversize(ps[i])
      <3>1. size(i) = size(i - 1)
        BY <1>1, <2>2
      <3> HIDE DEF size
      <3> QED  BY <2>1, <3>1
    <2>3. CASE ~Coding!Oversize(ps[i])
      <3>1. Len(Append(good[i - 1], ps[i])) = size(i - 1) + 1
        BY <1>2, <2>1, AppendIs
      <3>2. size(i) = size(i - 1) + 1
        BY <1>1, <2>3, <3>1
      <3> HIDE DEF size
      <3> QED  BY <2>1, <3>2
    <2> QED  BY <2>2, <2>3
  <1> HIDE DEF size
  <1>6. 0 \in S
    <2>1. 0 \in 0 .. n /\ \A i \in 0 .. 0 : i = 0
      BY <1>2
    <2> QED  BY <1>4, <2>1
  <1>7. ASSUME NEW j \in 1 .. n, j - 1 \in S  PROVE j \in S
    <2> SUFFICES ASSUME NEW i \in 0 .. j PROVE size(i) <= size(j)
      BY <1>2
    <2>1. j \in 0 .. n /\ j - 1 \in 0 .. n /\ i \in 0 .. n
      BY <1>2
    <2>2. CASE i = j
      BY <1>4, <2>1, <2>2
    <2>3. CASE i # j
      <3>1. i \in 0 .. j - 1
        BY <1>2, <2>3
      <3>2. size(i) <= size(j - 1)
        BY <1>7, <3>1
      <3> HIDE DEF S
      <3> QED  BY <1>4, <1>5, <2>1, <3>2
    <2> QED  BY <2>2, <2>3
  <1>8. 0 .. n \subseteq S
    <2> HIDE DEF S
    <2> QED  BY <1>2, <1>6, <1>7, Upward
  <1>9. ASSUME NEW i \in 0 .. n, NEW j \in 0 .. n, i <= j
        PROVE  size(i) <= size(j)
    <2>1. i \in 0 .. j
      BY <1>2, <1>9
    <2> QED  BY <1>8, <2>1
  <1> QED  BY <1>3, <1>4, <1>9 DEF size, n

-----------------------------------------------------------------------------
(* One iteration of the reader, over packets that are plain                *)

\* Packet k and those before it are ahead of all that was hit.
Sooner(cut, bad, k) == \A x \in bad : cut[k] < x

\* No false packet reaches what is behind packet l.
Later(cut, bad, l) == \A x \in bad : x + 3 + MaxBody <= cut[l]

\* From packet a on, decoding gives the next good one up to packet b, which is
\* received, or what is behind packet b.
OrNext(ps, r, cut, good, got, f, d, a, b) ==
  \E i \in a .. b :
    /\ \A j \in a .. i : good[j] = good[a]
    /\ \/ i = b /\ d = f[cut[b] - r]
       \/ /\ i + 1 \in a .. b /\ i + 1 \in 1 .. Len(ps)
          /\ d.found /\ r + d.consumed = cut[i + 1]
          /\ ps[i + 1] \in Coding!Packets
          /\ Taken(got, d) = Append(got, ps[i + 1])
          /\ good[i + 1] = Append(good[a], ps[i + 1])

\* What Onward finds is received, and is the next of the good ones.
LEMMA NextArrives ==
  ASSUME NEW s \in Seq(Coding!Bytes), NEW ps \in Seq(Coding!Packets),
         NEW r, NEW cut, NEW bad, Streamed(s, ps, r, cut, bad),
         NEW f, IsScan(f, s), NEW good, Goods(good, ps),
         \A i \in 1 .. Len(ps) : Coding!Plain(ps[i]),
         NEW a \in 0 .. Len(ps), NEW b \in a .. Len(ps), r <= cut[a],
         \A x \in bad : x <= cut[a] \/ cut[b] < x,
         NEW got \in Seq(Received), NEW d, d = f[cut[a] - r]
  PROVE  OrNext(ps, r, cut, good, got, f, d, a, b)
  <1>1. PICK i \in a .. b :
          /\ \A j \in a .. i : good[j] = good[a]
          /\ d = f[cut[i] - r]
          /\ \/ i = b
             \/ /\ i < b /\ ~Coding!Oversize(ps[i + 1])
                /\ d.found
                /\ d.consumed = cut[i + 1] - r
                /\ d.id = ps[i + 1].id
                /\ d.body = ps[i + 1].body
    BY Onward
  <1>2. Len(ps) \in Nat /\ r \in Nat
    BY StreamedFacts
  <1>3. CASE i = b
    BY <1>1, <1>3 DEF OrNext
  <1>4. CASE i # b
    <2> DEFINE m == i + 1
               p == ps[m]
    <2>1. /\ m \in 1 .. Len(ps) /\ m - 1 = i /\ m \in 0 .. Len(ps)
          /\ m \in a .. b /\ i \in a .. i
      BY <1>1, <1>2, <1>4
    <2>2. p \in Coding!Packets
      BY <2>1
    <2>3. /\ d.found /\ d.consumed = cut[m] - r /\ d.id = p.id
          /\ d.body = p.body /\ ~Coding!Oversize(p) /\ good[i] = good[a]
      BY <1>1, <1>4, <2>1
    <2>4. good[m] = IF Coding!Oversize(ps[m]) THEN good[m - 1]
                    ELSE Append(good[m - 1], ps[m])
      BY <2>1 DEF Goods
    <2>5. r + d.consumed = cut[m]
      <3>1. cut[m] \in Nat
        BY <2>1, StreamedFacts
      <3> HIDE DEF m
      <3> QED  BY <1>2, <2>3, <3>1
    <2>6. p = [id |-> d.id, body |-> d.body]
      BY <2>2, <2>3, PacketIsReceivable
    <2> HIDE DEF p, m
    <2>7. Taken(got, d) = Append(got, p)
      BY <2>3, <2>6 DEF Taken
    <2>8. good[m] = Append(good[a], p)
      BY <2>1, <2>3, <2>4 DEF p
    <2> QED  BY <1>1, <2>1, <2>2, <2>3, <2>5, <2>7, <2>8 DEF m, p, OrNext
  <1> QED  BY <1>3, <1>4

\* While it is ahead of what was hit, the reader receives the next good one,
\* or it has all that are ahead and looks on from there.
LEMMA ReachesGap ==
  ASSUME NEW s \in Seq(Coding!Bytes), NEW ps \in Seq(Coding!Packets),
         NEW r, NEW cut, NEW bad, Streamed(s, ps, r, cut, bad),
         NEW f, IsScan(f, s), NEW good, Goods(good, ps),
         \A i \in 1 .. Len(ps) : Coding!Plain(ps[i]),
         NEW k \in 0 .. Len(ps), Sooner(cut, bad, k),
         NEW m \in 0 .. k, r = cut[m],
         NEW got, got = good[m], NEW d, d = f[0]
  PROVE  \/ /\ d.found
            /\ \E i \in 0 .. k : /\ r + d.consumed = cut[i]
                                 /\ Taken(got, d) = good[i]
         \/ got = good[k] /\ d = f[cut[k] - r]
  <1>1. /\ Len(ps) \in Nat /\ r \in Nat /\ m \in 0 .. Len(ps)
        /\ k \in m .. Len(ps)
    <2>1. Len(ps) \in Nat /\ r \in Nat
      BY StreamedFacts
    <2> QED  BY <2>1
  <1>2. cut[m] - r = 0 /\ r <= cut[m]
    BY <1>1
  <1>3. got \in Seq(Received)
    BY <1>1, GoodsGrow
  <1>4. \A x \in bad : x <= cut[m] \/ cut[k] < x
    BY DEF Sooner
  <1>5. d = f[cut[m] - r]
    BY <1>2
  <1>6. OrNext(ps, r, cut, good, got, f, d, m, k)
    BY <1>1, <1>2, <1>3, <1>4, <1>5, NextArrives
  <1>7. PICK i \in m .. k :
          /\ \A j \in m .. i : good[j] = good[m]
          /\ \/ i = k /\ d = f[cut[k] - r]
             \/ /\ i + 1 \in m .. k /\ i + 1 \in 1 .. Len(ps)
                /\ d.found /\ r + d.consumed = cut[i + 1]
                /\ ps[i + 1] \in Coding!Packets
                /\ Taken(got, d) = Append(got, ps[i + 1])
                /\ good[i + 1] = Append(good[m], ps[i + 1])
    BY <1>6 DEF OrNext
  <1>8. CASE i = k /\ d = f[cut[k] - r]
    <2>1. k \in m .. i
      BY <1>1, <1>8
    <2> QED  BY <1>7, <1>8, <2>1
  <1>9. CASE ~(i = k /\ d = f[cut[k] - r])
    <2>1. i + 1 \in 0 .. k
      BY <1>1, <1>7, <1>9
    <2> QED  BY <1>7, <1>9, <2>1
  <1> QED  BY <1>8, <1>9

\* The reader comes to the end of a packet from l on, with the good ones since
\* behind x or more others, and to the end of all when it finds nothing.
Lands(r, ps, cut, good, got, d, l, x) ==
  \E i \in l .. Len(ps) :
    /\ r + d.consumed = cut[i]
    /\ Follows(Taken(got, d), good[i], Len(good[l]), x)
    /\ ~d.found => i = Len(ps)

\* Once behind what was hit, it receives the good ones and nothing else.
LEMMA GoesOn ==
  ASSUME NEW s \in Seq(Coding!Bytes), NEW ps \in Seq(Coding!Packets),
         NEW r, NEW cut, NEW bad, Streamed(s, ps, r, cut, bad),
         NEW f, IsScan(f, s), NEW good, Goods(good, ps),
         \A i \in 1 .. Len(ps) : Coding!Plain(ps[i]),
         NEW l \in 0 .. Len(ps), Later(cut, bad, l),
         NEW m \in l .. Len(ps), r = cut[m],
         NEW got \in Seq(Received), NEW x \in Nat,
         Follows(got, good[m], Len(good[l]), x), NEW d, d = f[0]
  PROVE  Lands(r, ps, cut, good, got, d, l, x)
  <1> DEFINE n == Len(ps)
  <1>1. /\ n \in Nat /\ r \in Nat /\ m \in 0 .. n /\ n \in m .. n
        /\ n \in 0 .. n /\ n \in l .. n /\ l <= m
        /\ cut[n] = r + Len(s) /\ Len(s) \in Nat
    <2>1. n \in Nat /\ r \in Nat /\ cut[n] = r + Len(s) /\ Len(s) \in Nat
      BY StreamedFacts
    <2> HIDE DEF n
    <2> QED  BY <2>1 DEF n
  <1>2. cut[m] - r = 0 /\ r <= cut[m]
    BY <1>1
  <1>3. \A y \in bad : y <= cut[m] \/ cut[n] < y
    <2> TAKE y \in bad
    <2>1. /\ y \in Nat /\ cut[l] \in Nat /\ cut[m] \in Nat
          /\ cut[l] <= cut[m]
      BY <1>1, StreamedFacts
    <2>2. y + 3 + MaxBody <= cut[l] /\ MaxBody \in Nat
      BY CodingConstants DEF Later
    <2> QED  BY <2>1, <2>2
  <1>4. d = f[cut[m] - r]
    BY <1>2
  <1>5. OrNext(ps, r, cut, good, got, f, d, m, n)
    BY <1>1, <1>2, <1>3, <1>4, NextArrives
  <1>6. PICK i \in m .. n :
          /\ \A j \in m .. i : good[j] = good[m]
          /\ \/ i = n /\ d = f[cut[n] - r]
             \/ /\ i + 1 \in m .. n /\ i + 1 \in 1 .. n
                /\ d.found /\ r + d.consumed = cut[i + 1]
                /\ ps[i + 1] \in Coding!Packets
                /\ Taken(got, d) = Append(got, ps[i + 1])
                /\ good[i + 1] = Append(good[m], ps[i + 1])
    BY <1>5 DEF OrNext, n
  <1>7. CASE i = n /\ d = f[cut[n] - r]
    <2>1. cut[n] - r = Len(s) /\ n \in m .. i
      BY <1>1, <1>7
    <2>2. ~d.found /\ d.consumed = Len(s)
      BY <1>7, <2>1, NothingAtTheEnd
    <2>3. Taken(got, d) = got /\ r + d.consumed = cut[n] /\ good[n] = good[m]
      BY <1>1, <1>6, <2>1, <2>2 DEF Taken
    <2> QED  BY <1>1, <2>3 DEF Lands, n
  <1>8. CASE ~(i = n /\ d = f[cut[n] - r])
    <2> DEFINE c == Len(good[l])
               p == ps[i + 1]
    <2>1. i + 1 \in l .. n /\ p \in Coding!Packets /\ p \in Received
      BY <1>1, <1>6, <1>8, PacketIsReceivable
    <2>2. good[m] \in Seq(Received) /\ c \in 0 .. Len(good[m])
      <3>1. /\ good[m] \in Seq(Received) /\ c \in Nat /\ Len(good[m]) \in Nat
            /\ c <= Len(good[m])
        BY <1>1, GoodsGrow
      <3> HIDE DEF c
      <3> QED  BY <3>1
    <2> HIDE DEF c, p
    <2>3. Follows(got, good[m], c, x)
      BY DEF c
    <2>4. Follows(Append(got, p), Append(good[m], p), c, x)
      BY <2>1, <2>2, <2>3, FollowsAppend
    <2>5. Follows(Taken(got, d), good[i + 1], c, x)
      BY <1>6, <1>8, <2>4 DEF p
    <2> QED  BY <1>6, <1>8, <2>1, <2>5 DEF c, Lands, n
  <1> QED  BY <1>7, <1>8

\* On its way over what was hit it finds packets that were never sent, and at
\* last comes to the end of a packet out of their reach.
LEMMA LeavesGap ==
  ASSUME NEW s \in Seq(Coding!Bytes), NEW ps \in Seq(Coding!Packets),
         NEW r, NEW cut, NEW bad, Streamed(s, ps, r, cut, bad),
         NEW f, IsScan(f, s), NEW good, Goods(good, ps),
         \A i \in 1 .. Len(ps) : Coding!Plain(ps[i]),
         NEW l \in 0 .. Len(ps), Later(cut, bad, l),
         NEW o \in 0 .. Len(s), r + o <= cut[l],
         NEW got \in Seq(Received), NEW x \in Nat, x <= Len(got),
         NEW d, d = f[0], d = f[o]
  PROVE  \/ d.found /\ r + d.consumed < cut[l]
         \/ Lands(r, ps, cut, good, got, d, l, x)
  <1> DEFINE n == Len(ps)
             c == Len(good[l])
             to(i) == /\ r + d.consumed = cut[i]
                      /\ Follows(Taken(got, d), good[i], c, x)
                      /\ ~d.found => i = n
  <1>1. /\ n \in Nat /\ r \in Nat /\ n \in 0 .. n /\ l \in l .. n
        /\ n \in l .. n /\ l \in 0 .. n
        /\ cut[n] = r + Len(s) /\ Len(s) \in Nat
        /\ \A i \in 0 .. n : cut[i] \in Nat
    <2>1. /\ n \in Nat /\ r \in Nat /\ cut[n] = r + Len(s) /\ Len(s) \in Nat
          /\ \A i \in 0 .. n : cut[i] \in Nat
      BY StreamedFacts
    <2> HIDE DEF n
    <2> QED  BY <2>1 DEF n
  <1>2. Fine(d, s, o)
    BY ScanIsFine
  <1>3. d.found \in BOOLEAN /\ d.consumed \in o .. Len(s)
        /\ (d.found => [id |-> d.id, body |-> d.body] \in Received)
    BY <1>2 DEF Fine, Received
  <1>4. /\ Taken(got, d) \in Seq(Received) /\ x <= Len(Taken(got, d))
        /\ ~d.found => Taken(got, d) = got
    <2>1. CASE d.found
      <3> DEFINE p == [id |-> d.id, body |-> d.body]
      <3>1. p \in Received /\ Taken(got, d) = Append(got, p)
        BY <1>3, <2>1 DEF Taken
      <3> HIDE DEF p
      <3>2. /\ Append(got, p) \in Seq(Received) /\ Len(got) \in Nat
            /\ Len(Append(got, p)) = Len(got) + 1
        BY <3>1, AppendIs
      <3> QED  BY <2>1, <3>1, <3>2
    <2>2. CASE ~d.found
      BY <2>2 DEF Taken
    <2> QED  BY <2>1, <2>2
  <1>5. \A i \in 0 .. n : good[i] \in Seq(Received)
    BY GoodsGrow
  <1>6. ASSUME NEW i \in l .. n, r + d.consumed = cut[i], good[i] = good[l],
               d.found \/ i = n
        PROVE  to(i)
    <2>1. Follows(Taken(got, d), good[l], c, x)
      BY <1>1, <1>4, <1>5, FollowsNothing
    <2> QED  BY <1>6, <2>1
  <1> HIDE DEF to
  <1>7. CASE d.found /\ r + d.consumed <= cut[l]
    <2>1. r + d.consumed < cut[l] \/ r + d.consumed = cut[l]
      <3>1. d.consumed \in Nat /\ cut[l] \in Nat
        BY <1>1, <1>3
      <3> DEFINE now == r + d.consumed
                 top == cut[l]
      <3>2. now \in Nat /\ top \in Nat /\ now <= top
        BY <1>1, <1>7, <3>1, SMTT(30), ZenonT(60)
      <3> HIDE DEF now, top
      <3>3. now < top \/ now = top
        BY <3>2
      <3> QED  BY <3>3 DEF now, top
    <2>2. CASE r + d.consumed = cut[l]
      <3>1. to(l)
        BY <1>1, <1>6, <1>7, <2>2
      <3> QED  BY <1>1, <3>1 DEF to, c, n, Lands
    <2> QED  BY <1>7, <2>1, <2>2
  <1>8. CASE \E y \in o .. Len(s) : /\ d = f[y] /\ r + y <= cut[l]
                                    /\ \A z \in bad : z <= r + y
    <2>1. PICK y \in o .. Len(s) : /\ d = f[y] /\ r + y <= cut[l]
                                   /\ \A z \in bad : z <= r + y
      BY <1>8
    <2>2. y \in 0 .. Len(s) /\ y \in Nat
      BY <1>1
    <2>3. PICK a \in 0 .. l : r + y <= cut[a] /\ f[y] = f[cut[a] - r]
      BY <2>1, <2>2, ToNextPacket, SMTT(30), ZenonT(60)
    <2>4. /\ a \in 0 .. n /\ n \in a .. n /\ cut[a] \in Nat /\ r <= cut[a]
          /\ a <= l
      <3>1. a \in 0 .. n /\ n \in a .. n /\ a <= l
        BY <1>1
      <3> QED  BY <1>1, <2>2, <2>3, <3>1
    <2>5. \A z \in bad : z <= cut[a] \/ cut[n] < z
      <3> TAKE z \in bad
      <3>1. z \in Nat /\ z <= r + y
        BY <2>1, StreamedFacts
      <3> QED  BY <1>1, <2>2, <2>3, <2>4, <3>1
    <2>6. d = f[cut[a] - r]
      BY <2>1, <2>3
    <2>7. OrNext(ps, r, cut, good, got, f, d, a, n)
      BY <2>4, <2>5, <2>6, NextArrives
    <2>8. PICK i \in a .. n :
            /\ \A j \in a .. i : good[j] = good[a]
            /\ \/ i = n /\ d = f[cut[n] - r]
               \/ /\ i + 1 \in a .. n /\ i + 1 \in 1 .. n
                  /\ d.found /\ r + d.consumed = cut[i + 1]
                  /\ ps[i + 1] \in Coding!Packets
                  /\ Taken(got, d) = Append(got, ps[i + 1])
                  /\ good[i + 1] = Append(good[a], ps[i + 1])
      BY <2>7 DEF OrNext, n
    <2>9. CASE i = n /\ d = f[cut[n] - r]
      <3>1. cut[n] - r = Len(s) /\ n \in a .. i /\ l \in a .. i
        BY <1>1, <2>4, <2>9
      <3>2. ~d.found /\ d.consumed = Len(s)
        BY <2>9, <3>1, NothingAtTheEnd
      <3>3. r + d.consumed = cut[n] /\ good[n] = good[l]
        BY <1>1, <2>8, <3>1, <3>2
      <3>4. to(n)
        BY <1>1, <1>6, <3>3
      <3> QED  BY <1>1, <3>4 DEF to, c, n, Lands
    <2>10. CASE ~(i = n /\ d = f[cut[n] - r])
      <3> DEFINE m == i + 1
                 p == ps[m]
      <3>1. /\ m \in 0 .. n /\ m \in Nat /\ p \in Coding!Packets
            /\ d.found /\ r + d.consumed = cut[m]
            /\ Taken(got, d) = Append(got, p) /\ good[m] = Append(good[a], p)
        BY <1>1, <2>4, <2>8, <2>10, SMTT(30), ZenonT(60)
      <3>2. (m < l \/ m = l \/ l \in a .. i) /\ i \in Nat /\ l \in Nat
        BY <1>1, <2>4, <2>8
      <3>3. l \in a .. i => m \in l .. n
        BY <1>1, <3>1, <3>2
      <3> HIDE DEF m, p
      <3>4. CASE m < l
        <4>1. cut[m] < cut[l]
          BY <1>1, <3>1, <3>4 DEF Streamed, n
        <4> QED  BY <3>1, <4>1
      <3>5. CASE m = l
        <4>1. to(l)
          BY <1>1, <1>6, <3>1, <3>5
        <4> QED  BY <1>1, <4>1 DEF to, c, n, Lands
      <3>6. CASE l \in a .. i
        <4>1. good[l] = good[a] /\ good[l] \in Seq(Received)
          BY <1>1, <1>5, <2>8, <3>6
        <4>2. p \in Received
          BY <3>1, PacketIsReceivable
        <4>3. Follows(got, good[l], c, x)
          BY <4>1, FollowsNothing
        <4>4. c \in 0 .. Len(good[l])
          <5>1. c \in Nat /\ c = Len(good[l])
            BY <4>1
          <5> HIDE DEF c
          <5> QED  BY <5>1
        <4> HIDE DEF c
        <4>5. Follows(Append(got, p), Append(good[l], p), c, x)
          BY <4>1, <4>2, <4>3, <4>4, FollowsAppend
        <4>6. to(m)
          BY <3>1, <4>1, <4>5 DEF to
        <4> QED  BY <3>3, <3>6, <4>6 DEF to, c, n, Lands
      <3> QED  BY <3>2, <3>4, <3>5, <3>6
    <2> QED  BY <2>9, <2>10
  <1>9. \/ d.found /\ r + d.consumed <= cut[l]
        \/ \E y \in o .. Len(s) : /\ d = f[y] /\ r + y <= cut[l]
                                  /\ \A z \in bad : z <= r + y
    <2>1. \A z \in bad : z + 3 + MaxBody <= cut[l]
      BY DEF Later
    <2>2. \/ f[o].found /\ r + f[o].consumed <= cut[l]
          \/ \E y \in o .. Len(s) : /\ f[o] = f[y] /\ r + y <= cut[l]
                                    /\ \A z \in bad : z <= r + y
      BY <2>1, OverDamage
    <2> QED  BY <2>2
  <1> QED  BY <1>7, <1>8, <1>9

\* Of the packets ahead of all that was hit, the reader has received the good
\* ones up to where it is, and has the others still to come, or it is past
\* them and has them all.
Arrived(r, cut, good, got, k) ==
  \/ \E m \in 0 .. k : r = cut[m] /\ got = good[m]
  \/ cut[k] < r /\ Starts(got, good[k])

\* Past a packet that lies out of reach of all that was hit, it is at the end
\* of one, and what it received last are the good ones since, behind whatever
\* it received from before.
Resumed(r, ps, cut, good, got, k, l) ==
  \E m \in l .. Len(ps) :
    r = cut[m] /\ Follows(got, good[m], Len(good[l]), Len(good[k]))

\* How far the reader has come.
Progress(r, ps, cut, good, got, bad) ==
  \A k \in 0 .. Len(ps) :
    Sooner(cut, bad, k)
      => /\ Arrived(r, cut, good, got, k)
         /\ \A l \in k .. Len(ps) :
              (Later(cut, bad, l) /\ cut[l] <= r)
                => Resumed(r, ps, cut, good, got, k, l)

\* One iteration keeps that, and comes to the end of the stream when there is
\* nothing to be found behind a packet that is out of reach.
LEMMA ReceiveProgress ==
  ASSUME NEW s \in Seq(Coding!Bytes), NEW ps \in Seq(Coding!Packets),
         NEW r, NEW cut, NEW bad, Streamed(s, ps, r, cut, bad),
         NEW good, Goods(good, ps),
         \A i \in 1 .. Len(ps) : Coding!Plain(ps[i]),
         NEW got \in Seq(Received), Progress(r, ps, cut, good, got, bad),
         NEW d, d = Coding!Decode(s)
  PROVE  /\ Progress(r + d.consumed, ps, cut, good, Taken(got, d), bad)
         /\ ~d.found => \A l \in 0 .. Len(ps) :
                          Later(cut, bad, l) => r + d.consumed = cut[Len(ps)]
  <1> DEFINE n == Len(ps)
             q == r + d.consumed
             more == Taken(got, d)
  <1>1. PICK f : d = f[0] /\ IsScan(f, s)
    <2>1. \E f : Coding!Decode(s) = f[0] /\ IsScan(f, s)
      BY DecodeLooks DEF IsScan
    <2> QED  BY <2>1
  <1>2. /\ n \in Nat /\ r \in Nat /\ Len(s) \in Nat /\ cut[n] = r + Len(s)
        /\ \A i \in 0 .. n : cut[i] \in Nat
        /\ \A i, j \in 0 .. n : i <= j => cut[i] <= cut[j]
        /\ \A i, j \in 0 .. n : cut[i] < cut[j] => i < j
        /\ cut[0] = 0 /\ \A x \in bad : x \in Nat /\ x >= 1
    <2>1. cut[0] = 0
      BY DEF Streamed
    <2> QED  BY <2>1, StreamedFacts
  <1>3. /\ \A i \in 0 .. n : /\ good[i] \in Seq(Received)
                             /\ Len(good[i]) \in Nat
        /\ \A i, j \in 0 .. n : i <= j => Len(good[i]) <= Len(good[j])
    BY GoodsGrow
  <1>4. \A o \in 0 .. Len(s) : d = f[o] =>
          /\ d.consumed \in Nat /\ d.consumed >= o /\ d.found \in BOOLEAN
          /\ d.found => /\ d.consumed > o
                        /\ [id |-> d.id, body |-> d.body] \in Received
    <2> TAKE o \in 0 .. Len(s)
    <2> HAVE d = f[o]
    <2>1. Fine(d, s, o)
      BY <1>1, ScanIsFine
    <2>2. /\ d.consumed \in o .. Len(s) /\ d.found \in BOOLEAN
          /\ d.found => /\ d.consumed > o
                        /\ [id |-> d.id, body |-> d.body] \in Received
      BY <2>1 DEF Fine, Received
    <2>3. d.consumed \in Nat /\ d.consumed >= o
      BY <1>2, <2>2
    <2> QED  BY <2>2, <2>3
  <1>5. /\ d.consumed \in Nat /\ d.found \in BOOLEAN /\ q \in Nat /\ r <= q
        /\ ~d.found => more = got
        /\ \A g \in Seq(Received) : Starts(got, g) => Starts(more, g)
    <2>1. 0 \in 0 .. Len(s)
      BY <1>2
    <2>2. /\ d.consumed \in Nat /\ d.found \in BOOLEAN
          /\ d.found => [id |-> d.id, body |-> d.body] \in Received
      BY <1>1, <1>4, <2>1
    <2>3. ASSUME NEW g \in Seq(Received), Starts(got, g)
          PROVE  Starts(more, g)
      <3>1. CASE d.found
        <4> DEFINE p == [id |-> d.id, body |-> d.body]
        <4>1. p \in Received /\ more = Append(got, p)
          BY <2>2, <3>1 DEF Taken
        <4> HIDE DEF p, more
        <4> QED  BY <2>3, <4>1, StartsAppend
      <3>2. CASE ~d.found
        BY <2>3, <3>2 DEF Taken
      <3> QED  BY <3>1, <3>2
    <2>4. q \in Nat /\ r <= q
      BY <1>2, <2>2
    <2>5. ~d.found => more = got
      BY DEF Taken
    <2> QED  BY <2>2, <2>3, <2>4, <2>5
  <1> HIDE DEF n, q, more
  <1>6. ASSUME NEW l \in 0 .. n, Later(cut, bad, l), ~d.found
        PROVE  q = cut[n]
    <2>1. CASE cut[l] <= r
      <3>1. Sooner(cut, bad, 0)
        BY <1>2 DEF Sooner
      <3>2. 0 \in 0 .. n /\ l \in 0 .. n
        BY <1>2
      <3>3. Resumed(r, ps, cut, good, got, 0, l)
        BY <1>6, <2>1, <3>1, <3>2 DEF Progress, n
      <3>4. PICK m \in l .. n :
              r = cut[m] /\ Follows(got, good[m], Len(good[l]), Len(good[0]))
        BY <3>3 DEF Resumed, n
      <3>5. Len(good[0]) \in Nat
        BY <1>3, <3>2
      <3>6. Lands(r, ps, cut, good, got, d, l, Len(good[0]))
        BY <1>1, <1>6, <3>4, <3>5, GoesOn DEF n
      <3> QED  BY <1>6, <3>6 DEF q, Lands, n
    <2>2. CASE ~(cut[l] <= r)
      <3>1. 0 \in 0 .. Len(s) /\ r + 0 <= cut[l] /\ 0 \in Nat
            /\ 0 <= Len(got)
        BY <1>2, <2>2
      <3>2. \/ d.found /\ r + d.consumed < cut[l]
            \/ Lands(r, ps, cut, good, got, d, l, 0)
        BY <1>1, <1>6, <3>1, LeavesGap DEF n
      <3> QED  BY <1>6, <3>2 DEF q, Lands, n
    <2> QED  BY <2>1, <2>2
  <1>7. ASSUME NEW k \in 0 .. n, Sooner(cut, bad, k)
        PROVE  /\ Arrived(q, cut, good, more, k)
               /\ \A l \in k .. n :
                    (Later(cut, bad, l) /\ cut[l] <= q)
                      => Resumed(q, ps, cut, good, more, k, l)
    <2>1. /\ Arrived(r, cut, good, got, k)
          /\ \A l \in k .. n : (Later(cut, bad, l) /\ cut[l] <= r)
                                 => Resumed(r, ps, cut, good, got, k, l)
      BY <1>7 DEF Progress, n
    <2>2. \/ \E i \in 0 .. k : q = cut[i] /\ more = good[i]
          \/ \E o \in 0 .. Len(s) : /\ d = f[o] /\ r + o <= cut[k]
                                    /\ got = good[k] /\ r + o = cut[k]
          \/ cut[k] < r /\ Starts(got, good[k])
      <3>1. CASE \E m \in 0 .. k : r = cut[m] /\ got = good[m]
        <4>1. PICK m \in 0 .. k : r = cut[m] /\ got = good[m]
          BY <3>1
        <4>2. \/ /\ d.found
                 /\ \E i \in 0 .. k : /\ r + d.consumed = cut[i]
                                      /\ Taken(got, d) = good[i]
              \/ got = good[k] /\ d = f[cut[k] - r]
          BY <1>1, <1>7, <4>1, ReachesGap, SMTT(30), ZenonT(60) DEF n
        <4>3. CASE got = good[k] /\ d = f[cut[k] - r]
          <5>1. cut[k] - r \in 0 .. Len(s) /\ r + (cut[k] - r) = cut[k]
            <6>1. /\ m \in 0 .. n /\ m <= k /\ n \in 0 .. n /\ k <= n
                  /\ k \in 0 .. n
              BY <1>2
            <6>2. /\ cut[m] <= cut[k] /\ cut[k] <= cut[n] /\ cut[k] \in Nat
              BY <1>2, <6>1
            <6> QED  BY <1>2, <4>1, <6>2
          <5>2. r + (cut[k] - r) <= cut[k]
            BY <1>2, <5>1
          <5> QED  BY <4>3, <5>1, <5>2
        <4> QED  BY <4>2, <4>3 DEF q, more
      <3> QED  BY <2>1, <3>1 DEF Arrived
    <2>3. k \in 0 .. k /\ good[k] \in Seq(Received) /\ cut[k] \in Nat
          /\ Len(good[k]) \in Nat
      BY <1>2, <1>3
    <2>4. Arrived(q, cut, good, more, k)
      <3>1. CASE \E i \in 0 .. k : q = cut[i] /\ more = good[i]
        BY <3>1 DEF Arrived
      <3>2. CASE \E o \in 0 .. Len(s) : /\ d = f[o] /\ r + o <= cut[k]
                                        /\ got = good[k] /\ r + o = cut[k]
        <4>1. PICK o \in 0 .. Len(s) : /\ d = f[o] /\ r + o = cut[k]
                                       /\ got = good[k]
          BY <3>2
        <4>2. /\ d.consumed >= o /\ (d.found => d.consumed > o)
              /\ d.found \in BOOLEAN
          BY <1>4, <4>1
        <4>3. cut[k] <= q /\ (d.found => cut[k] < q)
          BY <1>2, <1>5, <4>1, <4>2 DEF q
        <4>4. Starts(got, good[k])
          BY <2>3, <4>1 DEF Starts
        <4>5. Starts(more, good[k])
          BY <1>5, <2>3, <4>4
        <4>6. CASE cut[k] < q
          BY <4>5, <4>6 DEF Arrived
        <4>7. CASE ~(cut[k] < q)
          <5>1. q = cut[k] /\ more = got
            BY <1>5, <2>3, <4>3, <4>7
          <5> QED  BY <2>3, <4>1, <5>1 DEF Arrived
        <4> QED  BY <4>6, <4>7
      <3>3. CASE cut[k] < r /\ Starts(got, good[k])
        <4>1. cut[k] < q
          BY <1>2, <1>5, <2>3, <3>3
        <4> QED  BY <1>5, <2>3, <3>3, <4>1 DEF Arrived
      <3> QED  BY <2>2, <3>1, <3>2, <3>3
    <2>5. ASSUME NEW l \in k .. n, Later(cut, bad, l), cut[l] <= q
          PROVE  Resumed(q, ps, cut, good, more, k, l)
      <3> DEFINE least == Len(good[k])
                 c == Len(good[l])
      <3>1. /\ l \in 0 .. n /\ k \in 0 .. n /\ k <= l /\ cut[l] \in Nat
            /\ cut[k] <= cut[l]
        <4>1. l \in 0 .. n /\ k \in 0 .. n /\ k <= l
          BY <1>2
        <4> QED  BY <1>2, <4>1
      <3>2. least \in Nat /\ c \in Nat /\ least <= c
        BY <1>3, <3>1
      <3> HIDE DEF least, c
      <3>3. ASSUME NEW i \in l .. n, q = cut[i],
                   Follows(more, good[i], c, least)
            PROVE  Resumed(q, ps, cut, good, more, k, l)
        BY <3>3 DEF Resumed, n, c, least
      <3>4. ASSUME NEW o \in 0 .. Len(s), d = f[o], r + o <= cut[l],
                   least <= Len(got)
            PROVE  Resumed(q, ps, cut, good, more, k, l)
        <4>1. \/ d.found /\ r + d.consumed < cut[l]
              \/ Lands(r, ps, cut, good, got, d, l, least)
          <5>1. l \in 0 .. Len(ps) /\ d = f[0]
            BY <1>1, <3>1 DEF n
          <5> QED  BY <1>1, <2>5, <3>2, <3>4, <5>1, LeavesGap
        <4>2. ~(q < cut[l])
          BY <1>5, <2>5, <3>1
        <4>3. PICK i \in l .. n : q = cut[i] /\ Follows(more, good[i], c, least)
          BY <4>1, <4>2 DEF q, more, c, Lands, n
        <4> QED  BY <3>3, <4>3
      <3>5. CASE \E i \in 0 .. k : q = cut[i] /\ more = good[i]
        <4>1. PICK i \in 0 .. k : q = cut[i] /\ more = good[i]
          BY <3>5
        <4>2. i \in 0 .. n /\ i \in Nat /\ l \in Nat /\ i <= k
          BY <1>2, <3>1
        <4>3. ~(i < l) \/ cut[i] < cut[l]
          BY <3>1, <4>2 DEF Streamed, n
        <4>4. i \in l .. n /\ i = l
          BY <1>2, <1>5, <2>5, <3>1, <4>1, <4>2, <4>3
        <4>5. c \in 0 .. Len(good[i]) /\ good[i] \in Seq(Received)
          <5>1. good[i] \in Seq(Received) /\ c = Len(good[i])
            BY <1>3, <4>2, <4>4 DEF c
          <5> QED  BY <3>2, <5>1
        <4>6. Follows(good[i], good[i], c, least)
          BY <3>2, <4>5, FollowsItself
        <4> QED  BY <3>3, <4>1, <4>4, <4>6
      <3>6. CASE \E o \in 0 .. Len(s) : /\ d = f[o] /\ r + o <= cut[k]
                                        /\ got = good[k] /\ r + o = cut[k]
        <4>1. PICK o \in 0 .. Len(s) : /\ d = f[o] /\ r + o <= cut[k]
                                       /\ got = good[k]
          BY <3>6
        <4>2. least <= Len(got)
          <5>1. least = Len(got)
            BY <4>1 DEF least
          <5> QED  BY <3>2, <5>1
        <4>3. r + o <= cut[l]
          BY <1>2, <2>3, <3>1, <4>1
        <4> QED  BY <3>4, <4>1, <4>2, <4>3
      <3>7. CASE cut[k] < r /\ Starts(got, good[k])
        <4>1. CASE cut[l] <= r
          <5>1. Resumed(r, ps, cut, good, got, k, l)
            BY <2>1, <2>5, <4>1
          <5>2. PICK m \in l .. n :
                  r = cut[m] /\ Follows(got, good[m], c, least)
            BY <5>1 DEF Resumed, n, c, least
          <5>3. Lands(r, ps, cut, good, got, d, l, least)
            BY <1>1, <2>5, <3>1, <3>2, <5>2, GoesOn DEF n, c, least
          <5> QED  BY <3>3, <5>3 DEF q, more, c, Lands, n
        <4>2. CASE ~(cut[l] <= r)
          <5>1. /\ 0 \in 0 .. Len(s) /\ r + 0 <= cut[l] /\ d = f[0]
            BY <1>1, <1>2, <3>1, <4>2
          <5>2. least <= Len(got)
            BY <3>7 DEF Starts, least
          <5> QED  BY <3>4, <5>1, <5>2
        <4> QED  BY <4>1, <4>2
      <3> QED  BY <2>2, <3>5, <3>6, <3>7
    <2> QED  BY <2>4, <2>5
  <1>8. Progress(q, ps, cut, good, more, bad)
    BY <1>7 DEF Progress, n
  <1> QED  BY <1>6, <1>8 DEF q, more, n

-----------------------------------------------------------------------------
(* The good ones among a part of the packets                               *)

\* Of the first k packets they are what was counted up to k.
LEMMA GoodsBefore ==
  ASSUME NEW ps \in Seq(Coding!Packets), NEW good, Goods(good, ps),
         NEW k \in 0 .. Len(ps)
  PROVE  Coding!Acceptable(SubSeq(ps, 1, k)) = good[k]
  <1> DEFINE n == Len(ps)
             qs == SubSeq(ps, 1, k)
             g == [i \in 0 .. k |-> good[i]]
  <1>1. /\ good \in [0 .. n -> Seq(Coding!Packets)] /\ good[0] = <<>>
        /\ \A i \in 1 .. n :
             good[i] = IF Coding!Oversize(ps[i]) THEN good[i - 1]
                       ELSE Append(good[i - 1], ps[i])
    BY DEF Goods
  <1>2. n \in Nat /\ k \in Nat /\ k <= n
    OBVIOUS
  <1>3. /\ qs \in Seq(Coding!Packets) /\ Len(qs) = k
        /\ \A i \in 1 .. k : qs[i] = ps[i]
    <2>1. \A i \in 1 .. k : ps[i] \in Coding!Packets
      BY <1>2
    <2> QED  BY <1>2, <2>1
  <1> HIDE DEF n, qs
  <1>4. /\ g \in [0 .. k -> Seq(Coding!Packets)]
        /\ \A i \in 0 .. k : g[i] = good[i]
    <2>1. \A i \in 0 .. k : i \in 0 .. n
      BY <1>2
    <2> QED  BY <1>1, <2>1
  <1> HIDE DEF g
  <1>5. \A i \in 1 .. k : g[i] = IF Coding!Oversize(qs[i]) THEN g[i - 1]
                                 ELSE Append(g[i - 1], qs[i])
    <2> TAKE i \in 1 .. k
    <2>1. i \in 0 .. k /\ i - 1 \in 0 .. k /\ i \in 1 .. n
      BY <1>2
    <2> QED  BY <1>1, <1>3, <1>4, <2>1
  <1>6. g[0] = <<>> /\ 0 \in 0 .. k /\ k \in 0 .. k
    BY <1>1, <1>2, <1>4
  <1>7. Goods(g, qs)
    BY <1>3, <1>4, <1>5, <1>6 DEF Goods
  <1>8. Coding!Acceptable(qs) = g[Len(qs)]
    BY <1>3, <1>7, AcceptableIs
  <1> QED  BY <1>3, <1>4, <1>6, <1>8 DEF qs

\* A rest of a sequence grows as the sequence does.
LEMMA RestAppend ==
  ASSUME NEW S, NEW s \in Seq(S), NEW p \in S, NEW c \in 0 .. Len(s)
  PROVE  SubSeq(Append(s, p), c + 1, Len(s) + 1) =
           Append(SubSeq(s, c + 1, Len(s)), p)
  <1> DEFINE a == Len(s)
             t == Append(s, p)
             r == SubSeq(s, c + 1, a)
             u == SubSeq(t, c + 1, a + 1)
             v == Append(r, p)
  <1>1. /\ t \in Seq(S) /\ a \in Nat /\ Len(t) = a + 1 /\ t[a + 1] = p
        /\ \A j \in 1 .. a : t[j] = s[j]
    BY AppendIs
  <1>2. /\ r \in Seq(S) /\ Len(r) = a - c
        /\ \A j \in 1 .. a - c : r[j] = s[c + j]
    BY Rest
  <1>3. c \in Nat /\ c <= a
    <2> HIDE DEF a
    <2> QED  BY <1>1 DEF a
  <1>4. /\ u \in Seq(S) /\ Len(u) = a + 1 - c
        /\ \A j \in 1 .. a + 1 - c : u[j] = t[c + j]
    <2> HIDE DEF t, a
    <2>1. c \in 0 .. Len(t)
      BY <1>1, <1>3
    <2>2. /\ SubSeq(t, c + 1, Len(t)) \in Seq(S)
          /\ Len(SubSeq(t, c + 1, Len(t))) = Len(t) - c
          /\ \A j \in 1 .. Len(t) - c :
               SubSeq(t, c + 1, Len(t))[j] = t[c + j]
      BY <1>1, <2>1, Rest
    <2> QED  BY <1>1, <2>2
  <1>5. /\ v \in Seq(S) /\ Len(v) = (a - c) + 1 /\ v[(a - c) + 1] = p
        /\ \A j \in 1 .. a - c : v[j] = r[j]
    <2> HIDE DEF r, a
    <2>1. /\ v \in Seq(S) /\ Len(v) = Len(r) + 1 /\ v[Len(r) + 1] = p
          /\ \A j \in 1 .. Len(r) : v[j] = r[j]
      BY <1>2, AppendIs
    <2> HIDE DEF v
    <2> QED  BY <1>2, <2>1
  <1> HIDE DEF a, t, r, u, v
  <1>6. Len(u) = Len(v) /\ Len(v) \in Nat
    BY <1>1, <1>3, <1>4, <1>5
  <1>7. \A j \in 1 .. Len(v) : u[j] = v[j]
    <2> TAKE j \in 1 .. Len(v)
    <2>1. CASE j \in 1 .. a - c
      <3>1. c + j \in 1 .. a /\ j \in 1 .. a + 1 - c
        BY <1>1, <1>3, <2>1
      <3> QED  BY <1>1, <1>2, <1>4, <1>5, <2>1, <3>1
    <2>2. CASE j = (a - c) + 1
      <3>1. c + j = a + 1 /\ j \in 1 .. a + 1 - c
        BY <1>1, <1>3, <2>2
      <3> QED  BY <1>1, <1>4, <1>5, <2>2, <3>1
    <2> QED  BY <1>1, <1>3, <1>5, <2>1, <2>2
  <1>8. u = [j \in 1 .. Len(v) |-> u[j]] /\ v = [j \in 1 .. Len(v) |-> v[j]]
    BY <1>4, <1>5, <1>6
  <1>9. u = v
    BY <1>7, <1>8, Zenon
  <1> QED  BY <1>9 DEF a, r, t, u, v

\* Of the packets behind the first l they are what was counted since.
LEMMA GoodsBehind ==
  ASSUME NEW ps \in Seq(Coding!Packets), NEW good, Goods(good, ps),
         NEW l \in 0 .. Len(ps)
  PROVE  Coding!Acceptable(SubSeq(ps, l + 1, Len(ps))) =
           SubSeq(good[Len(ps)], Len(good[l]) + 1, Len(good[Len(ps)]))
  <1> DEFINE n == Len(ps)
             m == n - l
             qs == SubSeq(ps, l + 1, n)
             c == Len(good[l])
             rest(i) == SubSeq(good[l + i], c + 1, Len(good[l + i]))
             g == [i \in 0 .. m |-> rest(i)]
  <1>1. \A i \in 1 .. n :
          good[i] = IF Coding!Oversize(ps[i]) THEN good[i - 1]
                    ELSE Append(good[i - 1], ps[i])
    BY DEF Goods
  <1>2. n \in Nat /\ l \in Nat /\ l <= n /\ m \in Nat /\ l + m = n
    OBVIOUS
  <1>3. /\ qs \in Seq(Coding!Packets) /\ Len(qs) = m
        /\ \A i \in 1 .. m : qs[i] = ps[l + i]
    BY Rest
  <1>4. \A i \in 1 .. n : ps[i] \in Coding!Packets
    OBVIOUS
  <1>5. /\ \A i \in 0 .. n : /\ good[i] \in Seq(Coding!Packets)
                             /\ Len(good[i]) \in Nat
        /\ \A i, j \in 0 .. n : i <= j => Len(good[i]) <= Len(good[j])
    BY GoodsGrow
  <1> HIDE DEF n, m, qs
  <1>6. ASSUME NEW i \in 0 .. m
        PROVE  /\ l + i \in 0 .. n /\ c \in 0 .. Len(good[l + i])
               /\ good[l + i] \in Seq(Coding!Packets)
    <2>1. l + i \in 0 .. n /\ l \in 0 .. n /\ l <= l + i
      BY <1>2
    <2>2. /\ good[l + i] \in Seq(Coding!Packets) /\ c <= Len(good[l + i])
          /\ c \in Nat /\ Len(good[l + i]) \in Nat
      BY <1>5, <2>1
    <2> HIDE DEF c
    <2> QED  BY <2>1, <2>2
  <1> HIDE DEF c
  <1>7. /\ g \in [0 .. m -> Seq(Coding!Packets)]
        /\ \A i \in 0 .. m : g[i] = rest(i)
    <2>1. \A i \in 0 .. m : rest(i) \in Seq(Coding!Packets)
      BY <1>6, Rest
    <2> HIDE DEF rest
    <2> QED  BY <2>1
  <1>8. g[0] = <<>>
    <2>1. 0 \in 0 .. m /\ l + 0 = l
      BY <1>2
    <2>2. rest(0) = SubSeq(good[l], c + 1, c)
      BY <2>1 DEF c
    <2>3. c \in Nat /\ good[l] \in Seq(Coding!Packets)
      <3>1. c \in 0 .. Len(good[l]) /\ good[l] \in Seq(Coding!Packets)
        BY <1>6, <2>1
      <3>2. Len(good[l]) \in Nat
        BY <3>1
      <3> QED  BY <3>1, <3>2
    <2>4. SubSeq(good[l], c + 1, c) = <<>>
      BY <2>3
    <2> HIDE DEF rest, g
    <2> QED  BY <1>7, <2>1, <2>2, <2>4
  <1> HIDE DEF g
  <1>9. ASSUME NEW i \in 1 .. m
        PROVE  g[i] = IF Coding!Oversize(qs[i]) THEN g[i - 1]
                      ELSE Append(g[i - 1], qs[i])
    <2> DEFINE j == l + i
               p == ps[j]
    <2>1. /\ j \in 1 .. n /\ i \in 0 .. m /\ i - 1 \in 0 .. m
          /\ l + (i - 1) = j - 1
      BY <1>2
    <2>2. /\ p \in Coding!Packets /\ qs[i] = p
          /\ good[j] = IF Coding!Oversize(p) THEN good[j - 1]
                       ELSE Append(good[j - 1], p)
      BY <1>1, <1>3, <1>4, <2>1
    <2>3. g[i] = rest(i) /\ g[i - 1] = rest(i - 1)
      BY <1>7, <2>1
    <2>4. /\ good[j - 1] \in Seq(Coding!Packets)
          /\ c \in 0 .. Len(good[j - 1])
      BY <1>6, <2>1
    <2>5. /\ rest(i) = SubSeq(good[j], c + 1, Len(good[j]))
          /\ rest(i - 1) = SubSeq(good[j - 1], c + 1, Len(good[j - 1]))
      BY <2>1
    <2> HIDE DEF j, p, rest
    <2>6. CASE Coding!Oversize(p)
      BY <2>2, <2>3, <2>5, <2>6
    <2>7. CASE ~Coding!Oversize(p)
      <3>1. Len(good[j]) = Len(good[j - 1]) + 1
        BY <2>2, <2>4, <2>7, AppendIs
      <3>2. SubSeq(good[j], c + 1, Len(good[j - 1]) + 1) =
              Append(SubSeq(good[j - 1], c + 1, Len(good[j - 1])), p)
        BY <2>2, <2>4, <2>7, RestAppend
      <3> QED  BY <2>2, <2>3, <2>5, <2>7, <3>1, <3>2
    <2> QED  BY <2>6, <2>7
  <1>10. Goods(g, qs)
    BY <1>3, <1>7, <1>8, <1>9 DEF Goods
  <1>11. Coding!Acceptable(qs) = g[Len(qs)]
    BY <1>3, <1>10, AcceptableIs
  <1>12. g[m] = SubSeq(good[n], c + 1, Len(good[n]))
    <2>1. m \in 0 .. m
      BY <1>2
    <2>2. rest(m) = SubSeq(good[n], c + 1, Len(good[n]))
      BY <1>2
    <2> HIDE DEF rest
    <2> QED  BY <1>7, <2>1, <2>2
  <1> QED  BY <1>3, <1>11, <1>12 DEF qs, c, n

\* What Starts and Follows say, in the words of the run.
LEMMA StartsIsPrefix ==
  ASSUME NEW S, NEW t \in Seq(S), NEW s \in Seq(S), Starts(t, s)
  PROVE  Coding!IsPrefix(s, t)
  <1> DEFINE k == Len(s)
  <1>1. /\ k \in Nat /\ Len(t) \in Nat /\ k <= Len(t)
        /\ \A i \in 1 .. k : t[i] = s[i]
    BY DEF Starts
  <1>2. SubSeq(s, 1, k) = [i \in 1 .. k |-> s[i]]
    OBVIOUS
  <1>3. SubSeq(t, 1, k) = [i \in 1 .. k |-> t[i]]
    <2> HIDE DEF k
    <2> QED  BY <1>1
  <1>4. SubSeq(s, 1, k) = SubSeq(t, 1, k)
    <2> HIDE DEF k
    <2> QED  BY <1>1, <1>2, <1>3
  <1> QED  BY <1>1, <1>4 DEF Coding!IsPrefix

\* A reversed sequence, element by element.
LEMMA ReverseIs ==
  ASSUME NEW S, NEW t \in Seq(S)
  PROVE  /\ Coding!Reverse(t) \in Seq(S) /\ Len(t) \in Nat
         /\ Len(Coding!Reverse(t)) = Len(t)
         /\ \A i \in 1 .. Len(t) : Coding!Reverse(t)[i] = t[(Len(t) - i) + 1]
  <1> DEFINE a == Len(t)
             v == Coding!Reverse(t)
  <1>1. a \in Nat
    OBVIOUS
  <1>2. v = [i \in 1 .. a |-> t[(a - i) + 1]]
    BY DEF Coding!Reverse
  <1> HIDE DEF a, v
  <1>3. \A i \in 1 .. a : (a - i) + 1 \in 1 .. a
    BY <1>1
  <1>4. \A i \in 1 .. a : t[(a - i) + 1] \in S
    BY <1>1, <1>3 DEF a
  <1>5. v \in Seq(S) /\ Len(v) = a
    BY <1>1, <1>2, <1>4
  <1>6. \A i \in 1 .. a : v[i] = t[(a - i) + 1]
    BY <1>2
  <1> QED  BY <1>1, <1>5, <1>6 DEF a, v

\* What follows the first c elements of s is a suffix of t.
LEMMA FollowsIsSuffix ==
  ASSUME NEW S, NEW t \in Seq(S), NEW s \in Seq(S), NEW c \in 0 .. Len(s),
         NEW x \in Nat, Follows(t, s, c, x), NEW rest,
         rest = SubSeq(s, c + 1, Len(s))
  PROVE  Coding!IsSuffix(rest, t) /\ x + Len(rest) <= Len(t)
  <1> DEFINE a == Len(t)
             b == Len(s)
             k == Len(rest)
             u == Coding!Reverse(rest)
             v == Coding!Reverse(t)
  <1>1. /\ rest \in Seq(S) /\ k = b - c /\ a \in Nat /\ b \in Nat
        /\ \A i \in 1 .. b - c : rest[i] = s[c + i]
    BY Rest
  <1>2. PICK h \in Int : /\ a = b + h /\ x <= c + h
                         /\ \A i \in c + 1 .. b : t[i + h] = s[i]
    BY DEF Follows
  <1>3. c \in Nat /\ c <= b
    <2> HIDE DEF b
    <2> QED  BY <1>1 DEF b
  <1>4. /\ u \in Seq(S) /\ Len(u) = k
        /\ \A i \in 1 .. k : u[i] = rest[(k - i) + 1]
    BY <1>1, ReverseIs
  <1>5. /\ v \in Seq(S) /\ Len(v) = a
        /\ \A i \in 1 .. a : v[i] = t[(a - i) + 1]
    BY ReverseIs
  <1> HIDE DEF a, b, k, u, v
  <1>6. k \in Nat /\ k <= a /\ x + k <= a
    BY <1>1, <1>2, <1>3
  <1>7. ASSUME NEW i \in 1 .. k  PROVE v[i] = u[i]
    <2>1. /\ i \in 1 .. a /\ (k - i) + 1 \in 1 .. b - c
          /\ c + ((k - i) + 1) \in c + 1 .. b
          /\ c + ((k - i) + 1) + h = (a - i) + 1
      BY <1>1, <1>2, <1>3, <1>6
    <2> DEFINE y == (k - i) + 1
               z == (a - i) + 1
    <2>2. u[i] = rest[y] /\ v[i] = t[z]
      BY <1>4, <1>5, <2>1
    <2>3. y \in 1 .. b - c /\ c + y \in c + 1 .. b /\ c + y + h = z
      BY <2>1
    <2> HIDE DEF y, z
    <2>4. rest[y] = s[c + y] /\ t[c + y + h] = s[c + y]
      BY <1>1, <1>2, <2>3
    <2> QED  BY <2>2, <2>3, <2>4
  <1>8. Starts(v, u)
    BY <1>4, <1>5, <1>6, <1>7 DEF Starts
  <1>9. Coding!IsPrefix(u, v)
    BY <1>4, <1>5, <1>8, StartsIsPrefix
  <1> QED  BY <1>6, <1>9 DEF Coding!IsSuffix, a, k, u, v

-----------------------------------------------------------------------------
(* The invariant of encoding and decoding                                  *)

\* While nothing is oversized or overwritten, what was received is what was
\* sent and the rest is in the stream.
Exact(r, cut) ==
  (f_damage = 0 /\ \A i \in DOMAIN f_sent : ~Coding!Oversize(f_sent[i]))
    => /\ Len(f_got) \in 0 .. Len(f_sent) /\ r = cut[Len(f_got)]
       /\ \A i \in 1 .. Len(f_got) : f_got[i] = f_sent[i]

\* While the packets are plain, the reader loses its place only from what was
\* overwritten on, and finds it again behind.
Followed(r, cut, good) ==
  (\A i \in DOMAIN f_sent : Coding!Plain(f_sent[i]))
    => Progress(r, f_sent, cut, good, f_got, f_spoilt)

CodingInv ==
  /\ Coding!TypeOK
  /\ f_damage = 0 => f_spoilt = {}
  /\ \E r, cut, good :
       /\ Streamed(f_stream, f_sent, r, cut, f_spoilt)
       /\ Goods(good, f_sent)
       /\ Exact(r, cut) /\ Followed(r, cut, good)

\* The type invariant, with the lengths and domains of its sequences.
LEMMA CodingTypes ==
  ASSUME Coding!TypeOK
  PROVE  /\ f_stream \in Seq(Coding!Bytes) /\ Len(f_stream) \in Nat
         /\ f_sent \in Seq(Coding!Packets) /\ Len(f_sent) \in Nat
         /\ f_got \in Seq(Received) /\ Len(f_got) \in Nat
         /\ f_damage \in Nat /\ f_damage \in 0 .. MaxDamage
         /\ f_spoilt \subseteq Nat
         /\ DOMAIN f_sent = 1 .. Len(f_sent)
         /\ DOMAIN f_stream = 1 .. Len(f_stream)
  BY CodingConstants DEF Coding!TypeOK, Received

\* Nothing was sent yet.
LEMMA CodingInit ==
  ASSUME Coding!Init
  PROVE  CodingInv
  <1>1. Coding!TypeOK
    <2> USE DEF Coding!Init
    <2>1. f_damage \in 0 .. MaxDamage
      BY CodingConstants
    <2>2. /\ f_stream \in Seq(Coding!Bytes) /\ f_sent \in Seq(Coding!Packets)
          /\ f_got \in Seq([id : Coding!Bytes, body : Seq(Coding!Bytes)])
          /\ f_spoilt \subseteq Nat
      OBVIOUS
    <2> QED  BY <2>1, <2>2 DEF Coding!TypeOK
  <1> DEFINE cut == [i \in 0 .. 0 |-> 0]
             good == [i \in 0 .. 0 |-> <<>>]
  <1>2. /\ f_stream = <<>> /\ f_sent = <<>> /\ f_got = <<>> /\ f_spoilt = {}
        /\ Len(<<>>) = 0 /\ 0 \in 0 .. 0 /\ \A i \in 0 .. 0 : i = 0
        /\ \A i : i \notin 1 .. 0
    BY DEF Coding!Init
  <1>3. /\ cut \in [0 .. 0 -> Nat] /\ cut[0] = 0
        /\ good \in [0 .. 0 -> Seq(Coding!Packets)] /\ good[0] = <<>>
    OBVIOUS
  <1> HIDE DEF cut, good
  <1>4. Streamed(<<>>, <<>>, 0, cut, {})
    <2>1. \A i, j \in 0 .. 0 : i < j => cut[i] < cut[j]
      BY <1>2
    <2>2. Len(<<>>) = cut[0] - 0 /\ 0 \in 0 .. cut[0]
      BY <1>2, <1>3
    <2> QED  BY <1>2, <1>3, <2>1, <2>2 DEF Streamed
  <1>5. Goods(good, <<>>)
    BY <1>2, <1>3 DEF Goods
  <1>6. Exact(0, cut)
    BY <1>2, <1>3 DEF Exact
  <1>7. Progress(0, <<>>, cut, good, <<>>, {})
    <2> SUFFICES ASSUME NEW k \in 0 .. 0
                 PROVE  /\ Arrived(0, cut, good, <<>>, k)
                        /\ \A l \in k .. 0 :
                             Resumed(0, <<>>, cut, good, <<>>, k, l)
      BY <1>2 DEF Progress
    <2>1. k = 0 /\ \A l \in k .. 0 : l = 0
      BY <1>2
    <2>2. Arrived(0, cut, good, <<>>, 0)
      BY <1>2, <1>3 DEF Arrived
    <2>3. Resumed(0, <<>>, cut, good, <<>>, 0, 0)
      <3>1. /\ <<>> \in Seq(Received) /\ 0 \in 0 .. Len(<<>>) /\ 0 \in Nat
            /\ 0 <= 0
        OBVIOUS
      <3>2. Follows(<<>>, <<>>, 0, 0)
        BY <3>1, FollowsItself
      <3>3. Follows(<<>>, good[0], Len(good[0]), Len(good[0]))
        BY <1>2, <1>3, <3>2
      <3> QED  BY <1>2, <1>3, <3>3 DEF Resumed
    <2> QED  BY <2>1, <2>2, <2>3
  <1>8. Followed(0, cut, good)
    BY <1>2, <1>7 DEF Followed
  <1> QED  BY <1>1, <1>2, <1>4, <1>5, <1>6, <1>8 DEF CodingInv

\* A commit puts the packet behind the others.
LEMMA CodingSend ==
  ASSUME CodingInv, NEW p \in Coding!Packets, Coding!Send(p)
  PROVE  CodingInv'
  <1> DEFINE n == Len(f_sent)
  <1>1. /\ f_stream' = f_stream \o Coding!Encode(p)
        /\ f_sent' = Append(f_sent, p)
        /\ f_got' = f_got /\ f_damage' = f_damage /\ f_spoilt' = f_spoilt
    BY DEF Coding!Send
  <1>2. /\ f_stream \in Seq(Coding!Bytes) /\ f_sent \in Seq(Coding!Packets)
        /\ n \in Nat /\ Len(f_got) \in Nat /\ DOMAIN f_sent = 1 .. n
    BY CodingTypes DEF CodingInv
  <1>3. Coding!TypeOK'
    <2>1. f_stream' \in Seq(Coding!Bytes)
      <3>1. Coding!Encode(p) \in Seq(Coding!Bytes)
        BY EncodeFacts
      <3> QED  BY <1>1, <1>2, <3>1, Concat
    <2>2. f_sent' \in Seq(Coding!Packets)
      BY <1>1, <1>2
    <2> QED  BY <1>1, <2>1, <2>2 DEF CodingInv, Coding!TypeOK
  <1>4. /\ \A i \in 1 .. n : f_sent'[i] = f_sent[i]
        /\ DOMAIN f_sent' = 1 .. n + 1 /\ Len(f_sent') = n + 1
        /\ \A i \in DOMAIN f_sent : i \in DOMAIN f_sent'
    BY <1>1, <1>2
  <1>5. PICK r, cut, good :
          /\ Streamed(f_stream, f_sent, r, cut, f_spoilt)
          /\ Goods(good, f_sent)
          /\ Exact(r, cut) /\ Followed(r, cut, good)
    BY DEF CodingInv
  <1>6. PICK cut2 : /\ Streamed(f_stream', f_sent', r, cut2, f_spoilt)
                    /\ \A i \in 0 .. n : cut2[i] = cut[i]
    BY <1>1, <1>2, <1>5, StreamedSend
  <1>7. PICK good2 : /\ Goods(good2, f_sent')
                     /\ \A i \in 0 .. n : good2[i] = good[i]
    BY <1>1, <1>2, <1>5, GoodsSend
  <1>8. /\ r \in Nat /\ \A i \in 0 .. n : cut[i] \in Nat
        /\ \A x \in f_spoilt : x \in Nat /\ x <= cut[n]
        /\ r <= cut[n] /\ cut[n] < cut2[n + 1] /\ n \in 0 .. n
        /\ cut2[n + 1] \in Nat
    <2>1. /\ r \in Nat /\ cut[n] = r + Len(f_stream) /\ Len(f_stream) \in Nat
          /\ \A i \in 0 .. n : cut[i] \in Nat
          /\ \A x \in f_spoilt : x \in Nat /\ x <= cut[n]
      BY <1>2, <1>5, StreamedFacts
    <2>2. n \in 0 .. n /\ n + 1 \in 0 .. n + 1 /\ n \in 0 .. n + 1 /\ n < n + 1
      BY <1>2
    <2> HIDE DEF n
    <2>3. cut2[n] < cut2[n + 1] /\ cut2[n + 1] \in Nat
      BY <1>4, <1>6, <2>2 DEF Streamed
    <2> QED  BY <1>6, <2>1, <2>2, <2>3
  <1> HIDE DEF n
  <1>9. Exact(r, cut2)'
    <2> SUFFICES ASSUME f_damage = 0,
                        \A i \in DOMAIN f_sent : ~Coding!Oversize(f_sent[i])
                 PROVE  /\ Len(f_got) \in 0 .. n + 1 /\ r = cut2[Len(f_got)]
                        /\ \A i \in 1 .. Len(f_got) : f_got[i] = f_sent'[i]
      BY <1>1, <1>2, <1>4 DEF Exact
    <2>1. /\ Len(f_got) \in 0 .. n /\ r = cut[Len(f_got)]
          /\ \A i \in 1 .. Len(f_got) : f_got[i] = f_sent[i]
      BY <1>5 DEF Exact, n
    <2>2. \A i \in 1 .. Len(f_got) : i \in 1 .. n
      BY <1>2, <2>1
    <2>3. Len(f_got) \in 0 .. n + 1
      BY <1>2, <2>1
    <2> QED  BY <1>4, <1>6, <2>1, <2>2, <2>3
  <1>10. Followed(r, cut2, good2)'
    <2> SUFFICES ASSUME \A i \in DOMAIN f_sent : Coding!Plain(f_sent[i])
                 PROVE  Progress(r, f_sent', cut2, good2, f_got, f_spoilt)
      BY <1>1, <1>2, <1>4 DEF Followed
    <2>1. Progress(r, f_sent, cut, good, f_got, f_spoilt)
      BY <1>5 DEF Followed
    <2> SUFFICES ASSUME NEW k \in 0 .. n + 1, Sooner(cut2, f_spoilt, k)
                 PROVE  /\ Arrived(r, cut2, good2, f_got, k)
                        /\ \A l \in k .. n + 1 :
                             (Later(cut2, f_spoilt, l) /\ cut2[l] <= r)
                               => Resumed(r, f_sent', cut2, good2, f_got, k, l)
      BY <1>4 DEF Progress
    <2>2. CASE k \in 0 .. n
      <3>1. Sooner(cut, f_spoilt, k)
        BY <1>6, <2>2 DEF Sooner
      <3>2. /\ Arrived(r, cut, good, f_got, k)
            /\ \A l \in k .. n :
                 (Later(cut, f_spoilt, l) /\ cut[l] <= r)
                   => Resumed(r, f_sent, cut, good, f_got, k, l)
        BY <2>1, <2>2, <3>1 DEF Progress, n
      <3>3. Arrived(r, cut2, good2, f_got, k)
        <4>1. \A m \in 0 .. k : m \in 0 .. n
          BY <1>2, <2>2
        <4> QED  BY <1>6, <1>7, <2>2, <3>2, <4>1 DEF Arrived
      <3>4. ASSUME NEW l \in k .. n + 1, Later(cut2, f_spoilt, l),
                   cut2[l] <= r
            PROVE  Resumed(r, f_sent', cut2, good2, f_got, k, l)
        <4>1. l # n + 1
          BY <1>8, <3>4
        <4>2. l \in k .. n /\ l \in 0 .. n
          BY <1>2, <2>2, <4>1
        <4>3. Later(cut, f_spoilt, l) /\ cut[l] <= r
          BY <1>6, <3>4, <4>2 DEF Later
        <4>4. PICK m \in l .. n :
                /\ r = cut[m]
                /\ Follows(f_got, good[m], Len(good[l]), Len(good[k]))
          BY <3>2, <4>2, <4>3 DEF Resumed, n
        <4>5. m \in 0 .. n /\ m \in l .. n + 1
          BY <1>2, <4>2
        <4> QED  BY <1>4, <1>6, <1>7, <2>2, <4>2, <4>4, <4>5 DEF Resumed
      <3> QED  BY <3>3, <3>4
    <2>3. CASE k = n + 1
      <3>1. Sooner(cut, f_spoilt, n)
        <4>1. \A x \in f_spoilt : cut[n] < x
          <5> TAKE x \in f_spoilt
          <5>1. cut2[n + 1] < x
            BY <2>3 DEF Sooner
          <5> QED  BY <1>8, <5>1
        <4> QED  BY <4>1 DEF Sooner
      <3>2. Arrived(r, cut, good, f_got, n)
        BY <1>8, <2>1, <3>1 DEF Progress, n
      <3>3. PICK m \in 0 .. n : r = cut[m] /\ f_got = good[m]
        BY <1>8, <3>2 DEF Arrived
      <3>4. m \in 0 .. k
        BY <1>2, <2>3
      <3>5. Arrived(r, cut2, good2, f_got, k)
        BY <1>6, <1>7, <3>3, <3>4 DEF Arrived
      <3>6. ASSUME NEW l \in k .. n + 1, cut2[l] <= r  PROVE FALSE
        <4>1. l = n + 1
          BY <1>2, <2>3
        <4> QED  BY <1>8, <3>6, <4>1
      <3> QED  BY <3>5, <3>6
    <2> QED  BY <1>2, <2>2, <2>3
  <1>11. /\ Streamed(f_stream, f_sent, r, cut2, f_spoilt)'
         /\ Goods(good2, f_sent)' /\ (f_damage = 0 => f_spoilt = {})'
    BY <1>1, <1>6, <1>7 DEF CodingInv
  <1> QED  BY <1>3, <1>9, <1>10, <1>11 DEF CodingInv

\* What is copied over the stream is not yet consumed, and neither is any
\* packet behind it.
LEMMA CodingDamage ==
  ASSUME CodingInv, NEW x \in DOMAIN f_stream, NEW run \in Runs,
         Coding!Damage(x, run)
  PROVE  CodingInv'
  <1> DEFINE hit == x .. x + Len(run) - 1
             n == Len(f_sent)
             more == {Coding!Consumed + j : j \in hit}
  <1>1. /\ hit # {} /\ hit \subseteq DOMAIN f_stream
        /\ f_stream' = [j \in DOMAIN f_stream |->
                          IF j \in hit THEN run[j - x + 1] ELSE f_stream[j]]
        /\ f_damage < MaxDamage /\ f_damage' = f_damage + 1
        /\ f_spoilt' = f_spoilt \cup more
        /\ f_sent' = f_sent /\ f_got' = f_got
    BY DEF Coding!Damage
  <1>2. /\ f_stream \in Seq(Coding!Bytes) /\ f_sent \in Seq(Coding!Packets)
        /\ f_damage \in Nat /\ x \in 1 .. Len(f_stream)
        /\ DOMAIN f_stream = 1 .. Len(f_stream) /\ Len(f_stream) \in Nat
        /\ n \in Nat /\ f_spoilt \subseteq Nat
    BY CodingTypes DEF CodingInv
  <1>3. run \in Seq(Coding!Bytes) /\ Len(run) \in Nat
    BY CodingConstants
  <1>4. /\ f_stream' \in Seq(Coding!Bytes) /\ Len(f_stream') = Len(f_stream)
        /\ \A j \in 1 .. Len(f_stream) :
             j \notin hit => f_stream'[j] = f_stream[j]
    <2>1. \A j \in hit : j - x + 1 \in 1 .. Len(run)
      BY <1>2, <1>3
    <2> HIDE DEF hit
    <2>2. \A j \in 1 .. Len(f_stream) :
            (IF j \in hit THEN run[j - x + 1] ELSE f_stream[j]) \in Coding!Bytes
      <3> TAKE j \in 1 .. Len(f_stream)
      <3>1. j \in hit => run[j - x + 1] \in Coding!Bytes
        BY <1>3, <2>1
      <3>2. f_stream[j] \in Coding!Bytes
        BY <1>2
      <3> QED  BY <3>1, <3>2
    <2>3. f_stream' = [j \in 1 .. Len(f_stream) |->
                         IF j \in hit THEN run[j - x + 1] ELSE f_stream[j]]
      BY <1>1, <1>2
    <2> QED  BY <1>2, <2>2, <2>3
  <1> HIDE DEF n
  <1>5. PICK r, cut, good :
          /\ Streamed(f_stream, f_sent, r, cut, f_spoilt)
          /\ Goods(good, f_sent)
          /\ Exact(r, cut) /\ Followed(r, cut, good)
    BY DEF CodingInv
  <1>6. /\ r \in Nat /\ cut[n] = r + Len(f_stream)
        /\ \A i \in 0 .. n : cut[i] \in Nat
    BY <1>2, <1>5, StreamedFacts DEF n
  <1>7. Coding!Consumed = r
    <2>1. Coding!Ends(f_sent) = cut
      <3>1. /\ cut \in [0 .. Len(f_sent) -> Nat] /\ cut[0] = 0
            /\ \A i \in 1 .. Len(f_sent) :
                 cut[i] = cut[i - 1] + Len(Coding!Encode(f_sent[i]))
        BY <1>5 DEF Streamed
      <3> QED  BY <1>2, <3>1, EndsAre
    <2>2. Coding!Consumed = cut[n] - Len(f_stream)
      BY <2>1 DEF Coding!Consumed, n
    <2> QED  BY <1>2, <1>6, <2>2
  <1>8. more = {r + j : j \in hit}
    BY <1>7
  <1>9. \A y \in more : y \in Nat /\ y > r
    <2>1. \A j \in hit : j \in Nat /\ j >= 1
      BY <1>1, <1>2
    <2> HIDE DEF hit, more
    <2> QED  BY <1>6, <1>8, <2>1
  <1>10. more # {}
    <2> HIDE DEF hit, more
    <2> QED  BY <1>1, <1>8
  <1> HIDE DEF hit, more
  <1>11. Streamed(f_stream', f_sent', r, cut, f_spoilt')
    <2>1. hit \in SUBSET (1 .. Len(f_stream))
      BY <1>1, <1>2
    <2>2. Streamed(f_stream', f_sent, r, cut, f_spoilt \cup {r + j : j \in hit})
      BY <1>2, <1>4, <1>5, <2>1, StreamedDamage
    <2> QED  BY <1>1, <1>8, <2>2
  <1>12. Coding!TypeOK'
    <2>1. f_damage' \in 0 .. MaxDamage
      BY <1>1, <1>2, CodingConstants, SMTT(30), ZenonT(60)
    <2>2. f_spoilt' \subseteq Nat
      BY <1>1, <1>2, <1>9
    <2> QED  BY <1>1, <1>4, <2>1, <2>2 DEF CodingInv, Coding!TypeOK
  <1>13. f_damage' # 0
    BY <1>1, <1>2
  <1>14. Exact(r, cut)'
    BY <1>13 DEF Exact
  <1>15. Followed(r, cut, good)'
    <2> SUFFICES ASSUME \A i \in DOMAIN f_sent : Coding!Plain(f_sent[i])
                 PROVE  Progress(r, f_sent, cut, good, f_got, f_spoilt')
      BY <1>1 DEF Followed
    <2>1. Progress(r, f_sent, cut, good, f_got, f_spoilt)
      BY <1>5 DEF Followed
    <2> SUFFICES ASSUME NEW k \in 0 .. n, Sooner(cut, f_spoilt', k)
                 PROVE  /\ Arrived(r, cut, good, f_got, k)
                        /\ \A l \in k .. n :
                             ~(Later(cut, f_spoilt', l) /\ cut[l] <= r)
      BY DEF Progress, n
    <2>2. Sooner(cut, f_spoilt, k)
      BY <1>1 DEF Sooner
    <2>3. Arrived(r, cut, good, f_got, k)
      BY <2>1, <2>2 DEF Progress, n
    <2>4. ASSUME NEW l \in k .. n, Later(cut, f_spoilt', l), cut[l] <= r
          PROVE  FALSE
      <3>1. PICK y \in more : y \in Nat /\ y > r
        BY <1>9, <1>10
      <3>2. y + 3 + MaxBody <= cut[l] /\ MaxBody \in Nat
        BY <1>1, <2>4, CodingConstants DEF Later
      <3>3. cut[l] \in Nat
        <4>1. l \in 0 .. n
          BY <1>2
        <4> QED  BY <1>6, <4>1
      <3> QED  BY <1>6, <2>4, <3>1, <3>2, <3>3
    <2> QED  BY <2>3, <2>4
  <1>16. Goods(good, f_sent)'
    BY <1>1, <1>5
  <1> QED  BY <1>11, <1>12, <1>13, <1>14, <1>15, <1>16 DEF CodingInv

\* The reader consumes what it looked at, and receives what it found.
LEMMA CodingReceive ==
  ASSUME CodingInv, Coding!Receive
  PROVE  CodingInv'
  <1> DEFINE d == Coding!Decode(f_stream)
             n == Len(f_sent)
  <1>1. /\ f_stream' = SubSeq(f_stream, d.consumed + 1, Len(f_stream))
        /\ f_got' = Taken(f_got, d)
        /\ f_sent' = f_sent /\ f_damage' = f_damage /\ f_spoilt' = f_spoilt
    BY DEF Coding!Receive, Taken
  <1>2. /\ f_stream \in Seq(Coding!Bytes) /\ f_sent \in Seq(Coding!Packets)
        /\ f_got \in Seq(Received) /\ Len(f_stream) \in Nat
        /\ n \in Nat /\ Len(f_got) \in Nat /\ DOMAIN f_sent = 1 .. n
    BY CodingTypes DEF CodingInv
  <1>3. Fine(d, f_stream, 0)
    BY <1>2, DecodeIsFine
  <1>4. d.consumed \in 0 .. Len(f_stream) /\ d.found \in BOOLEAN
    BY <1>3 DEF Fine
  <1>5. d.found => [id |-> d.id, body |-> d.body] \in Received
    BY <1>3 DEF Fine, Received
  <1>6. d = Coding!Decode(f_stream)
    OBVIOUS
  <1> HIDE DEF d, n
  <1>7. Coding!TypeOK'
    <2>1. f_got' \in Seq(Received)
      <3>1. CASE d.found
        <4> DEFINE p == [id |-> d.id, body |-> d.body]
        <4>1. p \in Received /\ f_got' = Append(f_got, p)
          BY <1>1, <1>5, <3>1 DEF Taken
        <4> HIDE DEF p
        <4> QED  BY <1>2, <4>1, AppendIs
      <3>2. CASE ~d.found
        BY <1>1, <1>2, <3>2 DEF Taken
      <3> QED  BY <3>1, <3>2
    <2>2. f_stream' \in Seq(Coding!Bytes)
      BY <1>1, <1>2, <1>4, Rest
    <2> QED  BY <1>1, <2>1, <2>2 DEF CodingInv, Coding!TypeOK, Received
  <1>8. PICK r, cut, good :
          /\ Streamed(f_stream, f_sent, r, cut, f_spoilt)
          /\ Goods(good, f_sent)
          /\ Exact(r, cut) /\ Followed(r, cut, good)
    BY DEF CodingInv
  <1>9. PICK q : q = r + d.consumed
    OBVIOUS
  <1>10. Streamed(f_stream', f_sent', q, cut, f_spoilt')
    <2>1. Streamed(SubSeq(f_stream, d.consumed + 1, Len(f_stream)), f_sent,
                   r + d.consumed, cut, f_spoilt)
      BY <1>2, <1>4, <1>8, StreamedConsume
    <2> QED  BY <1>1, <1>9, <2>1
  <1>11. Exact(q, cut)'
    <2> SUFFICES ASSUME f_damage = 0,
                        \A i \in DOMAIN f_sent : ~Coding!Oversize(f_sent[i])
                 PROVE  /\ Len(f_got') \in 0 .. n
                        /\ q = cut[Len(f_got')]
                        /\ \A i \in 1 .. Len(f_got') : f_got'[i] = f_sent[i]
      BY <1>1 DEF Exact, n
    <2> DEFINE k == Len(f_got)
    <2>1. /\ k \in 0 .. n /\ r = cut[k]
          /\ \A i \in 1 .. k : f_got[i] = f_sent[i]
      BY <1>8 DEF Exact, n
    <2>2. /\ r \in Nat /\ cut[n] = r + Len(f_stream) /\ cut[k] \in Nat
          /\ n \in 0 .. n
      BY <1>2, <1>8, <2>1, StreamedFacts DEF n
    <2>3. PICK f : d = f[0] /\ IsScan(f, f_stream)
      <3>1. \E f : Coding!Decode(f_stream) = f[0] /\ IsScan(f, f_stream)
        BY <1>2, DecodeLooks DEF IsScan
      <3> QED  BY <1>6, <3>1
    <2>4. CASE k = n
      <3>1. Len(f_stream) = 0
        BY <1>2, <2>1, <2>2, <2>4
      <3>2. ~d.found /\ d.consumed = 0
        BY <1>2, <2>3, <3>1, NothingAtTheEnd
      <3>3. f_got' = f_got /\ q = r
        BY <1>1, <1>9, <2>2, <3>2 DEF Taken
      <3> QED  BY <2>1, <3>3
    <2>5. CASE k # n
      <3> DEFINE m == k + 1
                 p == f_sent[m]
      <3>1. m \in 1 .. n /\ m - 1 = k /\ m \in 0 .. n
        BY <1>2, <2>1, <2>5
      <3>2. p \in Coding!Packets /\ ~Coding!Oversize(p)
        BY <1>2, <3>1 DEF n
      <3>3. f_spoilt = {}
        BY DEF CodingInv
      <3> HIDE DEF p, m
      <3>4. Holds(f_stream, 0, p) /\ 0 + (4 + Len(p.body)) = cut[m] - r
        <4>1. cut[m - 1] - r = 0 /\ r <= cut[m - 1]
          BY <2>1, <2>2, <3>1
        <4>2. m \in 1 .. Len(f_sent)
              /\ \A y \in f_spoilt : y <= cut[m - 1] \/ cut[m] < y
          BY <3>1, <3>3 DEF n
        <4>3. /\ Holds(f_stream, cut[m - 1] - r, f_sent[m])
              /\ (cut[m - 1] - r) + (4 + Len(f_sent[m].body)) = cut[m] - r
          BY <1>2, <1>8, <4>1, <4>2, StreamedHolds
        <4> QED  BY <4>1, <4>3 DEF p
      <3>5. /\ d.found /\ d.consumed = 0 + (4 + Len(p.body)) /\ d.id = p.id
            /\ d.body = p.body
        BY <1>2, <2>3, <3>2, <3>4, PacketIsFound
      <3>6. q = cut[m]
        <4>1. d.consumed = cut[m] - r
          BY <3>4, <3>5
        <4>2. cut[m] \in Nat
          BY <1>2, <1>8, <3>1, StreamedFacts DEF n
        <4> QED  BY <1>9, <2>2, <4>1, <4>2
      <3>7. f_got' = Append(f_got, p)
        <4>1. p = [id |-> d.id, body |-> d.body]
          BY <3>2, <3>5, PacketIsReceivable
        <4> QED  BY <1>1, <3>5, <4>1 DEF Taken
      <3>8. /\ Len(f_got') = m
            /\ \A i \in 1 .. k : f_got'[i] = f_got[i]
            /\ f_got'[m] = p
        <4>1. p \in Received
          BY <3>2, PacketIsReceivable
        <4> QED  BY <1>2, <3>7, <4>1, AppendIs DEF m
      <3>9. \A i \in 1 .. m : f_got'[i] = f_sent[i]
        <4> TAKE i \in 1 .. m
        <4>1. i \in 1 .. k \/ i = m
          BY <1>2 DEF m
        <4> QED  BY <2>1, <3>8, <4>1 DEF p
      <3> QED  BY <3>1, <3>6, <3>8, <3>9
    <2> QED  BY <2>4, <2>5
  <1>12. Followed(q, cut, good)'
    <2> SUFFICES ASSUME \A i \in DOMAIN f_sent : Coding!Plain(f_sent[i])
                 PROVE  Progress(q, f_sent, cut, good, Taken(f_got, d),
                                 f_spoilt)
      BY <1>1 DEF Followed
    <2>1. /\ Progress(r, f_sent, cut, good, f_got, f_spoilt)
          /\ \A i \in 1 .. Len(f_sent) : Coding!Plain(f_sent[i])
      BY <1>2, <1>8 DEF Followed, n
    <2> QED  BY <1>2, <1>6, <1>8, <1>9, <2>1, ReceiveProgress
  <1>13. Goods(good, f_sent)' /\ (f_damage = 0 => f_spoilt = {})'
    BY <1>1, <1>8 DEF CodingInv
  <1> QED  BY <1>7, <1>10, <1>11, <1>12, <1>13 DEF CodingInv

\* Every step keeps the invariant; those of the other parts do not matter.
LEMMA CodingNext == CodingInv /\ [PacketsNext]_allVars => CodingInv'
  <1> SUFFICES ASSUME CodingInv, [PacketsNext]_allVars PROVE CodingInv'
    OBVIOUS
  <1>1. CASE Coding!Next
    <2>1. CASE \E p \in Coding!Packets : Coding!Send(p)
      BY <2>1, CodingSend
    <2>2. CASE Coding!Receive
      BY <2>2, CodingReceive
    <2>3. CASE \E x \in DOMAIN f_stream, run \in Runs : Coding!Damage(x, run)
      BY <2>3, CodingDamage
    <2> QED  BY <1>1, <2>1, <2>2, <2>3 DEF Coding!Next
  <1>2. CASE UNCHANGED codingVars
    BY <1>2 DEF codingVars, CodingInv, Coding!TypeOK, Exact, Followed
  <1> QED  BY <1>1, <1>2 DEF PacketsNext, allVars

\* The invariant says what the run checks.
LEMMA CodingInvIsEnough == CodingInv => PacketsAreFound
  <1> SUFFICES ASSUME CodingInv PROVE Coding!PacketsAreFound
    BY DEF PacketsAreFound
  <1> DEFINE n == Len(f_sent)
             d == Coding!Decode(f_stream)
  <1>1. /\ f_stream \in Seq(Coding!Bytes) /\ f_sent \in Seq(Coding!Packets)
        /\ f_got \in Seq(Received) /\ Len(f_stream) \in Nat
        /\ n \in Nat /\ Len(f_got) \in Nat /\ DOMAIN f_sent = 1 .. n
    BY CodingTypes DEF CodingInv
  <1>2. PICK r, cut, good :
          /\ Streamed(f_stream, f_sent, r, cut, f_spoilt)
          /\ Goods(good, f_sent)
          /\ Exact(r, cut) /\ Followed(r, cut, good)
    BY DEF CodingInv
  <1>3. Coding!ReceivedAsSent
    <2> SUFFICES ASSUME f_damage = 0,
                        \A i \in DOMAIN f_sent : ~Coding!Oversize(f_sent[i])
                 PROVE  /\ Coding!IsPrefix(f_got, f_sent)
                        /\ f_stream = Coding!EncodeAll(
                             SubSeq(f_sent, Len(f_got) + 1, Len(f_sent)))
      BY DEF Coding!ReceivedAsSent
    <2> DEFINE k == Len(f_got)
    <2>1. /\ k \in 0 .. n /\ r = cut[k]
          /\ \A i \in 1 .. k : f_got[i] = f_sent[i]
      BY <1>2 DEF Exact
    <2>2. Coding!IsPrefix(f_got, f_sent)
      <3>1. k <= Len(f_sent)
        BY <1>1, <2>1
      <3>2. SubSeq(f_got, 1, k) = [i \in 1 .. k |-> f_got[i]]
        BY <1>1
      <3>3. SubSeq(f_sent, 1, k) = [i \in 1 .. k |-> f_sent[i]]
        BY <1>1, <2>1
      <3>4. SubSeq(f_got, 1, k) = SubSeq(f_sent, 1, k)
        <4> HIDE DEF k
        <4> QED  BY <2>1, <3>2, <3>3
      <3> QED  BY <3>1, <3>4 DEF Coding!IsPrefix
    <2>3. Streamed(f_stream, f_sent, cut[k], cut, {})
      BY <1>2, <2>1 DEF CodingInv
    <2>4. f_stream = Coding!EncodeAll(SubSeq(f_sent, k + 1, Len(f_sent)))
      BY <1>1, <2>1, <2>3, StreamedIsEncoded
    <2> QED  BY <2>2, <2>4
  <1>4. Coding!LeavesLessThanPacket
    <2>1. Fine(d, f_stream, 0)
      BY <1>1, DecodeIsFine
    <2>2. ~d.found => Len(f_stream) - d.consumed < 4 + MaxBody
      BY <2>1 DEF Fine
    <2> QED
      BY <2>2 DEF Coding!LeavesLessThanPacket, Coding!HeaderLength
  <1>5. /\ r \in Nat /\ cut[n] = r + Len(f_stream) /\ n \in 0 .. n
        /\ \A i \in 0 .. n : cut[i] \in Nat
        /\ \A i, j \in 0 .. n : cut[i] < cut[j] => i < j
        /\ \A i, j \in 0 .. n : i < j => cut[i] < cut[j]
        /\ \A y \in f_spoilt : y \in Nat /\ y >= 1
        /\ Coding!Ends(f_sent) = cut
    <2>1. /\ cut \in [0 .. Len(f_sent) -> Nat] /\ cut[0] = 0
          /\ \A i \in 1 .. Len(f_sent) :
               cut[i] = cut[i - 1] + Len(Coding!Encode(f_sent[i]))
          /\ \A i, j \in 0 .. n : i < j => cut[i] < cut[j]
      BY <1>2 DEF Streamed
    <2>2. Coding!Ends(f_sent) = cut
      BY <1>1, <2>1, EndsAre
    <2>3. n \in 0 .. n
      BY <1>1
    <2> QED  BY <1>1, <1>2, <2>1, <2>2, <2>3, StreamedFacts
  <1>6. d.consumed \in 0 .. Len(f_stream)
    <2>1. Fine(d, f_stream, 0)
      BY <1>1, DecodeIsFine
    <2> QED  BY <2>1 DEF Fine
  <1>7. d = Coding!Decode(f_stream)
    OBVIOUS
  <1>8. ASSUME \A i \in DOMAIN f_sent : Coding!Plain(f_sent[i]), ~d.found
        PROVE  /\ Progress(r + d.consumed, f_sent, cut, good, f_got, f_spoilt)
               /\ \A l \in 0 .. n :
                    Later(cut, f_spoilt, l) => r + d.consumed = cut[n]
    <2> HIDE DEF d
    <2>1. /\ Progress(r, f_sent, cut, good, f_got, f_spoilt)
          /\ \A i \in 1 .. Len(f_sent) : Coding!Plain(f_sent[i])
      BY <1>1, <1>2, <1>8 DEF Followed
    <2>2. Taken(f_got, d) = f_got
      BY <1>8 DEF Taken
    <2>3. /\ Progress(r + d.consumed, f_sent, cut, good, Taken(f_got, d),
                      f_spoilt)
          /\ ~d.found => \A l \in 0 .. Len(f_sent) :
               Later(cut, f_spoilt, l) => r + d.consumed = cut[Len(f_sent)]
      BY <1>1, <1>2, <1>7, <2>1, ReceiveProgress, SMTT(30), ZenonT(60)
    <2> QED  BY <1>8, <2>2, <2>3
  <1> HIDE DEF d, n
  <1>9. Coding!LosesOversizeOnly
    <2> SUFFICES ASSUME f_damage = 0, ~d.found,
                        \A i \in DOMAIN f_sent : Coding!Plain(f_sent[i])
                 PROVE  /\ f_got = Coding!Acceptable(f_sent)
                        /\ d.consumed = Len(f_stream)
      BY DEF Coding!LosesOversizeOnly, d
    <2>1. f_spoilt = {}
      BY DEF CodingInv
    <2>2. Sooner(cut, f_spoilt, n) /\ Later(cut, f_spoilt, n)
      BY <2>1 DEF Sooner, Later
    <2>3. r + d.consumed = cut[n]
      BY <1>5, <1>8, <2>2
    <2>4. Arrived(r + d.consumed, cut, good, f_got, n)
      BY <1>5, <1>8, <2>2 DEF Progress, n
    <2>5. PICK m \in 0 .. n : r + d.consumed = cut[m] /\ f_got = good[m]
      BY <1>5, <2>3, <2>4 DEF Arrived
    <2>6. m = n
      <3>1. ~(m < n)
        BY <1>5, <2>3, <2>5
      <3> QED  BY <1>1, <3>1
    <2>7. Coding!Acceptable(f_sent) = good[n]
      BY <1>1, <1>2, AcceptableIs DEF n
    <2>8. d.consumed = Len(f_stream)
      BY <1>1, <1>5, <1>6, <2>3
    <2> QED  BY <2>5, <2>6, <2>7, <2>8
  <1>10. Coding!DamageIsLocal
    <2> SUFFICES ASSUME ~d.found,
                        \A i \in DOMAIN f_sent : Coding!Plain(f_sent[i]),
                        NEW k \in 0 .. n, NEW l \in 0 .. n,
                        k <= l, Coding!Ahead(k), Coding!Behind(l),
                        NEW before, NEW after,
                        before = Coding!Acceptable(SubSeq(f_sent, 1, k)),
                        after = Coding!Acceptable(
                                  SubSeq(f_sent, l + 1, Len(f_sent)))
                 PROVE  /\ Coding!IsPrefix(before, f_got)
                        /\ Coding!IsSuffix(after, f_got)
                        /\ Len(before) + Len(after) <= Len(f_got)
      BY DEF Coding!DamageIsLocal, d, n
    <2>1. Sooner(cut, f_spoilt, k)
      BY <1>5 DEF Coding!Ahead, Sooner
    <2>2. Later(cut, f_spoilt, l)
      <3> SUFFICES ASSUME NEW y \in f_spoilt PROVE y + 3 + MaxBody <= cut[l]
        BY DEF Later
      <3>1. y + 4 - 1 + MaxBody <= cut[l]
        BY <1>5 DEF Coding!Behind, Coding!HeaderLength
      <3>2. y \in Nat /\ MaxBody \in Nat /\ cut[l] \in Nat
        BY <1>5, CodingConstants
      <3> QED  BY <3>1, <3>2
    <2>3. r + d.consumed = cut[n]
      BY <1>8, <2>2
    <2>4. /\ \A i \in 0 .. n : /\ good[i] \in Seq(Received)
                               /\ Len(good[i]) \in Nat
          /\ \A i, j \in 0 .. n : i <= j => Len(good[i]) <= Len(good[j])
      BY <1>1, <1>2, GoodsGrow DEF n
    <2>5. before = good[k]
      BY <1>1, <1>2, GoodsBefore DEF n
    <2>6. after = SubSeq(good[n], Len(good[l]) + 1, Len(good[n]))
      BY <1>1, <1>2, GoodsBehind DEF n
    <2>7. cut[l] <= r + d.consumed
      BY <1>1, <1>5, <2>3
    <2>8. l \in k .. n
      BY <1>1
    <2>9. /\ Arrived(r + d.consumed, cut, good, f_got, k)
          /\ Resumed(r + d.consumed, f_sent, cut, good, f_got, k, l)
      BY <1>8, <2>1, <2>2, <2>7, <2>8 DEF Progress, n
    <2>10. ASSUME NEW m \in 0 .. n, cut[m] = cut[n]  PROVE m = n
      <3>1. ~(m < n)
        BY <1>5, <2>10
      <3> QED  BY <1>1, <3>1
    <2>11. Starts(f_got, good[k])
      <3>1. CASE \E m \in 0 .. k : r + d.consumed = cut[m] /\ f_got = good[m]
        <4>1. PICK m \in 0 .. k : r + d.consumed = cut[m] /\ f_got = good[m]
          BY <3>1
        <4>2. m \in 0 .. n
          BY <1>1
        <4>3. m = n
          BY <2>3, <2>10, <4>1, <4>2
        <4>4. k = n
          BY <1>1, <4>3
        <4>5. f_got = good[k] /\ Len(good[k]) \in Nat
          BY <2>4, <4>1, <4>3, <4>4
        <4> QED  BY <4>5 DEF Starts
      <3> QED  BY <2>9, <3>1 DEF Arrived
    <2>12. Coding!IsPrefix(before, f_got)
      BY <1>1, <2>4, <2>5, <2>11, StartsIsPrefix
    <2>13. PICK m \in l .. n :
             /\ r + d.consumed = cut[m]
             /\ Follows(f_got, good[m], Len(good[l]), Len(good[k]))
      BY <2>9 DEF Resumed, n
    <2>14. Follows(f_got, good[n], Len(good[l]), Len(good[k]))
      <3>1. m \in 0 .. n
        BY <1>1
      <3> QED  BY <2>3, <2>10, <2>13, <3>1
    <2>15. /\ good[n] \in Seq(Received) /\ Len(good[l]) \in 0 .. Len(good[n])
           /\ Len(good[k]) \in Nat
      <3>1. /\ good[n] \in Seq(Received) /\ Len(good[l]) <= Len(good[n])
            /\ Len(good[l]) \in Nat /\ Len(good[n]) \in Nat
            /\ Len(good[k]) \in Nat
        <4>1. l <= n
          BY <1>1
        <4> QED  BY <1>5, <2>4, <4>1
      <3> DEFINE a == Len(good[l])
                 b == Len(good[n])
      <3>2. a \in Nat /\ b \in Nat /\ a <= b
        BY <3>1
      <3> HIDE DEF a, b
      <3>3. a \in 0 .. b
        BY <3>2
      <3> QED  BY <3>1, <3>3 DEF a, b
    <2>16. /\ Coding!IsSuffix(after, f_got)
           /\ Len(good[k]) + Len(after) <= Len(f_got)
      BY <1>1, <2>6, <2>14, <2>15, FollowsIsSuffix
    <2> QED  BY <2>5, <2>12, <2>16
  <1> QED
    BY <1>3, <1>4, <1>9, <1>10 DEF CodingInv, Coding!PacketsAreFound

\* packet.hpp, for any bodies, ids, limit, runs that are copied over the
\* stream, and numbers of packets and such runs: while nothing is oversized
\* or overwritten, what is received is what was sent, in order; what the
\* reader leaves is less than a packet; an oversized packet is lost alone;
\* and of packets that are plain those ahead of all that is overwritten are
\* received, and those behind its reach, in order.
THEOREM PacketsArrive == PacketsSpec => []PacketsAreFound
  <1>1. PacketsInit => CodingInv
    BY CodingInit DEF PacketsInit
  <1> QED
    BY <1>1, CodingNext, CodingInvIsEnough, PTL DEF PacketsSpec

=============================================================================
