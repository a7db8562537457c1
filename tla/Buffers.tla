------------------------------ MODULE Buffers ------------------------------
(***************************************************************************)
(* ibuffer (ibuffer.hpp), which owns the bytes of every packet body and of *)
(* every encoded packet: objects that are constructed, copied, moved,      *)
(* assigned and destroyed in any order, over a heap that may refuse a      *)
(* block.  A block stands for its bytes; Null is both nullptr and "no      *)
(* length".                                                                *)
(***************************************************************************)
EXTENDS Naturals, FiniteSets

CONSTANTS
  Bufs,     \* places that hold an ibuffer at times
  Blocks,   \* blocks of the heap
  Data,     \* what a block may hold
  Junk,     \* the bytes of a new block
  Null

ASSUME JunkAssumption == Junk \notin Data
ASSUME NullAssumption == Null \notin Blocks

VARIABLES
  live,      \* the places that hold a constructed object
  buf,       \* buf_ of each
  full,      \* whether its len_ is not 0
  used,      \* the blocks that are allocated
  content,   \* what each block holds
  thrown     \* the object whose last operation ended in bad_alloc, or Null

vars == <<live, buf, full, used, content, thrown>>

\* A length goes with a block, and only with one: who tests empty() or size()
\* before he copies (encode_packet, construct) never reads a null pointer.
LengthHasBlock == \A b \in Bufs : full[b] <=> buf[b] # Null

TypeOK ==
  /\ live \subseteq Bufs
  /\ buf \in [Bufs -> Blocks \cup {Null}]
  /\ full \in [Bufs -> BOOLEAN]
  /\ used \subseteq Blocks
  /\ content \in [Blocks -> Data \cup {Junk}]
  /\ thrown \in Bufs \cup {Null}
  /\ LengthHasBlock

Init ==
  /\ live = {}
  /\ buf = [b \in Bufs |-> Null]
  /\ full = [b \in Bufs |-> FALSE]
  /\ used = {}
  /\ content = [k \in Blocks |-> Junk]
  /\ thrown = Null

Free == Blocks \ used

\* What an object is read as: its bytes, or nothing.
ValueOf(b) == IF buf[b] = Null THEN Null ELSE content[buf[b]]

-----------------------------------------------------------------------------
\* ibuffer(len, buf): the bytes come from elsewhere, or are left as they are.
Construct(b, d) ==
  /\ b \notin live
  /\ \E k \in Free :
       /\ used' = used \cup {k}
       /\ content' = [content EXCEPT ![k] = d]
       /\ buf' = [buf EXCEPT ![b] = k]
  /\ full' = [full EXCEPT ![b] = TRUE]
  /\ live' = live \cup {b}
  /\ thrown' = Null

\* With length 0, and for packets without a body, there is no block.
ConstructEmpty(b) ==
  /\ b \notin live
  /\ buf' = [buf EXCEPT ![b] = Null]
  /\ full' = [full EXCEPT ![b] = FALSE]
  /\ live' = live \cup {b}
  /\ thrown' = Null
  /\ UNCHANGED <<used, content>>

\* ibuffer(const ibuffer&): a block of its own with the same bytes.
Copy(b, other) ==
  /\ b \notin live /\ other \in live
  /\ IF full[other]
       THEN \E k \in Free :
              /\ used' = used \cup {k}
              /\ content' = [content EXCEPT ![k] = content[buf[other]]]
              /\ buf' = [buf EXCEPT ![b] = k]
       ELSE /\ buf' = [buf EXCEPT ![b] = Null]
            /\ UNCHANGED <<used, content>>
  /\ full' = [full EXCEPT ![b] = full[other]]
  /\ live' = live \cup {b}
  /\ thrown' = Null

\* A constructor in which new throws leaves no object.
ConstructThrows(b) ==
  /\ b \notin live
  /\ thrown' = b
  /\ UNCHANGED <<live, buf, full, used, content>>

\* ibuffer(ibuffer&&)
Move(b, other) ==
  /\ b \notin live /\ other \in live
  /\ buf' = [buf EXCEPT ![b] = buf[other], ![other] = Null]
  /\ full' = [full EXCEPT ![b] = full[other], ![other] = FALSE]
  /\ live' = live \cup {b}
  /\ thrown' = Null
  /\ UNCHANGED <<used, content>>

\* operator=(ibuffer&): the old block goes before the new one is there, and
\* nothing happens when an object is assigned to itself.
CopyAssign(b, other) ==
  /\ {b, other} \subseteq live
  /\ thrown' = Null
  /\ IF b = other
       THEN UNCHANGED <<buf, full, used, content>>
       ELSE /\ IF full[other]
                 THEN \E k \in Free \cup ({buf[b]} \ {Null}) :
                        /\ used' = (used \ {buf[b]}) \cup {k}
                        /\ content' =
                             [content EXCEPT ![k] = content[buf[other]]]
                        /\ buf' = [buf EXCEPT ![b] = k]
                 ELSE /\ used' = used \ {buf[b]}
                      /\ buf' = [buf EXCEPT ![b] = Null]
                      /\ UNCHANGED content
            /\ full' = [full EXCEPT ![b] = full[other]]
  /\ UNCHANGED live

\* new throws in it: the object is left empty.
CopyAssignThrows(b, other) ==
  /\ {b, other} \subseteq live /\ b # other /\ full[other]
  /\ used' = used \ {buf[b]}
  /\ buf' = [buf EXCEPT ![b] = Null]
  /\ full' = [full EXCEPT ![b] = FALSE]
  /\ thrown' = b
  /\ UNCHANGED <<live, content>>

\* Faulty: an object that is moved to itself is destructed first.
MoveAssignUnchecked(b, other) ==
  /\ {b, other} \subseteq live
  /\ thrown' = Null
  /\ used' = used \ {buf[b]}
  /\ buf' = [buf EXCEPT ![other] = Null,
                        ![b] = IF b = other THEN Null ELSE buf[other]]
  /\ full' = [full EXCEPT ![other] = FALSE,
                          ![b] = b # other /\ full[other]]
  /\ UNCHANGED <<live, content>>

\* operator=(ibuffer&&)
MoveAssign(b, other) ==
  /\ {b, other} \subseteq live
  /\ thrown' = Null
  /\ IF b = other
       THEN UNCHANGED <<buf, full, used>>
       ELSE /\ used' = used \ {buf[b]}
            /\ buf' = [buf EXCEPT ![b] = buf[other], ![other] = Null]
            /\ full' = [full EXCEPT ![b] = full[other], ![other] = FALSE]
  /\ UNCHANGED <<live, content>>

\* The owner fills the bytes it got from data().
Write(b, d) ==
  /\ b \in live /\ full[b]
  /\ content' = [content EXCEPT ![buf[b]] = d]
  /\ thrown' = Null
  /\ UNCHANGED <<live, buf, full, used>>

\* ~ibuffer: delete[] of nullptr does nothing.
Destruct(b) ==
  /\ b \in live
  /\ used' = used \ {buf[b]}
  /\ buf' = [buf EXCEPT ![b] = Null]
  /\ full' = [full EXCEPT ![b] = FALSE]
  /\ live' = live \ {b}
  /\ thrown' = Null
  /\ UNCHANGED content

Next ==
  \E b \in Bufs :
    \/ \E d \in Data \cup {Junk} : Construct(b, d) \/ Write(b, d)
    \/ ConstructEmpty(b) \/ ConstructThrows(b) \/ Destruct(b)
    \/ \E other \in Bufs :
         \/ Copy(b, other) \/ Move(b, other)
         \/ CopyAssign(b, other) \/ CopyAssignThrows(b, other)
         \/ MoveAssign(b, other)

Spec == Init /\ [][Next]_vars

-----------------------------------------------------------------------------
\* Every block has one owner, so that it is deleted once: no two objects
\* point to the same block and none to a block that was given back.
OneOwner ==
  /\ \A b \in live : buf[b] # Null => buf[b] \in used
  /\ \A b, c \in live : b # c /\ buf[b] = buf[c] => buf[b] = Null

\* No block is left without an owner, whatever was assigned to what and also
\* when new throws in between.
NothingLeaks == \A k \in used : \E b \in live : buf[b] = k

\* The operations that may change what b is read as.
ChangesIts(b) ==
  \/ \E d \in Data \cup {Junk} : Write(b, d)
  \/ thrown' = b
  \/ \E c \in Bufs \ {b} :
       CopyAssign(b, c) \/ MoveAssign(b, c) \/ MoveAssign(c, b) \/ Move(c, b)

\* An operation changes the bytes of no object that it does not name: what
\* an object is read as changes only if it is written to, assigned,
\* destroyed or moved from; assigning it to itself is none of these.
OthersKeepBytes ==
  [][\A b \in live \cap live' :
       ValueOf(b)' # ValueOf(b) => ChangesIts(b)]_vars

\* Each object owns its bytes: no block is freed twice, leaked, or changed
\* through another object.
BytesAreOwned == []OneOwner /\ []NothingLeaks /\ OthersKeepBytes

=============================================================================
