----------------------------- MODULE CallsProofs -----------------------------
(***************************************************************************)
(* Theorems about calls in both directions, from those of RpcProofs, and   *)
(* about the expected that carries a result.                               *)
(***************************************************************************)
EXTENDS MCCalls, RpcProofs

(* Both instances of Rpc                                                   *)

\* What RpcProofs shows, of the calls between a client and the server.
BackProofs == INSTANCE RpcProofs WITH
  Conns <- {"k1"}, Calls <- BackCalls, Caller <- BackCaller,
  ConnOf <- BackConnOf, NameOf <- BackNameOf, Offers <- BackOffers,
  Codes <- BackCodes,
  handlers <- b_handlers, mutex <- b_mutex, open <- b_open,
  removing <- b_removing, place <- b_place, responses <- b_responses,
  state <- b_state, result <- b_result, ran <- b_ran,
  returned <- b_returned, gone <- b_gone

\* The assumptions of Rpc hold for these constants.
LEMMA BackConstants ==
  /\ DOMAIN Hash = Names /\ BackCodes \subseteq Nat
  /\ \A c \in BackCalls : /\ BackConnOf[c] \in {"k1"}
                          /\ BackCaller[c] \in {"server", BackConnOf[c]}
                          /\ BackNameOf[c] \in Names
  /\ BackOffers \in [{"k1"} \cup {"server"} -> SUBSET Names]
  /\ None \notin BackCalls /\ None \notin Back!Values /\ None \notin {"k1"}
  <1>1. "add" \in Names /\ None \notin BackCalls /\ None # "k1"
    BY BackAssumption
  <1>2. /\ DOMAIN Hash = Names /\ Codes \subseteq Nat
        /\ None \notin {Message} \cup Codes
    BY HashAssumption, CodesAssumption, NoneAssumption DEF Values
  <1> QED
    BY <1>1, <1>2
    DEF BackCodes, BackCalls, BackConnOf, BackCaller, BackNameOf, BackOffers,
        Back!Values, Back!Message, Message

\* Rpc under the two names of its instance is one specification.
LEMMA SameSpecification ==
  /\ BackProofs!Init <=> Back!Init
  /\ BackProofs!Next <=> Back!Next
  /\ BackProofs!vars = Back!vars
  /\ BackProofs!ResultIsGenuine <=> Back!ResultIsGenuine
  /\ BackProofs!Values = Back!Values
  <1> USE DEF BackProofs!Message, BackProofs!ErrNetwork,
              BackProofs!ErrDeserialize, BackProofs!Sides, BackProofs!Ids,
              BackProofs!Values, BackProofs!Callee, BackProofs!Reachable,
              BackProofs!MayLookUp, Back!MayLookUp,
              Back!Message, Back!ErrNetwork, Back!ErrDeserialize, Back!Sides,
              Back!Ids, Back!Values, Back!Callee, Back!Reachable
  <1>1. BackProofs!Init <=> Back!Init
    BY DEF BackProofs!Init, Back!Init
  <1>2. BackProofs!Next <=> Back!Next
    BY DEF BackProofs!Next, BackProofs!Registering, BackProofs!Calling,
           BackProofs!Handling, BackProofs!Register, BackProofs!Unregister,
           BackProofs!Call, BackProofs!TimeOut, BackProofs!CancelCall,
           BackProofs!Ignore, BackProofs!Enter, BackProofs!Return,
           BackProofs!Response, BackProofs!Respond, BackProofs!ParseBody,
           BackProofs!Disconnect, BackProofs!Remove, BackProofs!Writing,
           BackProofs!Pop, BackProofs!Commit, BackProofs!Lose,
           BackProofs!Erase, Back!Next, Back!Registering, Back!Calling,
           Back!Handling, Back!Register, Back!Unregister, Back!Call,
           Back!TimeOut, Back!CancelCall, Back!Ignore, Back!Enter,
           Back!Return, Back!Response, Back!Respond, Back!ParseBody,
           Back!Disconnect, Back!Remove, Back!Writing, Back!Pop,
           Back!Commit, Back!Lose, Back!Erase
  <1>3. BackProofs!vars = Back!vars
    BY DEF BackProofs!vars, Back!vars
  <1>4. BackProofs!ResultIsGenuine <=> Back!ResultIsGenuine
    BY DEF BackProofs!ResultIsGenuine, Back!ResultIsGenuine
  <1>5. BackProofs!Values = Back!Values
    OBVIOUS
  <1> QED  BY <1>1, <1>2, <1>3, <1>4, <1>5

LEMMA BackInit == Back!Init => BackProofs!GenuineInv
  BY BackProofs!InitGenuine, BackConstants, SameSpecification

LEMMA BackNext ==
  BackProofs!GenuineInv /\ [Back!Next]_backVars => BackProofs!GenuineInv'
  <1>1. BackProofs!GenuineInv /\ [BackProofs!Next]_(BackProofs!vars)
          => BackProofs!GenuineInv'
    BY BackProofs!NextGenuine, BackConstants, SameSpecification
  <1>2. [Back!Next]_backVars => [BackProofs!Next]_(BackProofs!vars)
    BY SameSpecification DEF backVars, BackProofs!vars
  <1> QED  BY <1>1, <1>2, SameSpecification

LEMMA BackResult == BackProofs!GenuineInv => Back!ResultIsGenuine
  BY BackProofs!GenuineResult, BackConstants, SameSpecification

\* Calls to the server by any number of clients, and calls that a client and
\* the server make of each other: a callback is given what the handler of its
\* own call returned, or the news that this is not known.
THEOREM CallsAreGenuine == CallsSpec => []ResultsAreGenuine
  <1>1. CallsInit => GenuineInv /\ BackProofs!GenuineInv
    BY InitGenuine, BackInit DEF CallsInit
  <1>2. GenuineInv /\ BackProofs!GenuineInv /\ [CallsNext]_allVars
          => (GenuineInv /\ BackProofs!GenuineInv)'
    <2> SUFFICES ASSUME GenuineInv, BackProofs!GenuineInv, [CallsNext]_allVars
                 PROVE  GenuineInv' /\ BackProofs!GenuineInv'
      OBVIOUS
    <2>1. [Next]_vars /\ [Back!Next]_backVars
      BY DEF CallsNext, allVars
    <2> QED  BY <2>1, NextGenuine, BackNext
  <1>3. GenuineInv /\ BackProofs!GenuineInv => ResultsAreGenuine
    BY GenuineResult, BackResult DEF ResultsAreGenuine
  <1> QED  BY <1>1, <1>2, <1>3, PTL DEF CallsSpec

-----------------------------------------------------------------------------
(* expected<T, E>: the states of its storage                               *)

\* What v may be: the state of a T, or an error.
States == Vals \cup Errs \cup {Moved, Torn}

\* The storage of an object of which nothing was misused.
Record(a, h, w, l) ==
  [at |-> a, has |-> h, v |-> w, lost |-> l, dead |-> 0]
\* The flags, which the provers are to take for values like any other.
Yes == TRUE
No == FALSE

LEMMA Flags == Yes \in BOOLEAN /\ No \in BOOLEAN
  BY DEF Yes, No

\* An object that holds a value, and one that holds an error.
Holds(w, l) == Record("value", Yes, w, l)
Fails(w, l) == Record("error", No, w, l)

\* The T's that are lost when something is constructed over an alternative.
LostOver(a, l) == l + (IF a = "value" THEN 1 ELSE 0)

LEMMA Losses ==
  /\ LostOver("value", 0) = 1
  /\ \A l \in Nat : LostOver("none", l) = l
  BY DEF LostOver

\* What NewValue and NewError do to the fields.
LEMMA Constructing ==
  ASSUME NEW a, NEW h \in BOOLEAN, NEW w, NEW l \in Nat, NEW u
  PROVE  /\ Carrying!NewValue(Record(a, h, w, l), u)
              = Holds(u, LostOver(a, l))
         /\ Carrying!NewError(Record(a, h, w, l), u)
              = Fails(u, LostOver(a, l))
  <1> DEFINE n  == LostOver(a, l)
             T  == [at : {a, "value", "error"}, has : BOOLEAN,
                    v : {w, u}, lost : {l, n}, dead : {0}]
             s  == Record(a, h, w, l)
             v1 == [s EXCEPT !.at = "value"]
             v2 == [v1 EXCEPT !.v = u]
             v3 == [v2 EXCEPT !.has = Yes]
             v4 == [v3 EXCEPT !.lost = n]
             e1 == [s EXCEPT !.at = "error"]
             e2 == [e1 EXCEPT !.v = u]
             e3 == [e2 EXCEPT !.has = No]
             e4 == [e3 EXCEPT !.lost = n]
  <1>0. Carrying!Overwritten(s) = n
    BY DEF Record, Carrying!Overwritten, LostOver
  <1>1. s \in T /\ s = Record(a, h, w, l)
    BY Flags DEF Record
  <1>2. Carrying!NewValue(s, u) = v4 /\ Carrying!NewError(s, u) = e4
    BY <1>0, Zenon DEF Carrying!NewValue, Carrying!NewError, Yes, No
  <1> HIDE DEF s, n
  <1>3. /\ v1 = Record("value", h, w, l) /\ v1 \in T
        /\ e1 = Record("error", h, w, l) /\ e1 \in T
    BY <1>1, Flags DEF Record
  <1> HIDE DEF v1, e1
  <1>4. /\ v2 = Record("value", h, u, l) /\ v2 \in T
        /\ e2 = Record("error", h, u, l) /\ e2 \in T
    BY <1>3, Flags DEF Record
  <1> HIDE DEF v2, e2
  <1>5. /\ v3 = Record("value", Yes, u, l) /\ v3 \in T
        /\ e3 = Record("error", No, u, l) /\ e3 \in T
    BY <1>4, Flags DEF Record
  <1> HIDE DEF v3, e3
  <1>6. v4 = Record("value", Yes, u, n) /\ e4 = Record("error", No, u, n)
    BY <1>5, Flags DEF Record
  <1> HIDE DEF v4, e4
  <1>7. v4 = Holds(u, n) /\ e4 = Fails(u, n)
    BY <1>6 DEF Holds, Fails
  <1> QED  BY <1>2, <1>7, Zenon DEF n, s

\* What the operations on an alternative that lives do.
LEMMA UsingValue ==
  ASSUME NEW w, NEW l \in Nat, NEW u
  PROVE  /\ Carrying!SetValue(Holds(w, l), u) = Holds(u, l)
         /\ Carrying!DestroyValue(Holds(w, l)) = Record("none", Yes, w, l)
  <1> DEFINE T  == [at : {"value", "none"}, has : BOOLEAN,
                    v : {w, u}, lost : {l}, dead : {0}]
             s  == Holds(w, l)
             s1 == [s EXCEPT !.v = u]
             s2 == [s1 EXCEPT !.dead = 0]
             d1 == [s EXCEPT !.at = "none"]
             d2 == [d1 EXCEPT !.dead = 0]
  <1>1. s \in T /\ s = Record("value", Yes, w, l)
    BY Flags DEF Record, Holds
  <1>2. Carrying!Misused(s, "value") = 0
    BY DEF Record, Holds, Carrying!Misused
  <1>3. Carrying!SetValue(s, u) = s2 /\ Carrying!DestroyValue(s) = d2
    BY <1>2, Zenon DEF Carrying!SetValue, Carrying!DestroyValue
  <1> HIDE DEF s
  <1>4. s1 = Record("value", Yes, u, l) /\ s1 \in T
    BY <1>1, Flags DEF Record
  <1>5. d1 = Record("none", Yes, w, l) /\ d1 \in T
    BY <1>1, Flags DEF Record
  <1> HIDE DEF s1, d1
  <1>6. s2 = Record("value", Yes, u, l) /\ d2 = Record("none", Yes, w, l)
    BY <1>4, <1>5, Flags DEF Record
  <1> HIDE DEF s2, d2
  <1> QED  BY <1>3, <1>6 DEF Holds, s

LEMMA UsingError ==
  ASSUME NEW w, NEW l \in Nat, NEW u
  PROVE  /\ Carrying!SetError(Fails(w, l), u) = Fails(u, l)
         /\ Carrying!SetError(Record("none", No, w, l), u) = Fails(u, l)
         /\ Carrying!DestroyError(Fails(w, l)) = Record("none", No, w, l)
  <1> DEFINE T  == [at : {"error", "none"}, has : BOOLEAN,
                    v : {w, u}, lost : {l}, dead : {0}]
             f  == Fails(w, l)
             f1 == [f EXCEPT !.v = u]
             f2 == [f1 EXCEPT !.at = "error"]
             f3 == [f2 EXCEPT !.dead = 0]
             g1 == [f EXCEPT !.at = "none"]
             g2 == [g1 EXCEPT !.dead = 0]
             n  == Record("none", No, w, l)
             n1 == [n EXCEPT !.v = u]
             n2 == [n1 EXCEPT !.at = "error"]
             n3 == [n2 EXCEPT !.dead = 0]
  <1>1. f \in T /\ f = Record("error", No, w, l)
    BY Flags DEF Record, Fails
  <1>2. n \in T /\ n = Record("none", No, w, l)
    BY Flags DEF Record
  <1>3. /\ Carrying!Misused(f, "error") = 0
        /\ (IF f.at = "value" THEN f.dead + 1 ELSE f.dead) = 0
        /\ (IF n.at = "value" THEN n.dead + 1 ELSE n.dead) = 0
    BY DEF Record, Fails, Carrying!Misused
  <1>4. Carrying!SetError(f, u) = f3 /\ Carrying!SetError(n, u) = n3
    BY <1>3 DEF Carrying!SetError
  <1>5. Carrying!DestroyError(f) = g2
    BY <1>3, Zenon DEF Carrying!DestroyError
  <1> HIDE DEF f, n
  <1>6. f1 = Record("error", No, u, l) /\ f1 \in T
    BY <1>1, Flags DEF Record
  <1>7. n1 = Record("none", No, u, l) /\ n1 \in T
    BY <1>2, Flags DEF Record
  <1>8. g1 = Record("none", No, w, l) /\ g1 \in T
    BY <1>1, Flags DEF Record
  <1> HIDE DEF f1, g1, n1
  <1>9. f2 = Record("error", No, u, l) /\ f2 \in T
    BY <1>6, Flags DEF Record
  <1>10. n2 = Record("error", No, u, l) /\ n2 \in T
    BY <1>7, Flags DEF Record
  <1>11. g2 = Record("none", No, w, l)
    BY <1>8, Flags DEF Record
  <1> HIDE DEF f2, g2, n2
  <1>12. f3 = Record("error", No, u, l) /\ n3 = Record("error", No, u, l)
    BY <1>9, <1>10, Flags DEF Record
  <1> HIDE DEF f3, n3
  <1> QED  BY <1>4, <1>5, <1>11, <1>12 DEF Holds, Fails, f, n

LEMMA Reading ==
  ASSUME NEW w, NEW l \in Nat
  PROVE  /\ Carrying!Read(Holds(w, l)) = Holds(w, l)
         /\ Carrying!Read(Fails(w, l)) = Fails(w, l)
  <1> DEFINE s == Holds(w, l)
             f == Fails(w, l)
  <1>1. /\ s \in [at : {"value"}, has : {Yes}, v : {w}, lost : {l}, dead : {0}]
        /\ f \in [at : {"error"}, has : {No}, v : {w}, lost : {l}, dead : {0}]
    BY DEF Record, Holds, Fails
  <1>2. /\ Carrying!Misused(s, IF s.has THEN "value" ELSE "error") = 0
        /\ Carrying!Misused(f, IF f.has THEN "value" ELSE "error") = 0
    BY DEF Record, Holds, Fails, Carrying!Misused, Yes, No
  <1>3. /\ Carrying!Read(s) = [s EXCEPT !.dead = 0]
        /\ Carrying!Read(f) = [f EXCEPT !.dead = 0]
    BY <1>2, Zenon DEF Carrying!Read
  <1> HIDE DEF s, f
  <1>4. [s EXCEPT !.dead = 0] = s /\ [f EXCEPT !.dead = 0] = f
    BY <1>1
  <1> QED  BY <1>3, <1>4, Zenon DEF s, f

LEMMA Exchanging ==
  ASSUME NEW w, NEW l \in Nat, NEW u
  PROVE  /\ Carrying!NewError(Carrying!DestroyValue(Holds(w, l)), u)
              = Fails(u, l)
         /\ Carrying!NewValue(Carrying!DestroyError(Fails(w, l)), u)
              = Holds(u, l)
         /\ Carrying!Restored(Fails(w, l)) = Fails(w, l)
  <1>1. LostOver("none", l) = l
    BY Losses
  <1>2. /\ Carrying!NewError(Record("none", Yes, w, l), u)
             = Fails(u, LostOver("none", l))
        /\ Carrying!NewValue(Record("none", No, w, l), u)
             = Holds(u, LostOver("none", l))
    BY Constructing, Flags
  <1>3. Fails(w, l).v = w
    BY DEF Fails, Record
  <1>4. Carrying!Restored(Fails(w, l)) = Fails(w, l)
    <2>1. Carrying!SetError(Carrying!DestroyError(Fails(w, l)), w)
            = Fails(w, l)
      BY UsingError
    <2> QED  BY <1>3, <2>1, Zenon DEF Carrying!Restored
  <1> QED  BY <1>1, <1>2, <1>4, UsingValue, UsingError

-----------------------------------------------------------------------------
(* What lives in an object                                                 *)

Value(s) == \E w \in States, l \in 0 .. MaxLost : s = Holds(w, l)
Fault(s) == \E w \in States, l \in 0 .. MaxLost : s = Fails(w, l)
Alive(s) == Value(s) \/ Fault(s)
Empty(s) ==
  \E w \in States, l \in 0 .. MaxLost : s = Record("none", No, w, l)

LEMMA ConstantTypes ==
  MaxLost \in Nat /\ Moved \in States /\ Torn \in States
  BY CarryingAssumption DEF Carrying!ConstantsOK, States

LEMMA Fields ==
  ASSUME NEW w \in States, NEW l \in 0 .. MaxLost
  PROVE  /\ Holds(w, l).has /\ Holds(w, l).v = w /\ Holds(w, l).lost = l
         /\ ~Fails(w, l).has /\ Fails(w, l).v = w /\ Fails(w, l).lost = l
         /\ Record("none", No, w, l).lost = l
  BY DEF Holds, Fails, Record, Yes, No

LEMMA Stored ==
  ASSUME NEW s, Alive(s) \/ Empty(s)
  PROVE  s \in Carrying!Storage /\ s.dead = 0
  <1>1. ASSUME NEW a \in {"none", "value", "error"}, NEW h \in BOOLEAN,
               NEW w \in States, NEW l \in 0 .. MaxLost, s = Record(a, h, w, l)
        PROVE  s \in Carrying!Storage /\ s.dead = 0
    BY <1>1 DEF Record, Carrying!Storage, States
  <1> QED  BY <1>1, Flags DEF Alive, Value, Fault, Empty, Holds, Fails

\* The flag of an object that lives tells which it is.
LEMMA FlagOf ==
  ASSUME NEW s, Alive(s)
  PROVE  /\ s.has <=> Value(s)
         /\ ~s.has <=> Fault(s)
         /\ s.at = IF s.has THEN "value" ELSE "error"
         /\ s.v \in States /\ s.lost \in 0 .. MaxLost
  <1>1. CASE Value(s)
    <2>1. PICK w \in States, l \in 0 .. MaxLost : s = Holds(w, l)
      BY <1>1 DEF Value
    <2>2. s.at = "value" /\ s.has
      BY <2>1 DEF Holds, Record, Yes
    <2>3. ~Fault(s)
      BY <2>2, Fields DEF Fault
    <2> QED  BY <1>1, <2>1, <2>2, <2>3, Fields
  <1>2. CASE Fault(s)
    <2>1. PICK w \in States, l \in 0 .. MaxLost : s = Fails(w, l)
      BY <1>2 DEF Fault
    <2>2. s.at = "error" /\ ~s.has
      BY <2>1 DEF Fails, Record, No
    <2>3. ~Value(s)
      BY <2>2, Fields DEF Value
    <2> QED  BY <1>2, <2>1, <2>2, <2>3, Fields
  <1> QED  BY <1>1, <1>2 DEF Alive

\* s becomes r, and no T is lost over it.
Becomes(s, r) == Alive(r) /\ r.lost = s.lost

LEMMA OnValue ==
  ASSUME NEW s, Alive(s), s.has, NEW v \in States
  PROVE  /\ Becomes(s, Carrying!SetValue(s, v))
         /\ Becomes(s, Carrying!NewError(Carrying!DestroyValue(s), v))
         /\ Becomes(s, Carrying!Read(s)) /\ Becomes(s, s)
  <1>1. PICK w \in States, l \in 0 .. MaxLost : s = Holds(w, l)
    BY FlagOf DEF Value
  <1>2. l \in Nat
    BY ConstantTypes
  <1>3. /\ Carrying!SetValue(s, v) = Holds(v, l)
        /\ Carrying!NewError(Carrying!DestroyValue(s), v) = Fails(v, l)
        /\ Carrying!Read(s) = Holds(w, l)
    BY <1>1, <1>2, UsingValue, Exchanging, Reading
  <1>4. /\ Alive(Holds(v, l)) /\ Alive(Fails(v, l)) /\ Alive(Holds(w, l))
        /\ Holds(v, l).lost = l /\ Fails(v, l).lost = l /\ Holds(w, l).lost = l
    BY Fields DEF Alive, Value, Fault
  <1> QED  BY <1>1, <1>3, <1>4 DEF Becomes

LEMMA OnError ==
  ASSUME NEW s, Alive(s), ~s.has, NEW v \in States
  PROVE  /\ Becomes(s, Carrying!SetError(s, v))
         /\ Becomes(s, Carrying!NewValue(Carrying!DestroyError(s), v))
         /\ Carrying!Restored(s) = s
         /\ Carrying!Read(s) = s /\ Becomes(s, s)
  <1>1. PICK w \in States, l \in 0 .. MaxLost : s = Fails(w, l)
    BY FlagOf DEF Fault
  <1>2. l \in Nat
    BY ConstantTypes
  <1>3. /\ Carrying!SetError(s, v) = Fails(v, l)
        /\ Carrying!NewValue(Carrying!DestroyError(s), v) = Holds(v, l)
        /\ Carrying!Restored(s) = s /\ Carrying!Read(s) = s
    BY <1>1, <1>2, UsingError, Exchanging, Reading
  <1>4. /\ Alive(Holds(v, l)) /\ Alive(Fails(v, l)) /\ Alive(Fails(w, l))
        /\ Holds(v, l).lost = l /\ Fails(v, l).lost = l /\ Fails(w, l).lost = l
    BY Fields DEF Alive, Value, Fault
  <1> QED  BY <1>1, <1>3, <1>4 DEF Becomes

\* What f may do to the object whose alternative it is given.
LEMMA OnPassed ==
  ASSUME NEW s, Alive(s), NEW r \in Carrying!Passed(s)
  PROVE  Becomes(s, r) /\ (~s.has => r = s)
  <1>1. CASE s.has
    <2>1. r = Carrying!Read(s) \/ r = Carrying!SetValue(s, Moved)
      BY <1>1 DEF Carrying!Passed
    <2> QED  BY <1>1, <2>1, OnValue, ConstantTypes
  <1>2. CASE ~s.has
    <2>1. r = Carrying!Read(s)
      BY <1>2 DEF Carrying!Passed
    <2> QED  BY <1>2, <2>1, OnError, ConstantTypes
  <1> QED  BY <1>1, <1>2

-----------------------------------------------------------------------------
(* Construction                                                            *)

\* An object that begins its life.
Newborn(s) == \E v \in States : s = Holds(v, 0) \/ s = Fails(v, 0)

LEMMA OnNothing ==
  ASSUME NEW v \in States
  PROVE  /\ Carrying!NewValue(Carrying!NoObject, v) = Holds(v, 0)
         /\ Carrying!NewError(Carrying!NoObject, v) = Fails(v, 0)
         /\ Carrying!NoObject = Record("none", No, Moved, 0)
  <1>1. LostOver("none", 0) = 0
    BY Losses
  <1>2. Carrying!NoObject = Record("none", No, Moved, 0)
    BY DEF Carrying!NoObject, Record, No
  <1>3. /\ Carrying!NewValue(Record("none", No, Moved, 0), v)
             = Holds(v, LostOver("none", 0))
        /\ Carrying!NewError(Record("none", No, Moved, 0), v)
             = Fails(v, LostOver("none", 0))
    BY Constructing, Flags
  <1> QED  BY <1>1, <1>2, <1>3

LEMMA OnDefault ==
  ASSUME NEW v \in States, NEW w \in States
  PROVE  /\ Carrying!NewValue(Holds(v, 0), w) = Holds(w, 1)
         /\ Carrying!NewError(Holds(v, 0), w) = Fails(w, 1)
  <1>1. LostOver("value", 0) = 1
    BY Losses
  <1>2. /\ Carrying!NewValue(Record("value", Yes, v, 0), w)
             = Holds(w, LostOver("value", 0))
        /\ Carrying!NewError(Record("value", Yes, v, 0), w)
             = Fails(w, LostOver("value", 0))
    BY Constructing, Flags
  <1> QED  BY <1>1, <1>2 DEF Holds

-----------------------------------------------------------------------------
(* The invariant, and the steps of one object, of two and of none          *)

\* An object that lives holds what its flag says; the place of one that does
\* not holds nothing.  A program ends only while it copies or moves.
CarryingInv ==
  /\ Carrying!TypeOK
  /\ \A x \in Objects : IF x \in e_live THEN Alive(e_obj[x])
                        ELSE Empty(e_obj[x])
  /\ Carrying!TerminatesOnlyCopying

\* An operation that throws spares an object that holds an error.
Spared(x) == e_threw' => (~e_obj[x].has => e_obj'[x] = e_obj[x])

\* What a step does that is no conversion.
Kept ==
  /\ CarryingInv'
  /\ \A x \in Objects : e_obj'[x].lost = e_obj[x].lost
  /\ \A x \in e_live : Spared(x)

LEMMA Lives ==
  ASSUME CarryingInv, NEW x \in Objects
  PROVE  /\ x \in e_live => /\ Alive(e_obj[x])
                            /\ e_obj[x].v \in States
         /\ x \notin e_live => Empty(e_obj[x])
         /\ e_obj[x].lost \in 0 .. MaxLost
  <1>1. /\ x \in e_live => Alive(e_obj[x])
        /\ x \notin e_live => Empty(e_obj[x])
    BY DEF CarryingInv
  <1>2. e_obj[x] \in Carrying!Storage
    BY <1>1, Stored
  <1> QED  BY <1>1, <1>2, FlagOf DEF Carrying!Storage

\* An operation that changes one object, or begins its life.
LEMMA StepOfOne ==
  ASSUME CarryingInv, NEW x \in Objects, NEW s, Becomes(e_obj[x], s),
         e_obj' = [e_obj EXCEPT ![x] = s], e_live' = e_live \cup {x},
         e_threw' \in BOOLEAN,
         e_threw' /\ ~e_obj[x].has => s = e_obj[x],
         UNCHANGED <<e_kind, e_fatal>>
  PROVE  Kept
  <1>1. e_obj'[x] = s /\ \A z \in Objects \ {x} : e_obj'[z] = e_obj[z]
    BY DEF CarryingInv, Carrying!TypeOK
  <1>2. \A z \in Objects : IF z \in e_live' THEN Alive(e_obj'[z])
                           ELSE Empty(e_obj'[z])
    BY <1>1 DEF CarryingInv, Becomes
  <1>3. \A z \in Objects : e_obj'[z] \in Carrying!Storage
    BY <1>2, Stored
  <1>4. e_obj' \in [Objects -> Carrying!Storage]
    BY <1>3 DEF CarryingInv, Carrying!TypeOK
  <1>5. Carrying!TypeOK' /\ Carrying!TerminatesOnlyCopying'
    BY <1>4 DEF CarryingInv, Carrying!TypeOK, Carrying!TerminatesOnlyCopying
  <1>6. \A z \in Objects : e_obj'[z].lost = e_obj[z].lost
    BY <1>1 DEF Becomes
  <1>7. \A z \in e_live : Spared(z)
    BY <1>1 DEF Spared, CarryingInv, Carrying!TypeOK
  <1> QED  BY <1>2, <1>5, <1>6, <1>7 DEF Kept, CarryingInv

\* An operation that does so with two, and that does not throw.
LEMMA StepOfTwo ==
  ASSUME CarryingInv, NEW x \in Objects, NEW y \in Objects, x # y,
         NEW s, Becomes(e_obj[x], s), NEW r, Becomes(e_obj[y], r),
         e_obj' = [e_obj EXCEPT ![x] = s, ![y] = r],
         e_live' = e_live \cup {x, y}, e_threw' = FALSE,
         UNCHANGED <<e_kind, e_fatal>>
  PROVE  Kept
  <1>1. /\ e_obj'[x] = s /\ e_obj'[y] = r
        /\ \A z \in Objects \ {x, y} : e_obj'[z] = e_obj[z]
    BY DEF CarryingInv, Carrying!TypeOK
  <1>2. \A z \in Objects : IF z \in e_live' THEN Alive(e_obj'[z])
                           ELSE Empty(e_obj'[z])
    BY <1>1 DEF CarryingInv, Becomes
  <1>3. \A z \in Objects : e_obj'[z] \in Carrying!Storage
    BY <1>2, Stored
  <1>4. e_obj' \in [Objects -> Carrying!Storage]
    BY <1>3 DEF CarryingInv, Carrying!TypeOK
  <1>5. Carrying!TypeOK' /\ Carrying!TerminatesOnlyCopying'
    BY <1>4 DEF CarryingInv, Carrying!TypeOK, Carrying!TerminatesOnlyCopying
  <1>6. \A z \in Objects : e_obj'[z].lost = e_obj[z].lost
    BY <1>1 DEF Becomes
  <1>7. \A z \in e_live : Spared(z)
    BY DEF Spared
  <1> QED  BY <1>2, <1>5, <1>6, <1>7 DEF Kept, CarryingInv

\* An operation that changes no object.
LEMMA StepOfNone ==
  ASSUME CarryingInv, UNCHANGED <<e_kind, e_live, e_obj>>,
         e_threw' \in BOOLEAN, Carrying!TypeOK',
         Carrying!TerminatesOnlyCopying'
  PROVE  Kept
  BY DEF CarryingInv, Kept, Spared

LEMMA FinishStep ==
  ASSUME CarryingInv, NEW x \in e_live, NEW s, Becomes(e_obj[x], s),
         Carrying!Finish(x, s)
  PROVE  Kept
  <1>1. x \in Objects /\ e_live' = e_live \cup {x}
    BY DEF CarryingInv, Carrying!TypeOK, Carrying!Finish
  <1>2. e_threw' = FALSE
    BY DEF Carrying!Finish
  <1> QED  BY <1>1, <1>2, StepOfOne DEF Carrying!Finish

LEMMA ThrowStep ==
  ASSUME CarryingInv, NEW x \in e_live, NEW s, Becomes(e_obj[x], s),
         ~e_obj[x].has => s = e_obj[x], Carrying!Throw(x, s)
  PROVE  Kept
  <1>1. x \in Objects /\ e_live' = e_live \cup {x}
    BY DEF CarryingInv, Carrying!TypeOK, Carrying!Throw
  <1>2. e_threw' = TRUE
    BY DEF Carrying!Throw
  <1> QED  BY <1>1, <1>2, StepOfOne DEF Carrying!Throw

LEMMA TerminateStep ==
  ASSUME CarryingInv, NEW op, Carrying!Terminate(op),
         \/ Carrying!CopyThrows /\ op \in {"copy", "copyOver", "copyAssign"}
         \/ Carrying!MoveThrows /\ op \in {"move", "moveAssign"}
  PROVE  Kept
  <1>1. e_threw' = TRUE /\ e_fatal' = op /\ UNCHANGED <<e_kind, e_live, e_obj>>
    BY DEF Carrying!Terminate
  <1>2. Carrying!TypeOK'
    BY <1>1 DEF CarryingInv, Carrying!TypeOK
  <1>3. Carrying!TerminatesOnlyCopying'
    BY <1>1 DEF Carrying!TerminatesOnlyCopying, Carrying!CopyThrows,
                Carrying!MoveThrows
  <1> QED  BY <1>1, <1>2, <1>3, StepOfNone

\* The new object keeps the count of what was lost in its place.
WithLost(s, n) == [s EXCEPT !.lost = n]
WithMoreLost(s, n) == [s EXCEPT !.lost = @ + n]

LEMMA Counting ==
  ASSUME NEW v, NEW k \in Nat, NEW n \in Nat
  PROVE  /\ WithLost(Holds(v, k), n) = Holds(v, n)
         /\ WithLost(Fails(v, k), n) = Fails(v, n)
         /\ WithMoreLost(Holds(v, k), n) = Holds(v, k + n)
         /\ WithMoreLost(Fails(v, k), n) = Fails(v, k + n)
  <1> DEFINE T == [at : {"value", "error"}, has : BOOLEAN, v : {v},
                   lost : Nat, dead : {0}]
             s == Holds(v, k)
             f == Fails(v, k)
  <1>1. /\ s \in T /\ s = Record("value", Yes, v, k)
        /\ f \in T /\ f = Record("error", No, v, k)
    BY Flags DEF Record, Holds, Fails
  <1>2. s.lost + n = k + n /\ f.lost + n = k + n
    BY <1>1 DEF Record
  <1>3. /\ WithLost(s, n) = [s EXCEPT !.lost = n]
        /\ WithLost(f, n) = [f EXCEPT !.lost = n]
    BY Zenon DEF WithLost
  <1>4. /\ WithMoreLost(s, n) = [s EXCEPT !.lost = k + n]
        /\ WithMoreLost(f, n) = [f EXCEPT !.lost = k + n]
    BY <1>2 DEF WithMoreLost
  <1> HIDE DEF s, f
  <1>5. [s EXCEPT !.lost = n] = Record("value", Yes, v, n)
    BY <1>1, Flags DEF Record
  <1>6. [f EXCEPT !.lost = n] = Record("error", No, v, n)
    BY <1>1, Flags DEF Record
  <1>7. [s EXCEPT !.lost = k + n] = Record("value", Yes, v, k + n)
    BY <1>1, Flags DEF Record
  <1>8. [f EXCEPT !.lost = k + n] = Record("error", No, v, k + n)
    BY <1>1, Flags DEF Record
  <1> QED  BY <1>3, <1>4, <1>5, <1>6, <1>7, <1>8 DEF Holds, Fails, s, f

LEMMA Beginning ==
  ASSUME NEW s, Newborn(s), NEW t, t.lost \in 0 .. MaxLost
  PROVE  /\ Becomes(t, WithLost(s, t.lost))
         /\ Becomes(t, WithMoreLost(s, t.lost))
  <1>1. PICK v \in States : s = Holds(v, 0) \/ s = Fails(v, 0)
    BY DEF Newborn
  <1> DEFINE n == t.lost
  <1>2. n \in Nat /\ n \in 0 .. MaxLost /\ 0 + n = n /\ 0 \in Nat
    BY ConstantTypes
  <1> HIDE DEF n
  <1>3. /\ WithLost(s, n) \in {Holds(v, n), Fails(v, n)}
        /\ WithMoreLost(s, n) \in {Holds(v, n), Fails(v, n)}
    BY <1>1, <1>2, Counting
  <1>4. \A r \in {Holds(v, n), Fails(v, n)} : Alive(r) /\ r.lost = n
    BY <1>2, Fields DEF Alive, Value, Fault
  <1> QED  BY <1>3, <1>4 DEF Becomes, n

LEMMA BornStep ==
  ASSUME CarryingInv, NEW x \in Objects, NEW s, Newborn(s),
         Carrying!Born(x, s)
  PROVE  Kept
  <1>1. Becomes(e_obj[x], WithMoreLost(s, e_obj[x].lost))
    BY Lives, Beginning
  <1>2. e_obj' = [e_obj EXCEPT ![x] = WithMoreLost(s, e_obj[x].lost)]
    BY Zenon DEF Carrying!Born, WithMoreLost
  <1>3. e_threw' = FALSE
    BY DEF Carrying!Born
  <1> QED  BY <1>1, <1>2, <1>3, StepOfOne DEF Carrying!Born

LEMMA NewValueIs ==
  ASSUME NEW v \in States
  PROVE  /\ Newborn(Carrying!NewValue(Carrying!NoObject, v))
         /\ Newborn(Carrying!NewError(Carrying!NoObject, v))
  BY OnNothing DEF Newborn

-----------------------------------------------------------------------------
(* The steps of construction                                               *)

LEMMA FromValueStep ==
  ASSUME CarryingInv, NEW x \in Objects, NEW v \in States,
         Carrying!FromValue(x, v)
  PROVE  Kept
  <1>1. CASE Carrying!Born(x, Carrying!NewValue(Carrying!NoObject, v))
    BY <1>1, NewValueIs, BornStep
  <1>2. CASE e_threw' = TRUE /\ UNCHANGED <<e_kind, e_live, e_obj, e_fatal>>
    <2>1. Carrying!TypeOK' /\ Carrying!TerminatesOnlyCopying'
      BY <1>2 DEF CarryingInv, Carrying!TypeOK, Carrying!TerminatesOnlyCopying
    <2> QED  BY <1>2, <2>1, StepOfNone
  <1> QED  BY <1>1, <1>2 DEF Carrying!FromValue

LEMMA FromErrorStep ==
  ASSUME CarryingInv, NEW x \in Objects, NEW e \in States,
         Carrying!FromError(x, e)
  PROVE  Kept
  BY NewValueIs, BornStep DEF Carrying!FromError

LEMMA CopyStep ==
  ASSUME CarryingInv, NEW x \in Objects, NEW y \in Objects,
         Carrying!Copy(x, y)
  PROVE  Kept
  <1>1. e_obj[y].v \in States
    BY Lives DEF Carrying!Copy
  <1>2. CASE Carrying!Terminate("copy") /\ Carrying!CopyThrows
    BY <1>2, TerminateStep
  <1>3. ASSUME NEW s, Newborn(s), Carrying!Born(x, s)
        PROVE  Kept
    BY <1>3, BornStep
  <1> QED  BY <1>1, <1>2, <1>3, NewValueIs DEF Carrying!Copy

LEMMA MoveStep ==
  ASSUME CarryingInv, NEW x \in Objects, NEW y \in Objects,
         Carrying!Move(x, y)
  PROVE  Kept
  <1> DEFINE s == Carrying!NewValue(Carrying!NoObject, e_obj[y].v)
  <1>1. /\ x \notin e_live /\ y \in e_live /\ x # y
        /\ Alive(e_obj[y]) /\ e_obj[y].v \in States
    BY Lives DEF Carrying!Move
  <1>2. CASE /\ e_obj[y].has /\ e_live' = e_live \cup {x}
             /\ e_obj' = [e_obj EXCEPT
                  ![x] = [s EXCEPT !.lost = e_obj[x].lost],
                  ![y] = Carrying!SetValue(@, Moved)]
             /\ e_threw' = FALSE /\ UNCHANGED <<e_kind, e_fatal>>
    <2>1. Becomes(e_obj[x], WithLost(s, e_obj[x].lost))
      BY <1>1, Lives, NewValueIs, Beginning
    <2>2. Becomes(e_obj[y], Carrying!SetValue(e_obj[y], Moved))
      BY <1>1, <1>2, OnValue, ConstantTypes
    <2>3. e_obj' = [e_obj EXCEPT
                      ![x] = WithLost(s, e_obj[x].lost),
                      ![y] = Carrying!SetValue(e_obj[y], Moved)]
      <3>1. e_obj' = [e_obj EXCEPT
                       ![x] = WithLost(s, e_obj[x].lost),
                       ![y] = Carrying!SetValue(@, Moved)]
        BY <1>2, Zenon DEF WithLost
      <3> QED  BY <3>1, <1>1
    <2>4. e_live' = e_live \cup {x, y}
      BY <1>1, <1>2
    <2> QED  BY <1>1, <1>2, <2>1, <2>2, <2>3, <2>4, StepOfTwo
  <1>3. CASE Carrying!Terminate("move") /\ Carrying!MoveThrows
    BY <1>3, TerminateStep
  <1>4. CASE Carrying!Born(x, Carrying!NewError(Carrying!NoObject,
                                                e_obj[y].v))
    BY <1>1, <1>4, NewValueIs, BornStep
  <1> QED  BY <1>2, <1>3, <1>4 DEF Carrying!Move

\* A conversion gives a T up, that of the storage base.
Converted ==
  \E x \in Objects, y \in Objects, v \in Vals :
    /\ Carrying!Convert(x, y, v)
    /\ \A z \in Objects \ {x} : e_obj'[z] = e_obj[z]

LEMMA ConvertStep ==
  ASSUME CarryingInv, NEW x \in Objects, NEW y \in Objects, NEW v \in Vals,
         Carrying!Convert(x, y, v)
  PROVE  Kept \/ (CarryingInv' /\ e_threw' = FALSE /\ Converted)
  <1> DEFINE base == Carrying!NewValue(Carrying!NoObject, v)
             w == e_obj[y].v
             l == e_obj[x].lost
             s == IF e_obj[y].has THEN Carrying!NewValue(base, v)
                  ELSE Carrying!NewError(base, w)
  <1>1. /\ x \notin e_live /\ y \in e_live /\ w \in States /\ v \in States
        /\ l \in Nat /\ 1 + l \in 0 .. MaxLost
    BY Lives, ConstantTypes DEF Carrying!Convert, States
  <1>2. CASE Carrying!Terminate("copy") /\ Carrying!CopyThrows
    BY <1>2, TerminateStep
  <1>3. CASE Carrying!Born(x, s)
    <2>1. s = Holds(v, 1) \/ s = Fails(w, 1)
      BY <1>1, OnNothing, OnDefault
    <2> DEFINE r == WithMoreLost(s, l)
    <2>2. r = Holds(v, 1 + l) \/ r = Fails(w, 1 + l)
      <3>1. /\ WithMoreLost(Holds(v, 1), l) = Holds(v, 1 + l)
            /\ WithMoreLost(Fails(w, 1), l) = Fails(w, 1 + l)
        BY <1>1, Counting
      <3> QED  BY <2>1, <3>1
    <2>3. Alive(r)
      BY <1>1, <2>2 DEF Alive, Value, Fault
    <2>4. /\ e_obj' = [e_obj EXCEPT ![x] = r] /\ e_live' = e_live \cup {x}
          /\ e_threw' = FALSE /\ UNCHANGED <<e_kind, e_fatal>>
      BY <1>3, Zenon DEF Carrying!Born, WithMoreLost
    <2> HIDE DEF s, r
    <2>5. e_obj'[x] = r /\ \A z \in Objects \ {x} : e_obj'[z] = e_obj[z]
      BY <2>4 DEF CarryingInv, Carrying!TypeOK
    <2>6. \A z \in Objects : IF z \in e_live' THEN Alive(e_obj'[z])
                             ELSE Empty(e_obj'[z])
      BY <2>3, <2>4, <2>5 DEF CarryingInv
    <2>7. e_obj' \in [Objects -> Carrying!Storage]
      BY <2>4, <2>6, Stored DEF CarryingInv, Carrying!TypeOK
    <2>8. CarryingInv'
      BY <2>4, <2>6, <2>7
      DEF CarryingInv, Carrying!TypeOK, Carrying!TerminatesOnlyCopying
    <2>9. Converted
      <3>1. Carrying!Convert(x, y, v)
        OBVIOUS
      <3> QED  BY <2>5, <3>1 DEF Converted
    <2> QED  BY <2>4, <2>8, <2>9
  <1> QED  BY <1>2, <1>3 DEF Carrying!Convert

\* What is left of an object that is destroyed.
Destroyed(o) ==
  LET s == IF o.has THEN Carrying!DestroyValue(o) ELSE o
  IN [s EXCEPT !.at = "none", !.has = FALSE, !.v = Moved,
               !.lost = IF s.at = "value" THEN @ + 1 ELSE @]

LEMMA OnDestroyed ==
  ASSUME NEW o, Alive(o)
  PROVE  Empty(Destroyed(o)) /\ Destroyed(o).lost = o.lost
  <1>1. PICK w \in States, l \in 0 .. MaxLost :
          IF o.has THEN o = Holds(w, l) ELSE o = Fails(w, l)
    BY Fields DEF Alive, Value, Fault
  <1> DEFINE T  == [at : {"error", "none"}, has : BOOLEAN,
                    v : {w, Moved}, lost : {l}, dead : {0}]
             s  == IF o.has THEN Carrying!DestroyValue(o) ELSE o
             s1 == [s EXCEPT !.at = "none"]
             s2 == [s1 EXCEPT !.has = No]
             s3 == [s2 EXCEPT !.v = Moved]
             s4 == [s3 EXCEPT !.lost = l]
  <1>2. PICK a \in {"error", "none"}, h \in BOOLEAN : s = Record(a, h, w, l)
    <2>1. CASE o.has
      BY <1>1, <2>1, Flags, UsingValue, ConstantTypes
    <2>2. CASE ~o.has
      BY <1>1, <2>2, Flags DEF Fails
    <2> QED  BY <2>1, <2>2
  <1>3. s \in T /\ s.lost = l /\ s.at # "value"
    BY <1>2 DEF Record
  <1>4. (IF s.at = "value" THEN s.lost + 1 ELSE s.lost) = l
    BY <1>3
  <1>5. Destroyed(o) = s4
    BY <1>4 DEF Destroyed, No
  <1> HIDE DEF s
  <1>6. s1 = Record("none", h, w, l) /\ s1 \in T
    BY <1>2, <1>3 DEF Record
  <1> HIDE DEF s1
  <1>7. s2 = Record("none", No, w, l) /\ s2 \in T
    BY <1>6, Flags DEF Record
  <1> HIDE DEF s2
  <1>8. s3 = Record("none", No, Moved, l) /\ s3 \in T
    BY <1>7, Flags DEF Record
  <1> HIDE DEF s3
  <1>9. s4 = Record("none", No, Moved, l)
    BY <1>8, Flags DEF Record
  <1> HIDE DEF s4
  <1> QED  BY <1>1, <1>5, <1>9, Fields, ConstantTypes DEF Empty

LEMMA DestroyStep ==
  ASSUME CarryingInv, NEW x \in Objects, Carrying!Destroy(x)
  PROVE  Kept
  <1>1. /\ x \in e_live /\ e_live' = e_live \ {x}
        /\ e_obj' = [e_obj EXCEPT ![x] = Destroyed(@)]
        /\ e_threw' = FALSE /\ UNCHANGED <<e_kind, e_fatal>>
    BY Zenon DEF Carrying!Destroy, Destroyed
  <1>2. Empty(Destroyed(e_obj[x])) /\ Destroyed(e_obj[x]).lost = e_obj[x].lost
    BY <1>1, Lives, OnDestroyed
  <1>3. /\ e_obj'[x] = Destroyed(e_obj[x])
        /\ \A z \in Objects \ {x} : e_obj'[z] = e_obj[z]
    BY <1>1 DEF CarryingInv, Carrying!TypeOK
  <1>4. \A z \in Objects : IF z \in e_live' THEN Alive(e_obj'[z])
                           ELSE Empty(e_obj'[z])
    BY <1>1, <1>2, <1>3 DEF CarryingInv
  <1>5. e_obj' \in [Objects -> Carrying!Storage]
    BY <1>1, <1>4, Stored DEF CarryingInv, Carrying!TypeOK
  <1>6. CarryingInv'
    BY <1>1, <1>4, <1>5
    DEF CarryingInv, Carrying!TypeOK, Carrying!TerminatesOnlyCopying
  <1> QED  BY <1>1, <1>2, <1>3, <1>6 DEF Kept, Spared

-----------------------------------------------------------------------------
(* Assignment                                                              *)

LEMMA OnAssign ==
  ASSUME NEW s, Alive(s), NEW r, Alive(r)
  PROVE  /\ ~(~s.has /\ r.has) => Becomes(s, Carrying!AssignCommon(s, r))
         /\ ~s.has /\ r.has =>
              Becomes(s, Carrying!NewValue(Carrying!DestroyError(s), r.v))
  <1>1. r.v \in States
    BY FlagOf
  <1>2. CASE s.has
    BY <1>1, <1>2, OnValue DEF Carrying!AssignCommon
  <1>3. CASE ~s.has
    BY <1>1, <1>3, OnError DEF Carrying!AssignCommon
  <1> QED  BY <1>2, <1>3

LEMMA CopyAssignStep ==
  ASSUME CarryingInv, NEW x \in Objects, NEW y \in Objects,
         Carrying!CopyAssign(x, y)
  PROVE  Kept
  <1> DEFINE s == e_obj[x]
             r == e_obj[y]
  <1>1. x \in e_live /\ y \in e_live /\ Alive(s) /\ Alive(r)
    BY Lives DEF Carrying!CopyAssign
  <1>2. ASSUME NEW t, Becomes(s, t), Carrying!Finish(x, t)  PROVE Kept
    BY <1>1, <1>2, FinishStep
  <1>3. ASSUME s.has, Carrying!Throw(x, Carrying!SetValue(s, Torn))
        PROVE  Kept
    BY <1>1, <1>3, OnValue, ConstantTypes, ThrowStep
  <1>4. ASSUME NEW op \in {"copyOver", "copyAssign"}, Carrying!CopyThrows,
               Carrying!Terminate(op)
        PROVE  Kept
    BY <1>4, TerminateStep
  <1> QED  BY <1>1, <1>2, <1>3, <1>4, OnAssign DEF Carrying!CopyAssign

LEMMA MoveAssignStep ==
  ASSUME CarryingInv, NEW x \in Objects, NEW y \in Objects,
         Carrying!MoveAssign(x, y)
  PROVE  Kept
  <1> DEFINE s == e_obj[x]
             r == e_obj[y]
             new == IF ~s.has /\ r.has
                      THEN Carrying!NewValue(Carrying!DestroyError(s), r.v)
                      ELSE Carrying!AssignCommon(s, r)
             old == IF r.has THEN Carrying!SetValue(r, Moved) ELSE r
  <1>1. x \in e_live /\ y \in e_live /\ x # y /\ Alive(s) /\ Alive(r)
    BY Lives DEF Carrying!MoveAssign
  <1>2. CASE /\ e_obj' = [e_obj EXCEPT ![x] = new,
                   ![y] = IF r.has THEN Carrying!SetValue(@, Moved) ELSE @]
             /\ e_threw' = FALSE /\ UNCHANGED <<e_kind, e_live, e_fatal>>
    <2>1. Becomes(s, new)
      BY <1>1, OnAssign
    <2>2. Becomes(r, old)
      BY <1>1, OnValue, OnError, ConstantTypes
    <2>3. e_live' = e_live \cup {x, y}
      BY <1>1, <1>2
    <2> HIDE DEF new
    <2>4. e_obj' = [e_obj EXCEPT ![x] = new, ![y] = old]
      BY <1>1, <1>2
    <2> QED  BY <1>1, <1>2, <2>1, <2>2, <2>3, <2>4, StepOfTwo
  <1>3. CASE Carrying!MoveThrows /\ Carrying!Terminate("moveAssign")
    BY <1>3, TerminateStep
  <1>4. CASE s.has /\ Carrying!Throw(x, Carrying!SetValue(s, Torn))
    BY <1>1, <1>4, OnValue, ConstantTypes, ThrowStep
  <1> QED  BY <1>2, <1>3, <1>4 DEF Carrying!MoveAssign

LEMMA AssignValueStep ==
  ASSUME CarryingInv, NEW x \in Objects, NEW v \in States,
         Carrying!AssignValue(x, v) \/ Carrying!Emplace(x, v)
  PROVE  Kept
  <1> DEFINE s == e_obj[x]
  <1>1. x \in e_live /\ Alive(s)
    BY Lives DEF Carrying!AssignValue, Carrying!Emplace
  <1>2. ASSUME NEW t, Becomes(s, t), Carrying!Finish(x, t)  PROVE Kept
    BY <1>1, <1>2, FinishStep
  <1>3. ASSUME NEW t, Becomes(s, t), ~s.has => t = s, Carrying!Throw(x, t)
        PROVE  Kept
    BY <1>1, <1>3, ThrowStep
  <1>4. CASE s.has
    BY <1>1, <1>2, <1>3, <1>4, OnValue, ConstantTypes
    DEF Carrying!AssignValue, Carrying!Emplace
  <1>5. CASE ~s.has
    BY <1>1, <1>2, <1>3, <1>5, OnError, ConstantTypes
    DEF Carrying!AssignValue, Carrying!Emplace
  <1> QED  BY <1>4, <1>5

LEMMA AssignErrorStep ==
  ASSUME CarryingInv, NEW x \in Objects, NEW e \in States,
         Carrying!AssignError(x, e)
  PROVE  Kept
  <1>1. x \in e_live /\ Alive(e_obj[x])
    BY Lives DEF Carrying!AssignError
  <1> QED  BY <1>1, OnValue, OnError, FinishStep DEF Carrying!AssignError

LEMMA ValueStep ==
  ASSUME CarryingInv, NEW x \in Objects,
         Carrying!Value(x) \/ Carrying!Error(x)
  PROVE  Kept
  <1>1. x \in e_live /\ Alive(e_obj[x]) /\ e_obj[x].v \in States
    BY Lives DEF Carrying!Value, Carrying!Error
  <1> QED  BY <1>1, OnValue, OnError, FinishStep, ThrowStep
           DEF Carrying!Value, Carrying!Error

\* swap
LEMMA SwapDifferingStep ==
  ASSUME CarryingInv, NEW x \in e_live, NEW y \in e_live, x # y,
         e_obj[x].has, ~e_obj[y].has, Carrying!SwapDiffering(x, y)
  PROVE  Kept
  <1> DEFINE s == e_obj[x]
             r == e_obj[y]
             s1 == Carrying!NewError(Carrying!DestroyValue(s), r.v)
             r1 == Carrying!NewValue(Carrying!DestroyError(r), s.v)
             s2 == [s1 EXCEPT !.has = r.has]
             r2 == [r1 EXCEPT !.has = s.has]
  <1>1. /\ x \in Objects /\ y \in Objects /\ Alive(s) /\ Alive(r)
        /\ s.v \in States /\ r.v \in States
    BY Lives DEF CarryingInv, Carrying!TypeOK
  <1>2. PICK w \in States, l \in 0 .. MaxLost : s = Holds(w, l)
    BY <1>1, FlagOf DEF Value
  <1>3. PICK u \in States, k \in 0 .. MaxLost : r = Fails(u, k)
    BY <1>1, FlagOf DEF Fault
  <1>4. CASE /\ e_obj' = [e_obj EXCEPT ![x] = s2, ![y] = r2]
             /\ e_threw' = FALSE /\ UNCHANGED <<e_kind, e_live, e_fatal>>
    <2>1. l \in Nat /\ k \in Nat
      BY ConstantTypes
    <2>2. s1 = Fails(u, l) /\ r1 = Holds(w, k)
      BY <1>2, <1>3, <2>1, Exchanging, Fields
    <2>3. s1 \in [at : {"error"}, has : {No}, v : {u}, lost : {l}, dead : {0}]
      BY <2>2 DEF Fails, Record
    <2>4. r1 \in [at : {"value"}, has : {Yes}, v : {w}, lost : {k}, dead : {0}]
      BY <2>2 DEF Holds, Record
    <2>5. r.has = No /\ s.has = Yes
      BY <1>2, <1>3 DEF Holds, Fails, Record
    <2> HIDE DEF s1, r1
    <2>6. s2 = s1
      BY <2>3, <2>5
    <2>7. r2 = r1
      BY <2>4, <2>5
    <2> HIDE DEF s2, r2
    <2>8. Becomes(s, s2) /\ Becomes(r, r2)
      BY <1>2, <1>3, <2>2, <2>6, <2>7, Fields DEF Becomes, Alive, Value, Fault
    <2>9. e_live' = e_live \cup {x, y}
      BY <1>4
    <2> QED  BY <1>1, <1>4, <2>8, <2>9, StepOfTwo
  <1>5. CASE Carrying!Throw(y, Carrying!Restored(r))
    BY <1>1, <1>5, OnError, ThrowStep
  <1> QED  BY <1>4, <1>5 DEF Carrying!SwapDiffering

LEMMA SwapStep ==
  ASSUME CarryingInv, NEW x \in Objects, NEW y \in Objects,
         Carrying!Swap(x, y)
  PROVE  Kept
  <1> DEFINE s == e_obj[x]
             r == e_obj[y]
  <1>1. /\ x \in e_live /\ y \in e_live /\ x # y /\ Alive(s) /\ Alive(r)
        /\ s.v \in States /\ r.v \in States
    BY Lives DEF Carrying!Swap
  <1>2. e_live = e_live \cup {x, y}
    BY <1>1
  <1>3. ASSUME s.has, r.has  PROVE Kept
    <2>1. /\ Becomes(s, Carrying!SetValue(s, r.v))
          /\ Becomes(r, Carrying!SetValue(r, s.v))
          /\ Becomes(s, Carrying!SetValue(s, Torn))
      BY <1>1, <1>3, OnValue, ConstantTypes
    <2>2. CASE /\ e_obj' = [e_obj EXCEPT ![x] = Carrying!SetValue(@, r.v),
                                         ![y] = Carrying!SetValue(@, s.v)]
               /\ e_threw' = FALSE /\ UNCHANGED <<e_kind, e_live, e_fatal>>
      <3>1. e_obj' = [e_obj EXCEPT ![x] = Carrying!SetValue(s, r.v),
                                   ![y] = Carrying!SetValue(r, s.v)]
        BY <1>1, <2>2
      <3> QED  BY <1>1, <1>2, <2>1, <2>2, <3>1, StepOfTwo
    <2>3. CASE Carrying!Throw(x, Carrying!SetValue(s, Torn))
      BY <1>1, <1>3, <2>1, <2>3, ThrowStep
    <2> QED  BY <1>3, <2>2, <2>3 DEF Carrying!Swap
  <1>4. ASSUME ~s.has, ~r.has  PROVE Kept
    <2>1. /\ Becomes(s, Carrying!SetError(s, r.v))
          /\ Becomes(r, Carrying!SetError(r, s.v))
      BY <1>1, <1>4, OnError
    <2>2. /\ e_obj' = [e_obj EXCEPT ![x] = Carrying!SetError(@, r.v),
                                    ![y] = Carrying!SetError(@, s.v)]
          /\ e_threw' = FALSE /\ UNCHANGED <<e_kind, e_live, e_fatal>>
      BY <1>4 DEF Carrying!Swap
    <2>3. e_obj' = [e_obj EXCEPT ![x] = Carrying!SetError(s, r.v),
                                 ![y] = Carrying!SetError(r, s.v)]
      BY <1>1, <2>2
    <2> QED  BY <1>1, <1>2, <2>1, <2>2, <2>3, StepOfTwo
  <1>5. ASSUME ~s.has, r.has  PROVE Kept
    <2>1. Carrying!SwapDiffering(y, x)
      BY <1>5 DEF Carrying!Swap
    <2> QED  BY <1>1, <1>5, <2>1, SwapDifferingStep
  <1>6. ASSUME s.has, ~r.has  PROVE Kept
    <2>1. Carrying!SwapDiffering(x, y)
      BY <1>6 DEF Carrying!Swap
    <2> QED  BY <1>1, <1>6, <2>1, SwapDifferingStep
  <1> QED  BY <1>3, <1>4, <1>5, <1>6

-----------------------------------------------------------------------------
(* What is made of an expected                                             *)

LEMMA DeriveStep ==
  ASSUME CarryingInv, NEW z \in Objects, NEW y \in Objects,
         z \notin e_live, y \in e_live,
         NEW results, \A r \in results : Newborn(r),
         Carrying!Derive(z, y, results)
  PROVE  Kept
  <1>1. PICK s \in Carrying!Passed(e_obj[y]), r \in results :
          e_obj' = [e_obj EXCEPT ![y] = s,
                                 ![z] = [r EXCEPT !.lost = e_obj[z].lost]]
    BY DEF Carrying!Derive
  <1>2. e_obj' = [e_obj EXCEPT ![y] = s,
                               ![z] = WithLost(r, e_obj[z].lost)]
    BY <1>1, Zenon DEF WithLost
  <1>3. Becomes(e_obj[y], s)
    BY Lives, OnPassed
  <1>4. Becomes(e_obj[z], WithLost(r, e_obj[z].lost))
    BY Lives, Beginning
  <1>5. /\ e_live' = e_live \cup {y, z} /\ e_threw' = FALSE
        /\ UNCHANGED <<e_kind, e_fatal>>
    BY DEF Carrying!Derive
  <1> QED  BY <1>2, <1>3, <1>4, <1>5, StepOfTwo

LEMMA InvokeStep ==
  ASSUME CarryingInv, NEW z \in Objects, NEW y \in Objects,
         z \notin e_live, y \in e_live,
         NEW results, \A r \in results : Newborn(r),
         Carrying!Invoke(z, y, results)
  PROVE  Kept
  <1>1. ASSUME NEW s \in Carrying!Passed(e_obj[y]), Carrying!Throw(y, s)
        PROVE  Kept
    BY <1>1, Lives, OnPassed, ThrowStep
  <1> QED  BY <1>1, DeriveStep DEF Carrying!Invoke

LEMMA ResultsAreNew ==
  /\ \A r \in Carrying!NewValues \cup Carrying!NewErrors : Newborn(r)
  /\ \A v \in States : Newborn(Carrying!NewValue(Carrying!NoObject, v))
  BY NewValueIs DEF Carrying!NewValues, Carrying!NewErrors, States

LEMMA PassErrorStep ==
  ASSUME CarryingInv, NEW z \in Objects, NEW y \in e_live,
         Carrying!PassError(z, y)
  PROVE  Kept
  <1>1. y \in Objects
    BY DEF CarryingInv, Carrying!TypeOK
  <1> QED  BY <1>1, Lives, NewValueIs, BornStep DEF Carrying!PassError

LEMMA MonadicStep ==
  ASSUME CarryingInv, NEW z \in Objects, NEW y \in Objects,
         \/ Carrying!AndThen(z, y) \/ Carrying!Map(z, y)
         \/ Carrying!MapError(z, y) \/ Carrying!OrElse(z, y)
  PROVE  Kept
  <1>1. z \notin e_live /\ y \in e_live /\ e_obj[y].v \in States
    BY Lives DEF Carrying!AndThen, Carrying!Map, Carrying!MapError,
                 Carrying!OrElse
  <1>2. ASSUME NEW results, \A r \in results : Newborn(r),
               Carrying!Invoke(z, y, results)
        PROVE  Kept
    BY <1>1, <1>2, InvokeStep
  <1>3. ASSUME Carrying!Derive(z, y, {Carrying!NewValue(Carrying!NoObject,
                                                        e_obj[y].v)})
        PROVE  Kept
    BY <1>1, <1>3, DeriveStep, ResultsAreNew
  <1>4. ASSUME Carrying!PassError(z, y)  PROVE Kept
    BY <1>1, <1>4, PassErrorStep
  <1>5. ASSUME Carrying!FromValue(z, e_obj[y].v)  PROVE Kept
    BY <1>1, <1>5, FromValueStep
  <1>6. ASSUME Carrying!Copy(z, y) \/ Carrying!Move(z, y)  PROVE Kept
    BY <1>6, CopyStep, MoveStep
  <1>7. CASE Carrying!AndThen(z, y)
    BY <1>2, <1>4, <1>7, ResultsAreNew DEF Carrying!AndThen
  <1>8. CASE Carrying!Map(z, y)
    BY <1>2, <1>4, <1>8, ResultsAreNew DEF Carrying!Map
  <1>9. CASE Carrying!MapError(z, y)
    BY <1>2, <1>3, <1>5, <1>9, ResultsAreNew DEF Carrying!MapError
  <1>10. CASE Carrying!OrElse(z, y)
    BY <1>2, <1>4, <1>6, <1>10, ResultsAreNew DEF Carrying!OrElse
  <1> QED  BY <1>7, <1>8, <1>9, <1>10

LEMMA ValueOrStep ==
  ASSUME CarryingInv, NEW x \in Objects, Carrying!ValueOr(x)
  PROVE  Kept
  <1>1. x \in e_live /\ Alive(e_obj[x]) /\ e_obj[x].v \in States
    BY Lives DEF Carrying!ValueOr
  <1>2. CASE e_obj[x].has
    BY <1>1, <1>2, OnPassed, FinishStep, ThrowStep DEF Carrying!ValueOr
  <1>3. CASE ~e_obj[x].has
    BY <1>1, <1>3, OnError, FinishStep, ThrowStep DEF Carrying!ValueOr
  <1> QED  BY <1>2, <1>3

LEMMA EqualStep ==
  ASSUME CarryingInv, NEW x \in Objects, NEW y \in Objects,
         Carrying!Equal(x, y)
  PROVE  Kept
  <1>1. x \in e_live /\ y \in e_live /\ Alive(e_obj[x]) /\ Alive(e_obj[y])
    BY Lives DEF Carrying!Equal
  <1>2. /\ Carrying!Read(e_obj[x]) = e_obj[x]
        /\ Carrying!Read(e_obj[y]) = e_obj[y]
    <2>1. ASSUME NEW s, Alive(s)  PROVE Carrying!Read(s) = s
      <3>1. PICK w \in States, l \in 0 .. MaxLost :
              s = Holds(w, l) \/ s = Fails(w, l)
        BY <2>1 DEF Alive, Value, Fault
      <3> QED  BY <3>1, Reading, ConstantTypes
    <2> QED  BY <1>1, <2>1
  <1>3. e_obj' = e_obj
    BY <1>2 DEF Carrying!Equal, CarryingInv, Carrying!TypeOK
  <1>4. e_threw' = FALSE /\ UNCHANGED <<e_kind, e_live, e_fatal>>
    BY DEF Carrying!Equal
  <1>5. Carrying!TypeOK' /\ Carrying!TerminatesOnlyCopying'
    BY <1>3, <1>4
    DEF CarryingInv, Carrying!TypeOK, Carrying!TerminatesOnlyCopying
  <1> QED  BY <1>3, <1>4, <1>5, StepOfNone

-----------------------------------------------------------------------------
(* Every step                                                              *)

LEMMA CarryingStep ==
  ASSUME CarryingInv, Carrying!Next
  PROVE  Kept \/ (CarryingInv' /\ e_threw' = FALSE /\ Converted)
  <1>1. PICK x \in Objects :
          \/ \E v \in Vals : \/ Carrying!FromValue(x, v)
                             \/ Carrying!AssignValue(x, v)
                             \/ Carrying!Emplace(x, v)
          \/ \E e \in Errs : \/ Carrying!FromError(x, e)
                             \/ Carrying!AssignError(x, e)
          \/ Carrying!Destroy(x) \/ Carrying!Value(x) \/ Carrying!ValueOr(x)
          \/ Carrying!Error(x)
          \/ \E y \in Objects :
               \/ Carrying!Copy(x, y) \/ Carrying!Move(x, y)
               \/ Carrying!CopyAssign(x, y) \/ Carrying!MoveAssign(x, y)
               \/ Carrying!Swap(x, y) \/ Carrying!Equal(x, y)
               \/ Carrying!AndThen(x, y) \/ Carrying!Map(x, y)
               \/ Carrying!MapError(x, y) \/ Carrying!OrElse(x, y)
               \/ \E v \in Vals : Carrying!Convert(x, y, v)
    BY DEF Carrying!Next
  <1>2. CASE \E v \in Vals : \/ Carrying!FromValue(x, v)
                             \/ Carrying!AssignValue(x, v)
                             \/ Carrying!Emplace(x, v)
    BY <1>2, FromValueStep, AssignValueStep DEF States
  <1>3. CASE \E e \in Errs : \/ Carrying!FromError(x, e)
                             \/ Carrying!AssignError(x, e)
    BY <1>3, FromErrorStep, AssignErrorStep DEF States
  <1>4. CASE \/ Carrying!Destroy(x) \/ Carrying!Value(x)
             \/ Carrying!ValueOr(x) \/ Carrying!Error(x)
    BY <1>4, DestroyStep, ValueStep, ValueOrStep
  <1>5. ASSUME NEW y \in Objects,
               \/ Carrying!Copy(x, y) \/ Carrying!Move(x, y)
               \/ Carrying!CopyAssign(x, y) \/ Carrying!MoveAssign(x, y)
               \/ Carrying!Swap(x, y) \/ Carrying!Equal(x, y)
               \/ Carrying!AndThen(x, y) \/ Carrying!Map(x, y)
               \/ Carrying!MapError(x, y) \/ Carrying!OrElse(x, y)
        PROVE  Kept
    BY <1>5, CopyStep, MoveStep, CopyAssignStep, MoveAssignStep, SwapStep,
       EqualStep, MonadicStep
  <1>6. ASSUME NEW y \in Objects, NEW v \in Vals, Carrying!Convert(x, y, v)
        PROVE  Kept \/ (CarryingInv' /\ e_threw' = FALSE /\ Converted)
    BY <1>6, ConvertStep
  <1> QED  BY <1>1, <1>2, <1>3, <1>4, <1>5, <1>6

LEMMA CarryingRest ==
  CarryingInv /\ UNCHANGED carryingVars => CarryingInv'
  BY DEF CarryingInv, carryingVars, Carrying!TypeOK,
         Carrying!TerminatesOnlyCopying

LEMMA CarryingStart == Carrying!Init => CarryingInv
  <1> SUFFICES ASSUME Carrying!Init PROVE CarryingInv
    OBVIOUS
  <1>1. Empty(Carrying!NoObject)
    <2>2. Carrying!NoObject = Record("none", No, Moved, 0) /\ 0 \in 0 .. MaxLost
      BY ConstantTypes, OnNothing
    <2> QED  BY <2>2, ConstantTypes DEF Empty
  <1>2. \A x \in Objects : e_obj[x] = Carrying!NoObject
    BY DEF Carrying!Init
  <1>3. e_obj \in [Objects -> Carrying!Storage]
    BY <1>1, Stored DEF Carrying!Init
  <1> QED  BY <1>1, <1>2, <1>3
           DEF CarryingInv, Carrying!Init, Carrying!TypeOK, Carrying!Kinds,
               Carrying!TerminatesOnlyCopying

\* The invariant is kept, a T is lost by a conversion only, and no operation
\* that throws changes an object that holds an error.
LEMMA CarryingNext ==
  CarryingInv /\ [Carrying!Next]_carryingVars =>
    /\ CarryingInv'
    /\ [\A x \in Objects :
          e_obj'[x].lost > e_obj[x].lost =>
            \E y \in Objects, v \in Vals :
              Carrying!Convert(x, y, v)]_(Carrying!vars)
    /\ [e_threw' => \A x \in e_live :
          ~e_obj[x].has => e_obj'[x] = e_obj[x]]_(Carrying!vars)
  <1> SUFFICES ASSUME CarryingInv, [Carrying!Next]_carryingVars
               PROVE  /\ CarryingInv'
                      /\ [\A x \in Objects :
                            e_obj'[x].lost > e_obj[x].lost =>
                              \E y \in Objects, v \in Vals :
                                Carrying!Convert(x, y, v)]_(Carrying!vars)
                      /\ [e_threw' => \A x \in e_live :
                            ~e_obj[x].has =>
                              e_obj'[x] = e_obj[x]]_(Carrying!vars)
    OBVIOUS
  <1>1. CASE UNCHANGED carryingVars
    BY <1>1, CarryingRest DEF Carrying!vars, carryingVars
  <1>2. CASE Kept
    <2>1. \A x \in Objects : ~(e_obj'[x].lost > e_obj[x].lost)
      BY <1>2, Lives, ConstantTypes DEF Kept
    <2> QED  BY <1>2, <2>1 DEF Kept, Spared
  <1>3. CASE CarryingInv' /\ e_threw' = FALSE /\ Converted
    <2>1. PICK x \in Objects, y \in Objects, v \in Vals :
            /\ Carrying!Convert(x, y, v)
            /\ \A z \in Objects \ {x} : e_obj'[z] = e_obj[z]
      BY <1>3 DEF Converted
    <2>2. \A z \in Objects \ {x} : ~(e_obj'[z].lost > e_obj[z].lost)
      BY <2>1, Lives, ConstantTypes
    <2>3. \A z \in Objects : e_obj'[z].lost > e_obj[z].lost => z = x
      BY <2>2
    <2>4. \A z \in Objects :
            e_obj'[z].lost > e_obj[z].lost =>
              \E yy \in Objects, vv \in Vals : Carrying!Convert(z, yy, vv)
      BY <2>1, <2>3
    <2> QED  BY <1>3, <2>4
  <1> QED  BY <1>1, <1>2, <1>3, CarryingStep

LEMMA CarryingHolds ==
  CarryingInv => /\ Carrying!TypeOK /\ Carrying!FlagTellsAlternative
                 /\ Carrying!UsesLiveOnly /\ Carrying!TerminatesOnlyCopying
  <1> SUFFICES ASSUME CarryingInv
               PROVE  Carrying!FlagTellsAlternative /\ Carrying!UsesLiveOnly
    BY DEF CarryingInv
  <1>1. Carrying!FlagTellsAlternative
    BY Lives, FlagOf DEF Carrying!FlagTellsAlternative, CarryingInv,
                         Carrying!TypeOK
  <1>2. Carrying!UsesLiveOnly
    BY Stored DEF Carrying!UsesLiveOnly, CarryingInv
  <1> QED  BY <1>1, <1>2

\* expected<T, E>, for any T whose copying or moving may throw, any number of
\* objects and any sequence of operations on them: the alternative that lives
\* in the union is the one the flag tells, none is used or destroyed that does
\* not live, every T but the one of a conversion is destroyed, an error
\* survives an operation that throws, and a program with a T that does not
\* throw is never terminated.
THEOREM ExpectedIsSound == CallsSpec => HoldsWhatItSays
  <1>1. CallsInit => CarryingInv
    BY CarryingStart DEF CallsInit
  <1>2. [CallsNext]_allVars => [Carrying!Next]_carryingVars
    BY DEF CallsNext, allVars, carryingVars
  <1>3. CarryingInv /\ [CallsNext]_allVars => CarryingInv'
    BY <1>2, CarryingNext
  <1>4. CarryingInv /\ [CallsNext]_allVars =>
          [\A x \in Objects :
             e_obj'[x].lost > e_obj[x].lost =>
               \E y \in Objects, v \in Vals :
                 Carrying!Convert(x, y, v)]_(Carrying!vars)
    BY <1>2, CarryingNext
  <1>5. CarryingInv /\ [CallsNext]_allVars =>
          [e_threw' => \A x \in e_live :
             ~e_obj[x].has => e_obj'[x] = e_obj[x]]_(Carrying!vars)
    BY <1>2, CarryingNext
  <1> QED  BY <1>1, <1>3, <1>4, <1>5, CarryingHolds, PTL
           DEF CallsSpec, HoldsWhatItSays, Carrying!HoldsWhatItSays,
               Carrying!OnlyConversionLoses, Carrying!ErrorSurvivesThrow

=============================================================================
