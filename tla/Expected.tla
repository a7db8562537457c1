------------------------------ MODULE Expected ------------------------------
(***************************************************************************)
(* expected<T, E> (expected.hpp), which carries the result of a remote     *)
(* call: a union of a T and an E with a flag, filled and emptied by        *)
(* placement new and explicit destructors, where operations of T may       *)
(* throw.  E is uint32_t (rpc_result): it neither throws nor needs to be   *)
(* destroyed.  T is of one of three kinds, for which the class has         *)
(* overloads of its own: copying and moving never throw, only copying may  *)
(* (a protobuf message), or both may.                                      *)
(***************************************************************************)
EXTENDS Naturals

CONSTANTS
  Objects,   \* places for an expected
  Vals,      \* the states of a T
  Errs,      \* error codes
  Moved,     \* the state of a T that was moved from
  Torn,      \* the state of a T in which an assignment has thrown
  MaxLost    \* bound: T's that were never destroyed

Kinds == {"calm", "message", "wild"}

\* What is assumed of the constants.
ConstantsOK ==
  /\ MaxLost \in Nat
  /\ Vals \cap Errs = {} /\ {Moved, Torn} \cap Errs = {}

VARIABLES
  kind,    \* which kind T is
  live,    \* the objects whose lifetime has begun and not ended
  obj,     \* the storage: [at, has, v, lost, dead]
  threw,   \* the last operation ended with an exception
  fatal    \* the operation that ended the program, or "none"

vars == <<kind, live, obj, threw, fatal>>

(* at is the alternative that lives in the union and v its state; lost     *)
(* counts the T's over which something was constructed, dead the uses of   *)
(* an alternative that did not live.                                       *)
Storage == [at : {"none", "value", "error"}, has : BOOLEAN,
            v : Vals \cup Errs \cup {Moved, Torn},
            lost : 0 .. MaxLost, dead : Nat]

TypeOK ==
  /\ kind \in Kinds
  /\ live \subseteq Objects
  /\ obj \in [Objects -> Storage]
  /\ threw \in BOOLEAN
  /\ fatal \in {"none", "copy", "move", "copyOver", "copyAssign", "moveAssign"}

NoObject == [at |-> "none", has |-> FALSE, v |-> Moved, lost |-> 0, dead |-> 0]

Init ==
  /\ kind \in Kinds
  /\ live = {}
  /\ obj = [x \in Objects |-> NoObject]
  /\ threw = FALSE /\ fatal = "none"

CopyThrows == kind # "calm"
MoveThrows == kind = "wild"

-----------------------------------------------------------------------------
(* The operations on the union                                             *)

Overwritten(s) == s.lost + (IF s.at = "value" THEN 1 ELSE 0)

Misused(s, at) == s.dead + (IF s.at = at THEN 0 ELSE 1)

\* construct, construct_with, or new (valptr()) T with the flag set after it
NewValue(s, v) ==
  [s EXCEPT !.at = "value", !.v = v, !.has = TRUE, !.lost = Overwritten(s)]

\* construct_error
NewError(s, e) ==
  [s EXCEPT !.at = "error", !.v = e, !.has = FALSE, !.lost = Overwritten(s)]

\* Faulty: the destructor of T is not called.
DestroyValueNot(s) == s

\* destroy_val
DestroyValue(s) == [s EXCEPT !.at = "none", !.dead = Misused(s, "value")]

DestroyError(s) == [s EXCEPT !.at = "none", !.dead = Misused(s, "error")]

SetValue(s, v) == [s EXCEPT !.v = v, !.dead = Misused(s, "value")]

\* Assigning a uint32_t makes it live again.
SetError(s, e) ==
  [s EXCEPT !.v = e, !.at = "error",
            !.dead = IF s.at = "value" THEN @ + 1 ELSE @]

\* auto tmp = move(err()); err().~unexpected(); try { new T } catch: the error
\* is put back, and the flag was not touched.
Restored(s) == SetError(DestroyError(s), s.v)

-----------------------------------------------------------------------------
(* Construction                                                            *)

Finish(x, s) ==
  /\ obj' = [obj EXCEPT ![x] = s]
  /\ threw' = FALSE
  /\ UNCHANGED <<kind, live, fatal>>

Throw(x, s) ==
  /\ obj' = [obj EXCEPT ![x] = s]
  /\ threw' = TRUE
  /\ UNCHANGED <<kind, live, fatal>>

\* An exception leaves a function that is noexcept.
Terminate(op) ==
  /\ fatal' = op
  /\ threw' = TRUE
  /\ UNCHANGED <<kind, live, obj>>

Born(x, s) ==
  /\ x \notin live /\ live' = live \cup {x}
  /\ obj' = [obj EXCEPT ![x] = [s EXCEPT !.lost = @ + obj[x].lost]]
  /\ threw' = FALSE
  /\ UNCHANGED <<kind, fatal>>

\* expected(U&&) and expected(in_place_t, ...); when T throws there is no
\* object.
FromValue(x, v) ==
  \/ Born(x, NewValue(NoObject, v))
  \/ /\ x \notin live /\ CopyThrows
     /\ threw' = TRUE
     /\ UNCHANGED <<kind, live, obj, fatal>>

\* expected(unexpected<G>): what the failures of parse_body return
FromError(x, e) == Born(x, NewError(NoObject, e))

\* expected_copy_base: construct_with is noexcept.
Copy(x, y) ==
  /\ x \notin live /\ y \in live
  /\ IF obj[y].has
       THEN \/ Born(x, NewValue(NoObject, obj[y].v))
            \/ CopyThrows /\ Terminate("copy")
       ELSE Born(x, NewError(NoObject, obj[y].v))

\* expected_move_base: the source keeps its flag.
Move(x, y) ==
  /\ x \notin live /\ y \in live
  /\ \/ /\ obj[y].has
        /\ live' = live \cup {x}
        /\ obj' = [obj EXCEPT
             ![x] = [NewValue(NoObject, obj[y].v) EXCEPT !.lost = obj[x].lost],
             ![y] = SetValue(@, Moved)]
        /\ threw' = FALSE
        /\ UNCHANGED <<kind, fatal>>
     \/ obj[y].has /\ MoveThrows /\ Terminate("move")
     \/ ~obj[y].has /\ Born(x, NewError(NoObject, obj[y].v))

\* expected(const expected<U, G>&) of another type: the storage base has made
\* a T by default, and constructs over it.
Convert(x, y, v) ==
  /\ x \notin live /\ y \in live /\ obj[x].lost < MaxLost
  /\ LET base == NewValue(NoObject, v)
     IN \/ Born(x, IF obj[y].has THEN NewValue(base, v)
                   ELSE NewError(base, obj[y].v))
        \/ obj[y].has /\ CopyThrows /\ Terminate("copy")

\* ~expected_storage_base, where E is trivial
Destroy(x) ==
  /\ x \in live /\ live' = live \ {x}
  /\ obj' = [obj EXCEPT ![x] =
       LET s == IF @.has THEN DestroyValue(@) ELSE @
       IN [s EXCEPT !.at = "none", !.has = FALSE, !.v = Moved,
                    !.lost = IF s.at = "value" THEN @ + 1 ELSE @]]
  /\ threw' = FALSE
  /\ UNCHANGED <<kind, fatal>>

-----------------------------------------------------------------------------
(* Assignment                                                              *)

\* assign_common, without the case of a value over an error
AssignCommon(s, r) ==
  IF s.has
    THEN IF r.has THEN SetValue(s, r.v) ELSE NewError(DestroyValue(s), r.v)
    ELSE SetError(s, r.v)

\* operator=(const expected&).  A value over an error is copied in place, or
\* copied first and moved into place; both are noexcept, and so is the
\* construct that the third overload has in its try block.
CopyAssign(x, y) ==
  /\ {x, y} \subseteq live
  /\ LET s == obj[x]
         r == obj[y]
     IN IF ~s.has /\ r.has
          THEN \/ Finish(x, NewValue(DestroyError(s), r.v))
               \/ CopyThrows /\ Terminate("copyAssign")
          ELSE \/ Finish(x, AssignCommon(s, r))
               \/ /\ s.has /\ r.has /\ CopyThrows
                  /\ IF kind = "wild" THEN Throw(x, SetValue(s, Torn))
                     ELSE Terminate("copyOver")

\* operator=(expected&&): noexcept where moving is, and otherwise construct
\* is noexcept in the try block.
MoveAssign(x, y) ==
  /\ {x, y} \subseteq live /\ x # y
  /\ LET s == obj[x]
         r == obj[y]
         new == IF ~s.has /\ r.has THEN NewValue(DestroyError(s), r.v)
                ELSE AssignCommon(s, r)
     IN \/ /\ obj' = [obj EXCEPT ![x] = new,
                      ![y] = IF r.has THEN SetValue(@, Moved) ELSE @]
           /\ threw' = FALSE
           /\ UNCHANGED <<kind, live, fatal>>
        \/ r.has /\ ~s.has /\ MoveThrows /\ Terminate("moveAssign")
        \/ r.has /\ s.has /\ MoveThrows /\ Throw(x, SetValue(s, Torn))

\* operator=(U&&): nothing is noexcept, and the error is put back when T's
\* constructor throws.
AssignValue(x, v) ==
  /\ x \in live
  /\ LET s == obj[x]
     IN IF s.has
          THEN \/ Finish(x, SetValue(s, v))
               \/ CopyThrows /\ Throw(x, SetValue(s, Torn))
          ELSE \/ Finish(x, NewValue(DestroyError(s), v))
               \/ CopyThrows /\ Throw(x, Restored(s))

\* operator=(unexpected<G>)
AssignError(x, e) ==
  /\ x \in live
  /\ Finish(x, IF obj[x].has THEN NewError(DestroyValue(obj[x]), e)
               ELSE SetError(obj[x], e))

\* emplace: a T is made first, and moved over the one that is there.
Emplace(x, v) ==
  /\ x \in live
  /\ LET s == obj[x]
     IN IF s.has
          THEN \/ Finish(x, SetValue(s, v))
               \/ CopyThrows /\ Throw(x, s)
               \/ MoveThrows /\ Throw(x, SetValue(s, Torn))
          ELSE \/ Finish(x, NewValue(DestroyError(s), v))
               \/ CopyThrows /\ Throw(x, Restored(s))

\* swap_where_only_one_has_value: x has the value, y the error.  The flags
\* are exchanged by std::swap.
SwapDiffering(x, y) ==
  LET s == obj[x]
      r == obj[y]
      s2 == [NewError(DestroyValue(s), r.v) EXCEPT !.has = r.has]
      r2 == [NewValue(DestroyError(r), s.v) EXCEPT !.has = s.has]
  IN \/ /\ obj' = [obj EXCEPT ![x] = s2, ![y] = r2]
        /\ threw' = FALSE
        /\ UNCHANGED <<kind, live, fatal>>
     \/ /\ kind = "wild"     \* T(val()) copies
        /\ Throw(y, Restored(r))

\* swap
Swap(x, y) ==
  /\ {x, y} \subseteq live /\ x # y
  /\ CASE obj[x].has /\ obj[y].has ->
            \/ /\ obj' = [obj EXCEPT ![x] = SetValue(@, obj[y].v),
                                     ![y] = SetValue(@, obj[x].v)]
               /\ threw' = FALSE
               /\ UNCHANGED <<kind, live, fatal>>
            \/ MoveThrows /\ Throw(x, SetValue(obj[x], Torn))
       [] ~obj[x].has /\ obj[y].has -> SwapDiffering(y, x)
       [] obj[x].has /\ ~obj[y].has -> SwapDiffering(x, y)
       [] OTHER ->
            /\ obj' = [obj EXCEPT ![x] = SetError(@, obj[y].v),
                                  ![y] = SetError(@, obj[x].v)]
            /\ threw' = FALSE
            /\ UNCHANGED <<kind, live, fatal>>

\* value() throws bad_expected_access when there is none.
Value(x) ==
  /\ x \in live
  /\ IF obj[x].has THEN Finish(x, SetValue(obj[x], obj[x].v))
     ELSE Throw(x, obj[x])

-----------------------------------------------------------------------------
(* What is made of an expected: a new one, or an answer                    *)

Read(s) == [s EXCEPT !.dead = Misused(s, IF s.has THEN "value" ELSE "error")]

\* f has been given the value, from which it may have moved, or the error.
Passed(s) == {Read(s)} \cup (IF s.has THEN {SetValue(s, Moved)} ELSE {})

\* The new object z is made of y.
Derive(z, y, results) ==
  /\ live' = live \cup {z}
  /\ \E s \in Passed(obj[y]), r \in results :
       obj' = [obj EXCEPT ![y] = s, ![z] = [r EXCEPT !.lost = obj[z].lost]]
  /\ threw' = FALSE
  /\ UNCHANGED <<kind, fatal>>

\* invoke(f, ...), which may throw
Invoke(z, y, results) ==
  \/ Derive(z, y, results)
  \/ \E s \in Passed(obj[y]) : Throw(y, s)

NewValues == {NewValue(NoObject, v) : v \in Vals}
NewErrors == {NewError(NoObject, e) : e \in Errs}

\* Ret(unexpect, exp.error())
PassError(z, y) == ~obj[y].has /\ Born(z, NewError(NoObject, obj[y].v))

\* and_then: f returns an expected.
AndThen(z, y) ==
  /\ z \notin live /\ y \in live
  /\ \/ obj[y].has /\ Invoke(z, y, NewValues \cup NewErrors)
     \/ PassError(z, y)

\* map: f returns the new value.
Map(z, y) ==
  /\ z \notin live /\ y \in live
  /\ \/ obj[y].has /\ Invoke(z, y, NewValues)
     \/ PassError(z, y)

\* map_error: f returns the new error; a value is copied or moved, and not by
\* a noexcept function.
MapError(z, y) ==
  /\ z \notin live /\ y \in live
  /\ \/ ~obj[y].has /\ Invoke(z, y, NewErrors)
     \/ /\ obj[y].has
        /\ \/ FromValue(z, obj[y].v)
           \/ Derive(z, y, {NewValue(NoObject, obj[y].v)})

\* or_else: f returns an expected, or nothing and the error is passed on;
\* an expected with a value is copied or moved as a whole.
OrElse(z, y) ==
  /\ z \notin live /\ y \in live
  /\ \/ ~obj[y].has /\ Invoke(z, y, NewValues \cup NewErrors)
     \/ PassError(z, y)
     \/ obj[y].has /\ (Copy(z, y) \/ Move(z, y))

\* value_or: the value copied, or moved out of an rvalue
ValueOr(x) ==
  /\ x \in live
  /\ IF obj[x].has
       THEN \E s \in Passed(obj[x]) :
              Finish(x, s) \/ (CopyThrows /\ Throw(x, s))
       ELSE \/ Finish(x, obj[x])
            \/ CopyThrows /\ Throw(x, obj[x])

\* error(), which asserts that there is no value
Error(x) == x \in live /\ ~obj[x].has /\ Finish(x, Read(obj[x]))

\* operator==: the alternatives are compared if they are the same.
Equal(x, y) ==
  /\ {x, y} \subseteq live
  /\ obj' = IF obj[x].has # obj[y].has THEN obj
            ELSE [obj EXCEPT ![x] = Read(@), ![y] = Read(@)]
  /\ threw' = FALSE
  /\ UNCHANGED <<kind, live, fatal>>

Next ==
  /\ fatal = "none"
  /\ \E x \in Objects :
       \/ \E v \in Vals : FromValue(x, v) \/ AssignValue(x, v) \/ Emplace(x, v)
       \/ \E e \in Errs : FromError(x, e) \/ AssignError(x, e)
       \/ Destroy(x) \/ Value(x) \/ ValueOr(x) \/ Error(x)
       \/ \E y \in Objects :
            \/ Copy(x, y) \/ Move(x, y) \/ CopyAssign(x, y)
            \/ MoveAssign(x, y) \/ Swap(x, y) \/ Equal(x, y)
            \/ AndThen(x, y) \/ Map(x, y) \/ MapError(x, y) \/ OrElse(x, y)
            \/ \E v \in Vals : Convert(x, y, v)

Spec == Init /\ [][Next]_vars

-----------------------------------------------------------------------------
\* The flag tells which alternative lives, also after an operation that was
\* cut short by an exception: what the destructor and every accessor rely on.
FlagTellsAlternative ==
  \A x \in live : obj[x].at = IF obj[x].has THEN "value" ELSE "error"

\* No alternative is used or destroyed when it does not live.
UsesLiveOnly == \A x \in Objects : obj[x].dead = 0

\* Every T is destroyed, except the one that the storage base makes when an
\* expected is converted from one of another type.
OnlyConversionLoses ==
  [][\A x \in Objects :
       obj'[x].lost > obj[x].lost =>
         \E y \in Objects, v \in Vals : Convert(x, y, v)]_vars

\* An operation that throws leaves an object that held an error as it was:
\* the strong guarantee where the alternative would change.
ErrorSurvivesThrow ==
  [][threw' => \A x \in live : ~obj[x].has => obj'[x] = obj[x]]_vars

\* Where neither copying nor moving throws the program is never terminated;
\* for a message it is only while a value is copied.
TerminatesOnlyCopying ==
  /\ kind = "calm" => fatal = "none"
  /\ kind = "message" => fatal \in {"none", "copy", "copyOver", "copyAssign"}

\* Whatever is called in whatever order, and wherever it throws, an expected
\* holds what its flag says, and every T is destroyed once.
HoldsWhatItSays ==
  /\ [](TypeOK /\ FlagTellsAlternative /\ UsesLiveOnly)
  /\ []TerminatesOnlyCopying
  /\ OnlyConversionLoses
  /\ ErrorSurvivesThrow

=============================================================================

