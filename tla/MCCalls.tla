------------------------------- MODULE MCCalls -------------------------------
(***************************************************************************)
(* Remote calls twice (Rpc), and the type that carries their results       *)
(* (Expected).  In the first instance, whose names are used as they are,   *)
(* two clients call the server; in the second, Back, a client and the      *)
(* server call each other.  A behaviour is one of one of the three, chosen *)
(* by part; the others rest.                                               *)
(***************************************************************************)
EXTENDS Rpc

\* Two names with one hash, and two clients that call the server by them.
MCNames == {"add", "mul"}
MCHash == [n \in MCNames |-> 10]
MCCalls == {"a1", "a2"}
MCCaller == [a1 |-> "k1", a2 |-> "k2"]
MCConnOf == [a1 |-> "k1", a2 |-> "k2"]
MCNameOf == [a1 |-> "add", a2 |-> "mul"]
MCOffers == [server |-> MCNames, k1 |-> {}, k2 |-> {}]

\* A client and the server call each other, the server twice.  Error 0, which
\* arrives as an empty value, is left to the first instance.
BackCalls == {"a1", "s1", "s2"}
BackCaller == [a1 |-> "k1", s1 |-> "server", s2 |-> "server"]
BackConnOf == [c \in BackCalls |-> "k1"]
BackNameOf == [c \in BackCalls |-> "add"]
BackOffers == [server |-> {"add"}, k1 |-> {"add"}]
BackCodes == Codes \ {0}

CONSTANTS Objects, Vals, Errs, Moved, Torn, MaxLost   \* of Expected

VARIABLES
  part,
  b_handlers, b_mutex, b_open, b_removing, b_place, b_responses, b_state,
  b_result, b_ran, b_returned, b_gone,
  e_kind, e_live, e_obj, e_threw, e_fatal

Back == INSTANCE Rpc WITH
  Conns <- {"k1"}, Calls <- BackCalls, Caller <- BackCaller,
  ConnOf <- BackConnOf, NameOf <- BackNameOf, Offers <- BackOffers,
  Codes <- BackCodes,
  handlers <- b_handlers, mutex <- b_mutex, open <- b_open,
  removing <- b_removing, place <- b_place, responses <- b_responses,
  state <- b_state, result <- b_result, ran <- b_ran,
  returned <- b_returned, gone <- b_gone

Carrying == INSTANCE Expected WITH
  kind <- e_kind, live <- e_live, obj <- e_obj, threw <- e_threw,
  fatal <- e_fatal

ASSUME BackAssumption ==
  "add" \in Names /\ None \notin BackCalls /\ None # "k1"

ASSUME CarryingAssumption == Carrying!ConstantsOK

backVars ==
  <<b_handlers, b_mutex, b_open, b_removing, b_place, b_responses, b_state,
    b_result, b_ran, b_returned, b_gone>>
carryingVars == <<e_kind, e_live, e_obj, e_threw, e_fatal>>
allVars == <<part, vars, backVars, carryingVars>>

CallsInit ==
  /\ part \in {"forth", "back", "results"}
  /\ Init /\ Back!Init /\ Carrying!Init
  /\ part = "results" \/ e_kind = "calm"

CallsNext ==
  \/ part = "forth" /\ Next /\ UNCHANGED <<part, backVars, carryingVars>>
  \/ part = "back" /\ Back!Next /\ UNCHANGED <<part, vars, carryingVars>>
  \/ part = "results" /\ Carrying!Next /\ UNCHANGED <<part, vars, backVars>>

\* The fairness of the part that is active; Expected needs none.
CallsFairness ==
  \/ part = "forth" /\ Fairness
  \/ part = "back" /\ Back!Fairness
  \/ part = "results"

CallsSpec == CallsInit /\ [][CallsNext]_allVars /\ CallsFairness

-----------------------------------------------------------------------------
(* Properties of both instances of Rpc, and of Expected                    *)

\* Calls to the server and calls in both directions: a result is what the
\* handler returned for this call, or says that it is not known.
ResultsAreGenuine == ResultIsGenuine /\ Back!ResultIsGenuine

\* Calls to the server and calls in both directions: each one ends, also on
\* a connection that goes.
AllCallsEnd == CallsEnd /\ Back!CallsEnd

\* expected.hpp: the flag tells which alternative lives, after exceptions
\* too, and every T is destroyed once, but for converting constructions.
HoldsWhatItSays == Carrying!HoldsWhatItSays

=============================================================================
