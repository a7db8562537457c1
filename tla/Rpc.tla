--------------------------------- MODULE Rpc ---------------------------------
(***************************************************************************)
(* Remote calls over the packets (rpc_client.hpp, rpc_server.hpp,          *)
(* rpc_protocol.hpp).  A call becomes a request whose command is a hash of *)
(* the name; the other side's reader finds a handler by it, runs it under  *)
(* the mutex of its registry and sends what it returned; the caller's      *)
(* callback gets what parse_body makes of the response, or of its absence. *)
(* Clients call the server and the server calls clients in the same way,   *)
(* except that the server looks a connection up first and may not find it. *)
(* A request goes through the queue of its connection and the hand of the  *)
(* writing thread into the ring.  What else may happen to it there is in   *)
(* Requests, how a connection is removed in ServerRegistry.                *)
(***************************************************************************)
EXTENDS Integers, Sequences, FiniteSets

CONSTANTS
  Conns,      \* the clients, one connection each
  Names,      \* names of remote procedures
  Hash,       \* rpc_id: Names to command numbers
  Calls,      \* the calls that are made
  Caller,     \* Caller[c]: "server", or the client that makes call c
  ConnOf,     \* ConnOf[c]: the connection it is made on
  NameOf,     \* NameOf[c]: the procedure it calls
  Offers,     \* Offers[s]: the procedures side s registers handlers for
  Codes,      \* error codes that handlers return
  None

Message == -1      \* a value: a message and no error code
ErrNetwork == 1
ErrDeserialize == 3

ASSUME HashAssumption == DOMAIN Hash = Names
ASSUME CallsAssumption ==
  \A c \in Calls : /\ ConnOf[c] \in Conns
                   /\ Caller[c] \in {"server", ConnOf[c]}
                   /\ NameOf[c] \in Names
ASSUME OffersAssumption ==
  Offers \in [Conns \cup {"server"} -> SUBSET Names]
ASSUME CodesAssumption == Codes \subseteq Nat

VARIABLES
  handlers,   \* req_processors of each side, by command
  mutex,      \* the call whose handler holds req_processors_mutex of a side
  open,       \* the connections the server has
  removing,   \* the connection that the server waits to remove
  place,      \* where the request of each call is
  responses,  \* responses sent and not arrived: [call, ec, ok] records
  state,      \* what the caller knows of each call
  result,     \* what its callback was given
  ran,        \* the handlers run for it
  returned,   \* what the handler returned
  gone        \* names whose unregister_handler has returned, by side

vars == <<handlers, mutex, open, removing, place, responses, state, result,
          ran, returned, gone>>

Sides == Conns \cup {"server"}
Ids == {Hash[n] : n \in Names}

\* Where the handler of a call runs.
Callee(c) == IF Caller[c] = "server" THEN ConnOf[c] ELSE "server"

\* The connection a side needs to send or receive: clients always have one.
Reachable(side, c) == side = "server" => ConnOf[c] \in open

\* The server's send_packet waits while connections_mutex is held to remove a
\* connection; clients have no such mutex.
MayLookUp(side) == side = "server" => removing = None

Values == {Message} \cup Codes
Outcomes == {Message, ErrNetwork, ErrDeserialize} \cup Codes

ASSUME NoneAssumption ==
  None \notin Calls /\ None \notin Values /\ None \notin Conns

TypeOK ==
  /\ handlers \in [Sides -> [Ids -> Names \cup {None}]]
  /\ mutex \in [Sides -> Calls \cup {None}]
  /\ open \subseteq Conns
  /\ removing \in Conns \cup {None}
  /\ place \in [Calls -> {"new", "queue", "hand", "sent", "gone"}]
  /\ responses \subseteq [call : Calls, ec : Codes \cup {0}, ok : BOOLEAN]
  /\ state \in [Calls -> {"idle", "waiting", "ended", "cancelled",
                          "refused", "dropped"}]
  /\ result \in [Calls -> Outcomes \cup {None}]
  /\ ran \in [Calls -> Seq(Names)]
  /\ returned \in [Calls -> Values \cup {None}]
  /\ gone \in [Sides -> SUBSET Names]

Init ==
  /\ handlers = [s \in Sides |-> [i \in Ids |-> None]]
  /\ mutex = [s \in Sides |-> None]
  /\ open = Conns
  /\ removing = None
  /\ place = [c \in Calls |-> "new"]
  /\ responses = {}
  /\ state = [c \in Calls |-> "idle"]
  /\ result = [c \in Calls |-> None]
  /\ ran = [c \in Calls |-> <<>>]
  /\ returned = [c \in Calls |-> None]
  /\ gone = [s \in Sides |-> {}]

-----------------------------------------------------------------------------
\* register_handler: under the mutex, over a handler of the same hash.
Register(s, n) ==
  /\ mutex[s] = None
  /\ handlers' = [handlers EXCEPT ![s][Hash[n]] = n]
  /\ gone' = [gone EXCEPT ![s] = @ \ {n}]
  /\ UNCHANGED <<mutex, open, removing, place, responses, state, result, ran,
                 returned>>

\* Faulty: the registry is changed while a handler runs.
UnregisterUnlocked(s, n) ==
  /\ handlers' = [handlers EXCEPT ![s][Hash[n]] = None]
  /\ gone' = [gone EXCEPT ![s] = @ \cup {n}]
  /\ UNCHANGED <<mutex, open, removing, place, responses, state, result, ran,
                 returned>>

\* unregister_handler: whatever handler has the hash of the name goes.
Unregister(s, n) ==
  /\ mutex[s] = None
  /\ handlers' = [handlers EXCEPT ![s][Hash[n]] = None]
  /\ gone' = [gone EXCEPT ![s] = @ \cup {n}]
  /\ UNCHANGED <<mutex, open, removing, place, responses, state, result, ran,
                 returned>>

\* call: a server without that connection returns 0 and forgets the callback.
Call(c) ==
  /\ state[c] = "idle" /\ MayLookUp(Caller[c])
  /\ IF Reachable(Caller[c], c)
       THEN /\ state' = [state EXCEPT ![c] = "waiting"]
            /\ place' = [place EXCEPT ![c] = "queue"]
       ELSE /\ state' = [state EXCEPT ![c] = "refused"]
            /\ place' = [place EXCEPT ![c] = "gone"]
  /\ UNCHANGED <<handlers, mutex, open, removing, responses, result, ran,
                 returned, gone>>

\* write_proc takes the request from the queue, one at a time.
Pop(c) ==
  /\ place[c] = "queue"
  /\ \A d \in Calls : Caller[d] = Caller[c] /\ ConnOf[d] = ConnOf[c] =>
                       place[d] # "hand"
  /\ place' = [place EXCEPT ![c] = "hand"]
  /\ UNCHANGED <<handlers, mutex, open, removing, responses, state, result,
                 ran, returned, gone>>

\* It has the peer's mutex and room: it registers the request and commits.
Commit(c) ==
  /\ place[c] = "hand"
  /\ place' = [place EXCEPT ![c] = "sent"]
  /\ UNCHANGED <<handlers, mutex, open, removing, responses, state, result,
                 ran, returned, gone>>

\* It leaves its loop, and the request with its callback is destroyed.
Lose(c) ==
  /\ place[c] = "hand"
  /\ place' = [place EXCEPT ![c] = "gone"]
  /\ state' = [state EXCEPT ![c] = "dropped"]
  /\ UNCHANGED <<handlers, mutex, open, removing, responses, result, ran,
                 returned, gone>>

\* Nobody is registered, or parse_body fails on the request: no response.
Ignore(c) ==
  /\ place[c] = "sent" /\ Reachable(Callee(c), c)
  /\ mutex[Callee(c)] = None
  /\ place' = [place EXCEPT ![c] = "gone"]
  /\ UNCHANGED <<handlers, mutex, open, removing, responses, state, result,
                 ran, returned, gone>>

\* on_receive_req: the handler found is run with the mutex held.
Enter(c) ==
  LET s == Callee(c)
      n == handlers[s][Hash[NameOf[c]]]
  IN /\ place[c] = "sent" /\ Reachable(s, c)
     /\ mutex[s] = None
     /\ n # None
     /\ mutex' = [mutex EXCEPT ![s] = c]
     /\ ran' = [ran EXCEPT ![c] = Append(@, n)]
     /\ place' = [place EXCEPT ![c] = "gone"]
     /\ UNCHANGED <<handlers, open, removing, responses, state, result,
                    returned, gone>>

\* build_response_packet: an error has its code and no body, which parses.
Response(c, v, ok) ==
  IF v = Message THEN [call |-> c, ec |-> 0, ok |-> ok]
  ELSE [call |-> c, ec |-> v, ok |-> TRUE]

\* The handler returns and its result is given to send_packet, whose answer
\* is not looked at, before the mutex is.  A message of the type of another
\* procedure may parse at the caller, or not.
Return(c, v, ok) ==
  LET s == Callee(c)
  IN /\ mutex[s] = c /\ MayLookUp(s)
     /\ ran[c] = <<NameOf[c]>> => ok
     /\ mutex' = [mutex EXCEPT ![s] = None]
     /\ returned' = [returned EXCEPT ![c] = v]
     /\ responses' = IF Reachable(s, c) THEN responses \cup {Response(c, v, ok)}
                     ELSE responses
     /\ UNCHANGED <<handlers, open, removing, place, state, result, ran, gone>>

\* Faulty: the error code of the response is not looked at.
ParseBodyOnly(r) == IF r.ok THEN Message ELSE ErrDeserialize

\* parse_body; an empty body parses as a message with no field set.
ParseBody(r) ==
  IF r.ec # 0 THEN r.ec ELSE IF r.ok THEN Message ELSE ErrDeserialize

\* The callback runs if the request still waits.
Respond(r) ==
  /\ Reachable(Caller[r.call], r.call)
  /\ responses' = responses \ {r}
  /\ IF state[r.call] = "waiting"
       THEN /\ state' = [state EXCEPT ![r.call] = "ended"]
            /\ result' = [result EXCEPT ![r.call] = ParseBody(r)]
       ELSE UNCHANGED <<state, result>>
  /\ UNCHANGED <<handlers, mutex, open, removing, place, ran, returned, gone>>

\* The request is erased from the queue, or is no longer registered.
Erase(c) ==
  place' = IF place[c] = "queue" THEN [place EXCEPT ![c] = "gone"] ELSE place

\* Faulty: only a request that is registered is given up.
TimeOutSent(c) ==
  /\ state[c] = "waiting" /\ Reachable(Caller[c], c)
  /\ place[c] \notin {"queue", "hand"}
  /\ state' = [state EXCEPT ![c] = "ended"]
  /\ result' = [result EXCEPT ![c] = ErrNetwork]
  /\ Erase(c)
  /\ UNCHANGED <<handlers, mutex, open, removing, responses, ran, returned,
                 gone>>

\* After 5 s the callback gets a null packet, which parse_body turns into a
\* network error, wherever request, handler or response are; but what the
\* writer has in its hand is neither on the queue nor registered.
TimeOut(c) ==
  /\ state[c] = "waiting" /\ Reachable(Caller[c], c)
  /\ place[c] # "hand"
  /\ state' = [state EXCEPT ![c] = "ended"]
  /\ result' = [result EXCEPT ![c] = ErrNetwork]
  /\ Erase(c)
  /\ UNCHANGED <<handlers, mutex, open, removing, responses, ran, returned,
                 gone>>

\* cancel_call, where it finds the request: see Requests for the writer's hand.
CancelCall(c) ==
  /\ state[c] = "waiting" /\ Reachable(Caller[c], c) /\ MayLookUp(Caller[c])
  /\ place[c] # "hand"
  /\ state' = [state EXCEPT ![c] = "cancelled"]
  /\ Erase(c)
  /\ UNCHANGED <<handlers, mutex, open, removing, responses, result, ran,
                 returned, gone>>

\* on_disconnected takes connections_mutex for its own and begins to join.
Remove(k) ==
  /\ k \in open /\ removing = None
  /\ removing' = k
  /\ UNCHANGED <<handlers, mutex, open, place, responses, state, result, ran,
                 returned, gone>>

\* Its reader is not in a handler and its writer has nothing in its hand: the
\* connection goes.  The callbacks that wait on it are destroyed and never run.
Disconnect(k) ==
  LET mine(c) == Caller[c] = "server" /\ ConnOf[c] = k
  IN /\ removing = k
     /\ mutex["server"] # None => ConnOf[mutex["server"]] # k
     /\ \A c \in Calls : mine(c) => place[c] # "hand"
     /\ open' = open \ {k}
     /\ removing' = None
     /\ state' = [c \in Calls |->
          IF mine(c) /\ state[c] = "waiting" THEN "dropped" ELSE state[c]]
     /\ place' = [c \in Calls |->
          IF mine(c) /\ place[c] = "queue" THEN "gone" ELSE place[c]]
     /\ UNCHANGED <<handlers, mutex, responses, result, ran, returned, gone>>

Registering ==
  \E s \in Sides : \E n \in Offers[s] : Register(s, n) \/ Unregister(s, n)

Calling == \E c \in Calls : Call(c) \/ TimeOut(c) \/ CancelCall(c)

Writing == \E c \in Calls : Pop(c) \/ Commit(c) \/ Lose(c)

Handling ==
  \E c \in Calls :
    \/ Ignore(c)
    \/ Enter(c)
    \/ \E v \in Values, ok \in BOOLEAN : Return(c, v, ok)

Next ==
  \/ Registering
  \/ Calling
  \/ Writing
  \/ Handling
  \/ \E r \in responses : Respond(r)
  \/ \E k \in Conns : Remove(k) \/ Disconnect(k)

\* The timer looks at the waiting requests every second, but on the server it
\* may be the thread that removes a connection.  Callbacks return; nothing is
\* assumed of handlers, of the writers, of the peer or of the connection.
Fairness ==
  \A c \in Calls : WF_vars(MayLookUp(Caller[c]) /\ TimeOut(c))

Spec == Init /\ [][Next]_vars /\ Fairness

-----------------------------------------------------------------------------
\* What a callback is given is what a handler returned for this very call,
\* except that a network error may hide a handler that ran, and that an
\* error with code 0 arrives as an empty value (build_response_packet and
\* parse_body agree on 0 as "no error").
ResultIsGenuine ==
  \A c \in Calls :
    /\ result[c] = Message =>
         \/ /\ returned[c] = Message
            /\ \A n \in Names \ {NameOf[c]} :
                 Hash[n] # Hash[NameOf[c]] => ran[c] # <<n>>
         \/ returned[c] = 0
    /\ result[c] \in Codes \ {ErrNetwork, ErrDeserialize} =>
         returned[c] = result[c]

\* A handler runs at most once for a call, and none of another hash: no
\* request is sent again when a response is late, lost or refused.
RunsAtMostOnce ==
  \A c \in Calls :
    /\ Len(ran[c]) <= 1
    /\ \A i \in DOMAIN ran[c] : Hash[ran[c][i]] = Hash[NameOf[c]]

\* When unregister_handler has returned, its handler is not running and will
\* not run, on any connection (on_receive_req keeps the mutex meanwhile).
UnregisteredIsQuiet ==
  \A s \in Sides :
    mutex[s] # None => ran[mutex[s]][Len(ran[mutex[s]])] \notin gone[s]

\* Where the timeout does not reach a call: its request is in the hand of a
\* writer, who may wait behind a reader that is in a handler; or the server's
\* timer may be the thread that removes a connection, who may wait for one too.
OutOfReach(c) ==
  place[c] = "hand" \/ (Caller[c] = "server" /\ removing # None)

\* Every call comes to an end although handlers may never return: its
\* callback runs or it is cancelled, or it is destroyed with the server's
\* connection or by a writer that ends with it; or it stays out of reach of
\* the timeout for ever.
CallsEnd ==
  \A c \in Calls :
    (state[c] = "waiting") ~> (state[c] # "waiting" \/ []OutOfReach(c))

\* A handler runs as often as it was asked for and as long as it is there.
HandlersRunAsAsked == RunsAtMostOnce /\ UnregisteredIsQuiet

=============================================================================
