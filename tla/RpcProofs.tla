----------------------------- MODULE RpcProofs -----------------------------
(***************************************************************************)
(* Proofs about Rpc for any number of clients, names, hashes and calls: a  *)
(* handler runs at most once for a call and never once it is unregistered, *)
(* and a result is what a handler returned for that very call.             *)
(***************************************************************************)
EXTENDS Rpc, TLAPS

\* An entry is under its own hash, and its name is not unregistered.
EntriesAreCurrent ==
  \A s \in Sides, i \in Ids :
    handlers[s][i] # None =>
      /\ Hash[handlers[s][i]] = i
      /\ handlers[s][i] \notin gone[s]

\* A request that is still to be looked at has run nothing.
FreshHasNotRun == \A c \in Calls : place[c] # "gone" => ran[c] = <<>>

\* A call that is not made has no request.
IdleIsNew == \A c \in Calls : state[c] = "idle" => place[c] = "new"

\* Whoever holds the mutex of a side has run one handler there.
HolderHasRun ==
  \A s \in Sides : mutex[s] # None =>
    /\ Len(ran[mutex[s]]) = 1
    /\ ran[mutex[s]][1] \notin gone[s]

RpcInv ==
  /\ TypeOK
  /\ EntriesAreCurrent
  /\ FreshHasNotRun
  /\ IdleIsNew
  /\ HolderHasRun
  /\ RunsAtMostOnce

-----------------------------------------------------------------------------
\* A handler runs on one of the sides.
LEMMA CalleeIsSide == ASSUME NEW c \in Calls PROVE Callee(c) \in Sides
  BY CallsAssumption DEF Callee, Sides

LEMMA InitRpc == Init => RpcInv
  <1> SUFFICES ASSUME Init PROVE RpcInv
    OBVIOUS
  <1>1. TypeOK
    BY DEF Init, TypeOK
  <1>2. EntriesAreCurrent
    BY DEF Init, EntriesAreCurrent
  <1>3. FreshHasNotRun /\ IdleIsNew /\ HolderHasRun /\ RunsAtMostOnce
    BY DEF Init, FreshHasNotRun, IdleIsNew, HolderHasRun, RunsAtMostOnce
  <1> QED  BY <1>1, <1>2, <1>3 DEF RpcInv

\* A step that runs nothing keeps the invariant if the registry of a side
\* changes only while no handler runs there.
LEMMA RegistryStep ==
  ASSUME RpcInv, NEW s \in Sides, NEW n \in Offers[s],
         Register(s, n) \/ Unregister(s, n)
  PROVE  RpcInv'
  <1>1. n \in Names /\ Hash[n] \in Ids
    BY OffersAssumption DEF Sides, Ids
  <1>2. TypeOK'
    <2>1. ASSUME NEW e \in Names \cup {None},
                 handlers' = [handlers EXCEPT ![s][Hash[n]] = e]
          PROVE  handlers' \in [Sides -> [Ids -> Names \cup {None}]]
      BY <1>1, <2>1 DEF RpcInv, TypeOK
    <2>2. handlers' \in [Sides -> [Ids -> Names \cup {None}]]
      BY <1>1, <2>1 DEF Register, Unregister
    <2>3. gone' \in [Sides -> SUBSET Names]
      <3>1. gone[s] \ {n} \in SUBSET Names /\ gone[s] \cup {n} \in SUBSET Names
        BY <1>1 DEF RpcInv, TypeOK
      <3>2. \/ gone' = [gone EXCEPT ![s] = gone[s] \ {n}]
            \/ gone' = [gone EXCEPT ![s] = gone[s] \cup {n}]
        BY DEF Register, Unregister
      <3> QED  BY <3>1, <3>2 DEF RpcInv, TypeOK
    <2> QED  BY <2>2, <2>3 DEF Register, Unregister, RpcInv, TypeOK
  <1>3. EntriesAreCurrent'
    <2> SUFFICES ASSUME NEW t \in Sides, NEW i \in Ids,
                        handlers'[t][i] # None
                 PROVE  /\ Hash[handlers'[t][i]] = i
                        /\ handlers'[t][i] \notin gone'[t]
      BY DEF EntriesAreCurrent
    <2>1. handlers[t] \in [Ids -> Names \cup {None}] /\ gone[t] \subseteq Names
      BY DEF RpcInv, TypeOK
    <2>2. CASE t = s /\ i = Hash[n]
      BY <1>1, <2>1, <2>2 DEF Register, Unregister, RpcInv, TypeOK
    <2>3. CASE t # s
      BY <1>1, <2>1, <2>3
      DEF Register, Unregister, RpcInv, TypeOK, EntriesAreCurrent
    <2>4. CASE t = s /\ i # Hash[n]
      <3>1. handlers'[t][i] = handlers[t][i]
        BY <1>1, <2>1, <2>4 DEF Register, Unregister, RpcInv, TypeOK
      <3>2. Hash[handlers[t][i]] = i /\ handlers[t][i] \notin gone[t]
        BY <3>1 DEF RpcInv, EntriesAreCurrent
      <3>3. gone'[t] \subseteq gone[t] \cup {n}
        BY <2>4 DEF Register, Unregister, RpcInv, TypeOK
      <3> QED  BY <2>4, <3>1, <3>2, <3>3
    <2> QED  BY <2>2, <2>3, <2>4
  <1>4. HolderHasRun'
    <2>1. mutex[s] = None /\ mutex' = mutex /\ ran' = ran
      BY DEF Register, Unregister
    <2>2. \A t \in Sides \ {s} : gone'[t] = gone[t]
      BY DEF Register, Unregister, RpcInv, TypeOK
    <2> QED  BY <2>1, <2>2 DEF RpcInv, HolderHasRun
  <1>5. (FreshHasNotRun /\ IdleIsNew /\ RunsAtMostOnce)'
    BY DEF Register, Unregister, RpcInv, FreshHasNotRun, IdleIsNew,
      RunsAtMostOnce
  <1> QED  BY <1>2, <1>3, <1>4, <1>5 DEF RpcInv

\* A handler that is found runs for a call that has run none.
LEMMA EnterStep ==
  ASSUME RpcInv, NEW c \in Calls, Enter(c)
  PROVE  RpcInv'
  <1> DEFINE s == Callee(c)
             n == handlers[s][Hash[NameOf[c]]]
  <1>1. /\ s \in Sides /\ NameOf[c] \in Names /\ Hash[NameOf[c]] \in Ids
        /\ place[c] = "sent" /\ mutex[s] = None /\ n # None
        /\ mutex' = [mutex EXCEPT ![s] = c]
        /\ ran' = [ran EXCEPT ![c] = Append(@, n)]
        /\ place' = [place EXCEPT ![c] = "gone"]
        /\ UNCHANGED <<handlers, open, removing, responses, state, result,
                       returned, gone>>
    BY CalleeIsSide, CallsAssumption DEF Enter, Ids
  <1> HIDE DEF s
  <1>2. n \in Names /\ Hash[n] = Hash[NameOf[c]] /\ n \notin gone[s]
    BY <1>1 DEF RpcInv, TypeOK, EntriesAreCurrent
  <1>3. ran[c] = <<>> /\ state[c] # "idle"
    BY <1>1 DEF RpcInv, FreshHasNotRun, IdleIsNew
  <1> HIDE DEF n
  <1>4. ran'[c] = <<n>> /\ \A d \in Calls \ {c} : ran'[d] = ran[d]
    BY <1>1, <1>3 DEF RpcInv, TypeOK
  <1>5. TypeOK'
    <2>1. ran' \in [Calls -> Seq(Names)]
      BY <1>1, <1>2, <1>4 DEF RpcInv, TypeOK
    <2> QED  BY <1>1, <2>1 DEF RpcInv, TypeOK
  <1>6. (EntriesAreCurrent /\ FreshHasNotRun /\ IdleIsNew)'
    <2>1. EntriesAreCurrent'
      BY <1>1 DEF RpcInv, EntriesAreCurrent
    <2>2. place'[c] = "gone" /\ \A d \in Calls \ {c} : place'[d] = place[d]
      BY <1>1 DEF RpcInv, TypeOK
    <2>3. FreshHasNotRun'
      BY <1>4, <2>2 DEF RpcInv, FreshHasNotRun
    <2>4. IdleIsNew'
      BY <1>1, <1>3, <2>2 DEF RpcInv, IdleIsNew
    <2> QED  BY <2>1, <2>3, <2>4
  <1>7. HolderHasRun'
    <2> SUFFICES ASSUME NEW t \in Sides, mutex'[t] # None
                 PROVE  /\ Len(ran'[mutex'[t]]) = 1
                        /\ ran'[mutex'[t]][1] \notin gone'[t]
      BY DEF HolderHasRun
    <2>1. CASE t = s
      <3>1. mutex'[t] = c
        BY <1>1, <2>1 DEF RpcInv, TypeOK
      <3>2. Len(ran'[c]) = 1 /\ ran'[c][1] = n
        BY <1>4
      <3>3. gone'[t] = gone[s]
        BY <1>1, <2>1
      <3> QED  BY <1>2, <3>1, <3>2, <3>3
    <2>2. CASE t # s
      <3>1. mutex'[t] = mutex[t] /\ mutex[t] \in Calls
        BY <1>1, <2>2 DEF RpcInv, TypeOK
      <3>2. Len(ran[mutex[t]]) = 1 /\ ran[mutex[t]][1] \notin gone[t]
        BY <3>1 DEF RpcInv, HolderHasRun
      <3>3. mutex[t] # c
        BY <1>3, <3>2
      <3> QED  BY <1>1, <1>4, <3>1, <3>2, <3>3
    <2> QED  BY <2>1, <2>2
  <1>8. RunsAtMostOnce'
    <2> SUFFICES ASSUME NEW d \in Calls
                 PROVE  /\ Len(ran'[d]) <= 1
                        /\ \A i \in DOMAIN ran'[d] :
                             Hash[ran'[d][i]] = Hash[NameOf[d]]
      BY DEF RunsAtMostOnce
    <2>1. CASE d = c
      <3>1. Len(ran'[d]) = 1 /\ DOMAIN ran'[d] = {1} /\ ran'[d][1] = n
        BY <1>4, <2>1
      <3> QED  BY <1>2, <2>1, <3>1
    <2>2. CASE d # c
      BY <1>4, <2>2 DEF RpcInv, RunsAtMostOnce
    <2> QED  BY <2>1, <2>2
  <1> QED  BY <1>5, <1>6, <1>7, <1>8 DEF RpcInv

\* The handler returns and its mutex is given back.
LEMMA ReturnStep ==
  ASSUME RpcInv, NEW c \in Calls, NEW v \in Values, NEW ok \in BOOLEAN,
         Return(c, v, ok)
  PROVE  RpcInv'
  <1>1. Callee(c) \in Sides
    BY CalleeIsSide
  <1>2. Response(c, v, ok) \in [call : Calls, ec : Codes \cup {0}, ok : BOOLEAN]
    BY DEF Response, Values, Message
  <1>3. TypeOK'
    BY <1>1, <1>2 DEF Return, RpcInv, TypeOK
  <1>4. HolderHasRun'
    BY <1>1 DEF Return, RpcInv, TypeOK, HolderHasRun
  <1>5. (EntriesAreCurrent /\ FreshHasNotRun /\ IdleIsNew
           /\ RunsAtMostOnce)'
    BY DEF Return, RpcInv, EntriesAreCurrent, FreshHasNotRun, IdleIsNew,
      RunsAtMostOnce
  <1> QED  BY <1>3, <1>4, <1>5 DEF RpcInv

\* A request never comes back from where it is gone, and no call is new twice.
Onwards ==
  /\ \A c \in Calls : place[c] = "gone" => place'[c] = "gone"
  /\ \A c \in Calls : state'[c] = "idle" =>
                         state[c] = "idle" /\ place'[c] = place[c]

\* So do the steps of the caller and of a connection.
LEMMA CallerOnwards ==
  ASSUME RpcInv,
         \/ \E c \in Calls : Call(c) \/ TimeOut(c) \/ CancelCall(c) \/ Ignore(c)
         \/ \E c \in Calls : Pop(c) \/ Commit(c) \/ Lose(c)
         \/ \E r \in responses : Respond(r)
         \/ \E k \in Conns : Remove(k) \/ Disconnect(k)
  PROVE  Onwards
  <1>1. ASSUME NEW c \in Calls,
               \/ Call(c) \/ TimeOut(c) \/ CancelCall(c) \/ Ignore(c)
               \/ Pop(c) \/ Commit(c) \/ Lose(c)
        PROVE  Onwards
    <2>1. place[c] = "gone" => place'[c] = "gone"
      BY <1>1 DEF Call, TimeOut, CancelCall, Ignore, Erase, Pop, Commit, Lose,
        RpcInv, IdleIsNew
    <2>2. state'[c] = "idle" => state[c] = "idle" /\ place'[c] = place[c]
      BY <1>1 DEF Call, TimeOut, CancelCall, Ignore, Erase, Pop, Commit, Lose,
        RpcInv, TypeOK, IdleIsNew
    <2>3. ASSUME NEW d \in Calls \ {c}
          PROVE  place'[d] = place[d] /\ state'[d] = state[d]
      BY <1>1 DEF Call, TimeOut, CancelCall, Ignore, Erase, Pop, Commit, Lose,
        RpcInv, TypeOK
    <2> QED  BY <2>1, <2>2, <2>3 DEF Onwards
  <1>2. ASSUME NEW r \in responses, Respond(r) PROVE Onwards
    BY <1>2 DEF Respond, Onwards, RpcInv, TypeOK
  <1>3. ASSUME NEW k \in Conns, Remove(k) \/ Disconnect(k) PROVE Onwards
    BY <1>3 DEF Remove, Disconnect, Onwards, RpcInv, TypeOK, IdleIsNew
  <1> QED  BY <1>1, <1>2, <1>3

\* What happens to a call at its caller, and to a connection, runs nothing.
LEMMA CallerStep ==
  ASSUME RpcInv,
         \/ \E c \in Calls : Call(c) \/ TimeOut(c) \/ CancelCall(c) \/ Ignore(c)
         \/ \E c \in Calls : Pop(c) \/ Commit(c) \/ Lose(c)
         \/ \E r \in responses : Respond(r)
         \/ \E k \in Conns : Remove(k) \/ Disconnect(k)
  PROVE  RpcInv'
  <1>1. TypeOK'
    <2>1. ASSUME NEW c \in Calls,
                 Call(c) \/ TimeOut(c) \/ CancelCall(c) \/ Ignore(c)
          PROVE  TypeOK'
      BY <2>1
      DEF Call, TimeOut, CancelCall, Ignore, Erase, RpcInv, TypeOK, Outcomes
    <2>2. ASSUME NEW c \in Calls, Pop(c) \/ Commit(c) \/ Lose(c) PROVE TypeOK'
      BY <2>2 DEF Pop, Commit, Lose, RpcInv, TypeOK
    <2>3. ASSUME NEW r \in responses, Respond(r) PROVE TypeOK'
      <3>1. r.call \in Calls /\ ParseBody(r) \in Outcomes
        BY DEF RpcInv, TypeOK, ParseBody, Outcomes
      <3>2. CASE state[r.call] = "waiting"
        <4>1. /\ state' = [state EXCEPT ![r.call] = "ended"]
              /\ result' = [result EXCEPT ![r.call] = ParseBody(r)]
              /\ responses' = responses \ {r}
              /\ UNCHANGED <<handlers, mutex, open, removing, place, ran,
                             returned, gone>>
          BY <2>3, <3>2 DEF Respond
        <4>2. result' \in [Calls -> Outcomes \cup {None}]
          BY <3>1, <4>1 DEF RpcInv, TypeOK
        <4> QED  BY <3>1, <4>1, <4>2 DEF RpcInv, TypeOK
      <3>3. CASE state[r.call] # "waiting"
        BY <2>3, <3>3 DEF Respond, RpcInv, TypeOK
      <3> QED  BY <3>2, <3>3
    <2>4. ASSUME NEW k \in Conns, Remove(k) \/ Disconnect(k) PROVE TypeOK'
      BY <2>4 DEF Remove, Disconnect, RpcInv, TypeOK
    <2> QED  BY <2>1, <2>2, <2>3, <2>4
  <1>2. UNCHANGED <<handlers, mutex, ran, gone>> /\ Onwards
    BY CallerOnwards
    DEF Call, TimeOut, CancelCall, Ignore, Pop, Commit, Lose, Respond, Remove,
        Disconnect
  <1>3. IdleIsNew'
    BY <1>2 DEF RpcInv, IdleIsNew, Onwards
  <1>4. FreshHasNotRun'
    BY <1>2 DEF RpcInv, FreshHasNotRun, Onwards
  <1>5. (EntriesAreCurrent /\ HolderHasRun /\ RunsAtMostOnce)'
    BY <1>2 DEF RpcInv, EntriesAreCurrent, HolderHasRun, RunsAtMostOnce
  <1> QED  BY <1>1, <1>3, <1>4, <1>5 DEF RpcInv

LEMMA NextRpc == RpcInv /\ [Next]_vars => RpcInv'
  <1> SUFFICES ASSUME RpcInv, [Next]_vars PROVE RpcInv'
    OBVIOUS
  <1>1. CASE Registering
    BY <1>1, RegistryStep DEF Registering
  <1>2. CASE Calling
    BY <1>2, CallerStep DEF Calling
  <1>3. CASE Handling
    BY <1>3, CallerStep, EnterStep, ReturnStep DEF Handling
  <1>4. CASE \/ Writing
             \/ \E r \in responses : Respond(r)
             \/ \E k \in Conns : Remove(k) \/ Disconnect(k)
    BY <1>4, CallerStep DEF Writing
  <1>5. CASE UNCHANGED vars
    BY <1>5 DEF vars, RpcInv, TypeOK, EntriesAreCurrent, FreshHasNotRun,
      IdleIsNew, HolderHasRun, RunsAtMostOnce
  <1> QED  BY <1>1, <1>2, <1>3, <1>4, <1>5 DEF Next

LEMMA AlwaysRpc == Spec => []RpcInv
  BY InitRpc, NextRpc, PTL DEF Spec

-----------------------------------------------------------------------------
\* The types of registry, mutexes, requests, responses and results.
THEOREM RpcTypes == Spec => []TypeOK
  <1>1. RpcInv => TypeOK
    BY DEF RpcInv
  <1> QED  BY AlwaysRpc, <1>1, PTL

\* For any clients, names and hashes: no handler runs twice for a call, none
\* of another hash runs for it, and none runs after its unregister_handler
\* has returned.
THEOREM HandlersRunOnce == Spec => []HandlersRunAsAsked
  <1>1. RpcInv => HandlersRunAsAsked
    <2> SUFFICES ASSUME RpcInv, NEW s \in Sides, mutex[s] # None
                 PROVE  ran[mutex[s]][Len(ran[mutex[s]])] \notin gone[s]
      BY DEF RpcInv, HandlersRunAsAsked, UnregisteredIsQuiet
    <2> QED  BY DEF RpcInv, HolderHasRun
  <1> QED  BY AlwaysRpc, <1>1, PTL

-----------------------------------------------------------------------------
(* What a callback is given                                                *)

\* A handler that has yet to run, or to return, has returned nothing.
ReturnIsNew ==
  /\ \A c \in Calls : place[c] # "gone" => returned[c] = None
  /\ \A s \in Sides : mutex[s] # None =>
       s = Callee(mutex[s]) /\ returned[mutex[s]] = None

\* A response on its way says what was returned for its call.
ResponsesAreTrue ==
  \A r \in responses :
    /\ returned[r.call] # None
    /\ r.ec = 0 => returned[r.call] \in {Message, 0}
    /\ r.ec # 0 => returned[r.call] = r.ec

\* So does a result, but for the two errors that the caller's side makes.
ResultsAreTrue ==
  \A c \in Calls :
    /\ result[c] = Message => returned[c] # None /\ returned[c] \in {Message, 0}
    /\ result[c] \in Codes \ {ErrNetwork, ErrDeserialize} =>
         returned[c] = result[c]

GenuineInv == RpcInv /\ ReturnIsNew /\ ResponsesAreTrue /\ ResultsAreTrue

LEMMA InitGenuine == Init => GenuineInv
  BY InitRpc, NoneAssumption
  DEF Init, GenuineInv, ReturnIsNew, ResponsesAreTrue, ResultsAreTrue, Values

\* A step that leaves mutexes, returns and results alone, and brings no
\* request back.
LEMMA GenuineKept ==
  ASSUME GenuineInv, RpcInv', UNCHANGED <<mutex, returned, result>>,
         responses' \subseteq responses,
         \A c \in Calls : place[c] = "gone" => place'[c] = "gone"
  PROVE  GenuineInv'
  BY DEF GenuineInv, ReturnIsNew, ResponsesAreTrue, ResultsAreTrue

LEMMA EnterGenuine ==
  ASSUME GenuineInv, RpcInv', NEW c \in Calls, Enter(c)
  PROVE  GenuineInv'
  <1>1. /\ place[c] = "sent" /\ mutex' = [mutex EXCEPT ![Callee(c)] = c]
        /\ place' = [place EXCEPT ![c] = "gone"]
        /\ UNCHANGED <<responses, state, result, returned>>
    BY DEF Enter
  <1>2. ReturnIsNew'
    BY <1>1 DEF GenuineInv, ReturnIsNew, RpcInv, TypeOK
  <1>3. ResponsesAreTrue' /\ ResultsAreTrue'
    BY <1>1 DEF GenuineInv, ResponsesAreTrue, ResultsAreTrue
  <1> QED  BY <1>2, <1>3 DEF GenuineInv

\* Nothing was returned for the call, so that no response or result of it is
\* there that the new one might contradict.
LEMMA ReturnGenuine ==
  ASSUME GenuineInv, RpcInv', NEW c \in Calls, NEW v \in Values,
         NEW ok \in BOOLEAN, Return(c, v, ok)
  PROVE  GenuineInv'
  <1> DEFINE s == Callee(c)
  <1>1. /\ s \in Sides /\ mutex[s] = c /\ c # None
        /\ mutex' = [mutex EXCEPT ![s] = None]
        /\ returned' = [returned EXCEPT ![c] = v]
        /\ responses' \subseteq responses \cup {Response(c, v, ok)}
        /\ UNCHANGED <<place, state, result>>
    BY CalleeIsSide, NoneAssumption DEF Return
  <1> HIDE DEF s
  <1>2. returned[c] = None
    BY <1>1 DEF GenuineInv, ReturnIsNew
  <1>3. returned'[c] = v /\ v # None
    BY <1>1, NoneAssumption DEF GenuineInv, RpcInv, TypeOK
  <1>4. \A d \in Calls \ {c} : returned'[d] = returned[d]
    BY <1>1 DEF GenuineInv, RpcInv, TypeOK
  <1>5. place[c] = "gone"
    <2>1. Len(ran[c]) = 1
      BY <1>1 DEF GenuineInv, RpcInv, HolderHasRun
    <2> QED  BY <2>1 DEF GenuineInv, RpcInv, FreshHasNotRun
  <1>6. ReturnIsNew'
    <2>1. ASSUME NEW t \in Sides, mutex'[t] # None
          PROVE  mutex'[t] = mutex[t] /\ mutex[t] \in Calls \ {c}
      <3>1. t # s /\ mutex'[t] = mutex[t]
        BY <1>1, <2>1 DEF GenuineInv, RpcInv, TypeOK
      <3>2. mutex[t] \in Calls /\ t = Callee(mutex[t])
        BY <2>1, <3>1 DEF GenuineInv, ReturnIsNew, RpcInv, TypeOK
      <3> QED  BY <3>1, <3>2 DEF s
    <2> QED  BY <1>1, <1>4, <1>5, <2>1 DEF GenuineInv, ReturnIsNew
  <1>7. ResponsesAreTrue'
    <2> SUFFICES ASSUME NEW r \in responses'
                 PROVE  /\ returned'[r.call] # None
                        /\ r.ec = 0 => returned'[r.call] \in {Message, 0}
                        /\ r.ec # 0 => returned'[r.call] = r.ec
      BY DEF ResponsesAreTrue
    <2>1. CASE r \in responses
      <3>1. r.call \in Calls \ {c}
        BY <1>2, <2>1 DEF GenuineInv, RpcInv, TypeOK, ResponsesAreTrue
      <3> QED  BY <1>4, <2>1, <3>1 DEF GenuineInv, ResponsesAreTrue
    <2>2. CASE r = Response(c, v, ok)
      <3>1. v = Message => r.call = c /\ r.ec = 0
        BY <2>2 DEF Response
      <3>2. v # Message => r.call = c /\ r.ec = v
        BY <2>2 DEF Response
      <3> QED  BY <1>3, <3>1, <3>2
    <2> QED  BY <1>1, <2>1, <2>2
  <1>8. ResultsAreTrue'
    <2> SUFFICES ASSUME NEW d \in Calls
                 PROVE  /\ result[d] = Message =>
                             /\ returned'[d] # None
                             /\ returned'[d] \in {Message, 0}
                        /\ result[d] \in Codes \ {ErrNetwork, ErrDeserialize} =>
                             returned'[d] = result[d]
      BY <1>1 DEF ResultsAreTrue
    <2>1. CASE d # c
      BY <1>4, <2>1 DEF GenuineInv, ResultsAreTrue
    <2>2. CASE d = c
      BY <1>2, <2>2, NoneAssumption DEF GenuineInv, ResultsAreTrue, Values
    <2> QED  BY <2>1, <2>2
  <1> QED  BY <1>6, <1>7, <1>8 DEF GenuineInv

LEMMA RespondGenuine ==
  ASSUME GenuineInv, RpcInv', NEW r \in responses, Respond(r)
  PROVE  GenuineInv'
  <1>1. r.call \in Calls /\ responses' \subseteq responses
    BY DEF Respond, GenuineInv, RpcInv, TypeOK
  <1>2. UNCHANGED <<mutex, place, returned>>
    BY DEF Respond
  <1>3. ReturnIsNew' /\ ResponsesAreTrue'
    BY <1>1, <1>2 DEF GenuineInv, ReturnIsNew, ResponsesAreTrue
  <1>4. CASE result' = [result EXCEPT ![r.call] = ParseBody(r)]
    <2>1. /\ ParseBody(r) = Message => r.ec = 0
          /\ ParseBody(r) \notin {Message, ErrDeserialize} =>
               r.ec # 0 /\ ParseBody(r) = r.ec
      <3>1. r.ec \in Codes \cup {0}
        BY DEF GenuineInv, RpcInv, TypeOK
      <3>2. r.ec \in Nat
        BY <3>1, CodesAssumption, 0 \in Nat, Zenon
      <3>3. r.ec # 0 => ParseBody(r) = r.ec
        BY DEF ParseBody
      <3>4. r.ec = 0 => ParseBody(r) \in {Message, ErrDeserialize}
        BY DEF ParseBody
      <3> QED  BY <3>2, <3>3, <3>4 DEF Message
    <2>2. ResultsAreTrue'
      <3> SUFFICES ASSUME NEW c \in Calls
                   PROVE  /\ result'[c] = Message =>
                               /\ returned[c] # None
                               /\ returned[c] \in {Message, 0}
                          /\ result'[c] \in Codes \ {ErrNetwork, ErrDeserialize}
                               => returned[c] = result'[c]
        BY <1>2 DEF ResultsAreTrue
      <3>1. CASE c # r.call
        BY <1>4, <3>1 DEF GenuineInv, RpcInv, TypeOK, ResultsAreTrue
      <3>2. CASE c = r.call
        <4>1. result'[c] = ParseBody(r)
          BY <1>4, <3>2 DEF GenuineInv, RpcInv, TypeOK
        <4>2. Message \notin Codes
          BY CodesAssumption DEF Message
        <4> QED  BY <2>1, <3>2, <4>1, <4>2 DEF GenuineInv, ResponsesAreTrue
      <3> QED  BY <3>1, <3>2
    <2> QED  BY <1>3, <2>2 DEF GenuineInv
  <1>5. CASE result' = result
    BY <1>2, <1>3, <1>5 DEF GenuineInv, ResultsAreTrue
  <1> QED  BY <1>4, <1>5 DEF Respond

LEMMA NextGenuine == GenuineInv /\ [Next]_vars => GenuineInv'
  <1> SUFFICES ASSUME GenuineInv, [Next]_vars PROVE GenuineInv'
    OBVIOUS
  <1>0. RpcInv'
    BY NextRpc DEF GenuineInv
  <1>1. CASE Registering
    BY <1>0, <1>1, GenuineKept DEF Registering, Register, Unregister
  <1>2. ASSUME NEW c \in Calls, \/ Call(c) \/ CancelCall(c) \/ Ignore(c)
                                \/ Pop(c) \/ Commit(c) \/ Lose(c)
        PROVE  GenuineInv'
    <2>1. Onwards
      BY <1>2, CallerOnwards DEF GenuineInv
    <2>2. UNCHANGED <<mutex, returned, result, responses>>
      BY <1>2 DEF Call, CancelCall, Ignore, Pop, Commit, Lose
    <2> QED  BY <1>0, <2>1, <2>2, GenuineKept DEF Onwards
  <1>3. ASSUME NEW c \in Calls, TimeOut(c) PROVE GenuineInv'
    <2>1. /\ UNCHANGED <<mutex, responses, returned>>
          /\ result' = [result EXCEPT ![c] = ErrNetwork]
      BY <1>3 DEF TimeOut
    <2>2. \A d \in Calls : result'[d] \in {result[d], ErrNetwork}
      BY <2>1 DEF GenuineInv, RpcInv, TypeOK
    <2>3. Message # ErrNetwork
      BY DEF Message, ErrNetwork
    <2>4. ResultsAreTrue'
      BY <2>1, <2>2, <2>3 DEF GenuineInv, ResultsAreTrue
    <2>5. Onwards
      BY <1>3, CallerOnwards DEF GenuineInv
    <2> QED
      BY <1>0, <2>1, <2>4, <2>5
      DEF GenuineInv, ReturnIsNew, ResponsesAreTrue, Onwards
  <1>4. ASSUME NEW c \in Calls, Enter(c) PROVE GenuineInv'
    BY <1>0, <1>4, EnterGenuine
  <1>5. ASSUME NEW c \in Calls, NEW v \in Values, NEW ok \in BOOLEAN,
               Return(c, v, ok)
        PROVE  GenuineInv'
    BY <1>0, <1>5, ReturnGenuine
  <1>6. ASSUME NEW r \in responses, Respond(r) PROVE GenuineInv'
    BY <1>0, <1>6, RespondGenuine
  <1>7. ASSUME NEW k \in Conns, Remove(k) \/ Disconnect(k)
        PROVE  GenuineInv'
    <2>1. Onwards
      BY <1>7, CallerOnwards DEF GenuineInv
    <2>2. UNCHANGED <<mutex, returned, result, responses>>
      BY <1>7 DEF Remove, Disconnect
    <2> QED  BY <1>0, <2>1, <2>2, GenuineKept DEF Onwards
  <1>8. CASE UNCHANGED vars
    BY <1>0, <1>8, GenuineKept DEF vars
  <1> QED
    BY <1>1, <1>2, <1>3, <1>4, <1>5, <1>6, <1>7, <1>8
    DEF Next, Calling, Handling, Writing

\* A handler of another hash did not run for the call (RunsAtMostOnce).
LEMMA GenuineResult == GenuineInv => ResultIsGenuine
  <1> SUFFICES ASSUME GenuineInv, NEW c \in Calls,
                      NEW n \in Names \ {NameOf[c]},
                      Hash[n] # Hash[NameOf[c]], ran[c] = <<n>>
               PROVE  FALSE
    BY DEF GenuineInv, ResultsAreTrue, ResultIsGenuine
  <1>1. 1 \in DOMAIN ran[c] /\ ran[c][1] = n
    OBVIOUS
  <1> QED  BY <1>1 DEF GenuineInv, RpcInv, RunsAtMostOnce

\* For any clients, names and hashes: a callback is given what the handler of
\* its own call returned, or the news that this is not known, however late or
\* often responses, timeouts, cancellations and disconnections come.
THEOREM ResultsOfOwnCall == Spec => []ResultIsGenuine
  BY InitGenuine, NextGenuine, GenuineResult, PTL DEF Spec

=============================================================================
