----------------------------- MODULE ServerProofs -----------------------------
(***************************************************************************)
(* Proofs about ServerRegistry: its types, that nobody uses a connection   *)
(* that is being destroyed, and that there are no circles of waiting       *)
(* threads but the known ones, for any number of connections.              *)
(***************************************************************************)
EXTENDS ServerRegistry, TLAPS

Removing == {"stop", "joinW", "joinR", "lifetime"}

\* A call names a connection unless it registers a processor, which takes no
\* other lock, and only cancel_sending comes to the table.
CallsAreFormed ==
  \A t \in Callers :
    api[t] # None =>
      /\ api[t].conn = None <=> api[t].op = "register"
      /\ api[t].op = "register" => api[t].at = "enter"
      /\ api[t].at = "table" => api[t].op = "cancel"

\* Only code that runs in a thread of the application, a handler or a callback
\* calls the manager.
CallersRun ==
  /\ api[Timer] # None =>
       tpc \in {"tableCb", "queueCb"} /\ api[Timer].op \in CallbackCalls
  /\ \A c \in Conns :
       api[R(c)] # None =>
         \/ reader[c] = "handler" /\ api[R(c)].op \in HandlerCalls
         \/ reader[c] = "callback" /\ api[R(c)].op \in CallbackCalls

\* Whoever shares connections_mutex uses a connection that is registered.
SharersUse ==
  \A t \in Callers :
    /\ t \in sharers <=> api[t] # None /\ api[t].at # "enter"
    /\ t \in sharers => api[t].conn \in registered

\* connections_mutex is held alone by the timer thread that removes.
ManagerLocked ==
  /\ mgrLock = Timer <=> tpc \in Removing
  /\ mgrLock # None => sharers = {}

\* The mutexes of a connection are held over callbacks only, those of the timer
\* thread for the connection it checks and those of its reading thread.
ConnectionsLocked ==
  \A c \in Conns :
    /\ queueLock[c] = Timer <=> tpc = "queueCb" /\ tconn = c
    /\ tableLock[c] = Timer <=> tpc = "tableCb" /\ tconn = c
    /\ \A d \in Conns :
         tableLock[c] = R(d) <=> d = c /\ reader[c] = "callback"

\* What is registered runs; new_connection has finished with it.
RegisteredRun ==
  \A c \in registered : life[c] = "running" /\ c # starting

\* Only the connection new_connection works on is constructed and not running.
StartingIsNew ==
  /\ starting # None => life[starting] \in {"constructed", "running"}
  /\ \A c \in Conns :
       /\ life[c] = "constructed" => c = starting
       /\ life[c] \in {"unborn", "constructed"} => reader[c] = "none"

\* The timer thread's connection was not destroyed by on_disconnected.
CheckedLives ==
  /\ tpc # "idle" => life[tconn] \in {"constructed", "running", "failed"}
  /\ tpc \in {"alive", "erase"} \cup Removing => life[tconn] = "running"
  /\ tpc \in Removing => tconn \notin registered /\ tconn # starting

\* The inductive invariant.
ServerInv ==
  /\ TypeOK
  /\ CallsAreFormed /\ CallersRun /\ SharersUse
  /\ ManagerLocked /\ ConnectionsLocked
  /\ RegisteredRun /\ StartingIsNew /\ CheckedLives

-----------------------------------------------------------------------------

\* Threads are told apart by their names and connections.
LEMMA ThreadsDiffer ==
  /\ Timer \in Callers /\ App \in Callers /\ None \notin Callers
  /\ None \notin Conns
  /\ Timer # App /\ Timer # None
  /\ \A c \in Conns :
       /\ R(c) \in Callers /\ R(c) # Timer /\ R(c) # App /\ R(c) # None
       /\ \A d \in Conns : R(c) = R(d) => c = d
  /\ \A t \in Callers : t = Timer \/ t = App \/ \E c \in Conns : t = R(c)
BY NoneAssumption DEF Callers, Threads, Timer, App, R, Acceptor, W

\* The invariant holds at the start.
LEMMA ServerInit == Init => ServerInv
<1>. SUFFICES ASSUME Init PROVE ServerInv
  OBVIOUS
<1>1. TypeOK
  BY ThreadsDiffer DEF Init, TypeOK
<1>2. CallsAreFormed /\ CallersRun /\ SharersUse
  BY ThreadsDiffer DEF Init, CallsAreFormed, CallersRun, SharersUse
<1>3. ManagerLocked /\ ConnectionsLocked
  BY ThreadsDiffer DEF Init, ManagerLocked, ConnectionsLocked, Removing
<1>4. RegisteredRun /\ StartingIsNew /\ CheckedLives
  BY DEF Init, RegisteredRun, StartingIsNew, CheckedLives, Removing
<1>. QED
  BY <1>1, <1>2, <1>3, <1>4 DEF ServerInv

\* The calls of the manager as records.
LEMMA CallsMove ==
  /\ None \notin ManagerCalls
  /\ \A m \in ManagerCalls :
       /\ m.op \in Operations /\ m.conn \in Conns \cup {None}
       /\ m.at \in {"enter", "queue", "table"}
       /\ \A where \in {"enter", "queue", "table"} :
            /\ [m EXCEPT !.at = where] \in ManagerCalls
            /\ [m EXCEPT !.at = where].op = m.op
            /\ [m EXCEPT !.at = where].conn = m.conn
            /\ [m EXCEPT !.at = where].at = where
  /\ \A op \in Operations, c \in Conns \cup {None} :
       [op |-> op, conn |-> c, at |-> "enter"] \in ManagerCalls
BY NoneAssumption DEF ManagerCalls

\* A call that goes on differs in its place only, and the other calls do not.
LEMMA CallGoesOn ==
  ASSUME NEW t \in Callers, NEW where \in {"queue", "table"},
         api \in [Callers -> {None} \cup ManagerCalls], api[t] # None,
         api' = [api EXCEPT ![t].at = where]
  PROVE  /\ api' \in [Callers -> {None} \cup ManagerCalls]
         /\ api'[t] # None /\ api'[t].at = where
         /\ api'[t].op = api[t].op /\ api'[t].conn = api[t].conn
         /\ \A u \in Callers : u # t => api'[u] = api[u]
<1>1. api[t] \in ManagerCalls
  OBVIOUS
<1>2. PICK op \in Operations, c \in Conns \cup {None},
           at \in {"enter", "queue", "table"} :
        api[t] = [op |-> op, conn |-> c, at |-> at]
  BY <1>1 DEF ManagerCalls
<1>3. api'[t] = [op |-> op, conn |-> c, at |-> where]
  BY <1>2
<1>4. api'[t] \in ManagerCalls
  BY <1>3 DEF ManagerCalls
<1>. QED
  BY <1>2, <1>3, <1>4, CallsMove

-----------------------------------------------------------------------------
(* Every action keeps the invariant                                        *)

\* The constructor gives the new connection a timer, and it is not registered.
LEMMA ConstructKeeps ==
  ASSUME NEW c \in Conns, ServerInv, Construct(c)
  PROVE  ServerInv'
<1>1. TypeOK'
  BY ThreadsDiffer DEF ServerInv, TypeOK, Construct, locks, timerVars
<1>2. RegisteredRun'
  BY ThreadsDiffer DEF ServerInv, TypeOK, RegisteredRun, StartingIsNew,
     CheckedLives, ManagerLocked, Removing, Construct, locks, timerVars
<1>3. StartingIsNew'
  BY ThreadsDiffer DEF ServerInv, TypeOK, StartingIsNew, CheckedLives,
     RegisteredRun, Removing, Construct, locks, timerVars
<1>4. CheckedLives'
  BY ThreadsDiffer DEF ServerInv, TypeOK, CheckedLives, RegisteredRun,
     StartingIsNew, ManagerLocked, Removing, Construct, locks, timerVars
<1>5. (CallsAreFormed /\ CallersRun /\ SharersUse /\ ManagerLocked /\
      ConnectionsLocked)'
  BY DEF ServerInv, CallsAreFormed, CallersRun, SharersUse, ManagerLocked,
     ConnectionsLocked, Construct, locks, timerVars
<1>. QED
  BY <1>1, <1>2, <1>3, <1>4, <1>5 DEF ServerInv

\* Starting a connection touches only one that had no threads.
LEMMA StartConnectionKeeps ==
  ASSUME NEW c \in Conns, ServerInv, StartConnection(c)
  PROVE  ServerInv'
<1>1. TypeOK'
  BY ThreadsDiffer DEF ServerInv, TypeOK, StartingIsNew, StartConnection,
     locks, timerVars
<1>2. CallersRun'
  BY ThreadsDiffer DEF ServerInv, TypeOK, CallersRun, StartingIsNew,
     StartConnection, locks, timerVars
<1>3. ConnectionsLocked'
  BY ThreadsDiffer DEF ServerInv, TypeOK, ConnectionsLocked, Removing,
     StartingIsNew, StartConnection, locks, timerVars
<1>4. RegisteredRun'
  BY ThreadsDiffer DEF ServerInv, TypeOK, RegisteredRun, StartingIsNew,
     CheckedLives, ManagerLocked, Removing, StartConnection, locks, timerVars
<1>5. StartingIsNew'
  BY ThreadsDiffer DEF ServerInv, TypeOK, StartingIsNew, CheckedLives,
     RegisteredRun, Removing, StartConnection, locks, timerVars
<1>6. CheckedLives'
  BY ThreadsDiffer DEF ServerInv, TypeOK, CheckedLives, RegisteredRun,
     StartingIsNew, ManagerLocked, Removing, StartConnection, locks, timerVars
<1>7. (CallsAreFormed /\ SharersUse /\ ManagerLocked)'
  BY DEF ServerInv, CallsAreFormed, SharersUse, ManagerLocked,
     StartConnection, locks, timerVars
<1>. QED
  BY <1>1, <1>2, <1>3, <1>4, <1>5, <1>6, <1>7 DEF ServerInv

\* A connection that does not start was never registered.
LEMMA StartFailsKeeps ==
  ASSUME NEW c \in Conns, ServerInv, StartFails(c)
  PROVE  ServerInv'
<1>1. TypeOK'
  BY ThreadsDiffer DEF ServerInv, TypeOK, StartFails, locks, timerVars
<1>2. RegisteredRun'
  BY ThreadsDiffer DEF ServerInv, TypeOK, RegisteredRun, StartingIsNew,
     CheckedLives, ManagerLocked, Removing, StartFails, locks, timerVars
<1>3. StartingIsNew'
  BY ThreadsDiffer DEF ServerInv, TypeOK, StartingIsNew, CheckedLives,
     RegisteredRun, Removing, StartFails, locks, timerVars
<1>4. CheckedLives'
  BY ThreadsDiffer DEF ServerInv, TypeOK, CheckedLives, RegisteredRun,
     StartingIsNew, ManagerLocked, Removing, StartFails, locks, timerVars
<1>5. (CallsAreFormed /\ CallersRun /\ SharersUse /\ ManagerLocked /\
      ConnectionsLocked)'
  BY DEF ServerInv, CallsAreFormed, CallersRun, SharersUse, ManagerLocked,
     ConnectionsLocked, StartFails, locks, timerVars
<1>. QED
  BY <1>1, <1>2, <1>3, <1>4, <1>5 DEF ServerInv

\* The connection that is registered runs.
LEMMA RegisterConnectionKeeps ==
  ASSUME ServerInv, RegisterConnection
  PROVE  ServerInv'
<1>1. TypeOK'
  BY ThreadsDiffer DEF ServerInv, TypeOK, RegisterConnection, locks, connVars,
     timerVars
<1>2. SharersUse'
  BY ThreadsDiffer DEF ServerInv, TypeOK, SharersUse, CallsAreFormed,
     ManagerLocked, RegisteredRun, RegisterConnection, locks, connVars,
     timerVars
<1>3. RegisteredRun'
  BY ThreadsDiffer DEF ServerInv, TypeOK, RegisteredRun, StartingIsNew,
     CheckedLives, ManagerLocked, Removing, RegisterConnection, locks,
     connVars, timerVars
<1>4. StartingIsNew'
  BY ThreadsDiffer DEF ServerInv, TypeOK, StartingIsNew, CheckedLives,
     RegisteredRun, Removing, RegisterConnection, locks, connVars, timerVars
<1>5. CheckedLives'
  BY ThreadsDiffer DEF ServerInv, TypeOK, CheckedLives, RegisteredRun,
     StartingIsNew, ManagerLocked, Removing, RegisterConnection, locks,
     connVars, timerVars
<1>6. (CallsAreFormed /\ CallersRun /\ ManagerLocked /\ ConnectionsLocked)'
  BY DEF ServerInv, CallsAreFormed, CallersRun, ManagerLocked,
     ConnectionsLocked, RegisterConnection, locks, connVars, timerVars
<1>. QED
  BY <1>1, <1>2, <1>3, <1>4, <1>5, <1>6 DEF ServerInv

\* A new call is made where the application's code runs.
LEMMA CallKeeps ==
  ASSUME NEW t \in Callers, ServerInv, Call(t)
  PROVE  ServerInv'
<1>1. TypeOK'
  BY ThreadsDiffer, CallsMove DEF ServerInv, TypeOK, Call, MayCall, locks,
     connVars, timerVars
<1>2. CallsAreFormed'
  BY ThreadsDiffer, CallsMove DEF ServerInv, TypeOK, CallsAreFormed,
     CallersRun, SharersUse, Call, MayCall, locks, connVars, timerVars
<1>3. CallersRun'
  BY ThreadsDiffer, CallsMove DEF ServerInv, TypeOK, CallersRun, Call,
     MayCall, locks, connVars, timerVars
<1>4. SharersUse'
  BY ThreadsDiffer, CallsMove DEF ServerInv, TypeOK, SharersUse,
     CallsAreFormed, ManagerLocked, RegisteredRun, Call, MayCall, locks,
     connVars, timerVars
<1>5. (ManagerLocked /\ ConnectionsLocked /\ RegisteredRun /\ StartingIsNew /\
      CheckedLives)'
  BY DEF ServerInv, ManagerLocked, ConnectionsLocked, RegisteredRun,
     StartingIsNew, CheckedLives, Call, MayCall, locks, connVars, timerVars
<1>. QED
  BY <1>1, <1>2, <1>3, <1>4, <1>5 DEF ServerInv

\* Who shares connections_mutex found its connection registered.
LEMMA EnterKeeps ==
  ASSUME NEW t \in Callers, ServerInv, Enter(t)
  PROVE  ServerInv'
<1>1. /\ api[t] # None /\ api[t].op \in {"send", "cancel"}
      /\ UNCHANGED <<connVars, registered, reader, writer, mgrLock, procLock,
                     queueLock, tableLock, starting, timerVars>>
      /\ mgrLock = None
  BY ThreadsDiffer
     DEF ServerInv, TypeOK, SharersUse, ManagerLocked, Enter, Calling
<1>2. api \in [Callers -> {None} \cup ManagerCalls]
  BY DEF ServerInv, TypeOK
<1>3. CASE api[t].conn \in registered
  <2>1. /\ api' = [api EXCEPT ![t].at = "queue"]
        /\ sharers' = sharers \cup {t}
    BY <1>1, <1>3, ThreadsDiffer DEF Enter, ServerInv, SharersUse, Calling
  <2>2. /\ api' \in [Callers -> {None} \cup ManagerCalls]
        /\ api'[t] # None /\ api'[t].at = "queue"
        /\ api'[t].op = api[t].op /\ api'[t].conn = api[t].conn
        /\ \A u \in Callers : u # t => api'[u] = api[u]
    BY <1>1, <1>2, <2>1, CallGoesOn
  <2>3. TypeOK'
    BY <1>1, <2>1, <2>2 DEF ServerInv, TypeOK, connVars, timerVars
  <2>4. CallsAreFormed' /\ CallersRun'
    BY <1>1, <1>3, <2>2, ThreadsDiffer
    DEF ServerInv, CallsAreFormed, CallersRun, timerVars
  <2>5. SharersUse' /\ ManagerLocked'
    BY <1>1, <1>3, <2>1, <2>2, ThreadsDiffer
    DEF ServerInv, SharersUse, ManagerLocked, timerVars
  <2>6. (ConnectionsLocked /\ RegisteredRun /\ StartingIsNew /\ CheckedLives)'
    BY <1>1 DEF ServerInv, ConnectionsLocked, RegisteredRun, StartingIsNew,
       CheckedLives, connVars, timerVars
  <2>. QED
    BY <2>3, <2>4, <2>5, <2>6 DEF ServerInv
<1>4. CASE ~(api[t].conn \in registered)
  <2>1. /\ api' = [api EXCEPT ![t] = None]
        /\ sharers' = sharers \ {t}
    BY <1>1, <1>4, ThreadsDiffer
    DEF Enter, ServerInv, TypeOK, SharersUse, Calling
  <2>2. TypeOK'
    BY <1>1, <1>2, <2>1 DEF ServerInv, TypeOK, connVars, timerVars
  <2>3. CallsAreFormed' /\ CallersRun'
    BY <1>1, <1>2, <2>1, ThreadsDiffer
    DEF ServerInv, CallsAreFormed, CallersRun, timerVars
  <2>4. SharersUse' /\ ManagerLocked'
    BY <1>1, <1>2, <2>1, ThreadsDiffer
    DEF ServerInv, SharersUse, ManagerLocked, timerVars
  <2>5. (ConnectionsLocked /\ RegisteredRun /\ StartingIsNew /\ CheckedLives)'
    BY <1>1 DEF ServerInv, ConnectionsLocked, RegisteredRun, StartingIsNew,
       CheckedLives, connVars, timerVars
  <2>. QED
    BY <2>2, <2>3, <2>4, <2>5 DEF ServerInv
<1>. QED
  BY <1>3, <1>4

\* A send ends at the queue, a cancellation goes on to the table.
LEMMA UseQueueKeeps ==
  ASSUME NEW t \in Callers, ServerInv, UseQueue(t)
  PROVE  ServerInv'
<1>1. /\ api[t] # None /\ api[t].op \in {"send", "cancel"}
      /\ UNCHANGED <<connVars, registered, reader, writer, mgrLock, procLock,
                     queueLock, tableLock, starting, timerVars>>
      /\ mgrLock = None
  BY ThreadsDiffer
     DEF ServerInv, TypeOK, SharersUse, ManagerLocked, UseQueue, Calling
<1>2. api \in [Callers -> {None} \cup ManagerCalls]
  BY DEF ServerInv, TypeOK
<1>3. CASE api[t].op # "send"
  <2>1. /\ api' = [api EXCEPT ![t].at = "table"]
        /\ sharers' = sharers /\ t \in sharers
    BY <1>1, <1>3, ThreadsDiffer DEF UseQueue, ServerInv, SharersUse, Calling
  <2>2. /\ api' \in [Callers -> {None} \cup ManagerCalls]
        /\ api'[t] # None /\ api'[t].at = "table"
        /\ api'[t].op = api[t].op /\ api'[t].conn = api[t].conn
        /\ \A u \in Callers : u # t => api'[u] = api[u]
    BY <1>1, <1>2, <2>1, CallGoesOn
  <2>3. TypeOK'
    BY <1>1, <2>1, <2>2 DEF ServerInv, TypeOK, connVars, timerVars
  <2>4. CallsAreFormed' /\ CallersRun'
    BY <1>1, <1>3, <2>2, ThreadsDiffer
    DEF ServerInv, CallsAreFormed, CallersRun, timerVars
  <2>5. SharersUse' /\ ManagerLocked'
    BY <1>1, <1>3, <2>1, <2>2, ThreadsDiffer
    DEF ServerInv, SharersUse, ManagerLocked, timerVars
  <2>6. (ConnectionsLocked /\ RegisteredRun /\ StartingIsNew /\ CheckedLives)'
    BY <1>1 DEF ServerInv, ConnectionsLocked, RegisteredRun, StartingIsNew,
       CheckedLives, connVars, timerVars
  <2>. QED
    BY <2>3, <2>4, <2>5, <2>6 DEF ServerInv
<1>4. CASE ~(api[t].op # "send")
  <2>1. /\ api' = [api EXCEPT ![t] = None]
        /\ sharers' = sharers \ {t}
    BY <1>1, <1>4, ThreadsDiffer
    DEF UseQueue, ServerInv, TypeOK, SharersUse, Calling
  <2>2. TypeOK'
    BY <1>1, <1>2, <2>1 DEF ServerInv, TypeOK, connVars, timerVars
  <2>3. CallsAreFormed' /\ CallersRun'
    BY <1>1, <1>2, <2>1, ThreadsDiffer
    DEF ServerInv, CallsAreFormed, CallersRun, timerVars
  <2>4. SharersUse' /\ ManagerLocked'
    BY <1>1, <1>2, <2>1, ThreadsDiffer
    DEF ServerInv, SharersUse, ManagerLocked, timerVars
  <2>5. (ConnectionsLocked /\ RegisteredRun /\ StartingIsNew /\ CheckedLives)'
    BY <1>1 DEF ServerInv, ConnectionsLocked, RegisteredRun, StartingIsNew,
       CheckedLives, connVars, timerVars
  <2>. QED
    BY <2>2, <2>3, <2>4, <2>5 DEF ServerInv
<1>. QED
  BY <1>3, <1>4

\* A cancellation ends at the table.
LEMMA UseTableKeeps ==
  ASSUME NEW t \in Callers, ServerInv, UseTable(t)
  PROVE  ServerInv'
<1>1. TypeOK'
  BY ThreadsDiffer, CallsMove DEF ServerInv, TypeOK, UseTable, Calling,
     connVars, timerVars
<1>2. CallsAreFormed'
  BY ThreadsDiffer, CallsMove DEF ServerInv, TypeOK, CallsAreFormed,
     CallersRun, SharersUse, UseTable, Calling, connVars, timerVars
<1>3. CallersRun'
  BY ThreadsDiffer, CallsMove DEF ServerInv, TypeOK, CallersRun, UseTable,
     Calling, connVars, timerVars
<1>4. SharersUse'
  BY ThreadsDiffer, CallsMove DEF ServerInv, TypeOK, SharersUse,
     CallsAreFormed, ManagerLocked, RegisteredRun, UseTable, Calling,
     connVars, timerVars
<1>5. ManagerLocked'
  BY ThreadsDiffer, CallsMove DEF ServerInv, TypeOK, ManagerLocked,
     SharersUse, Removing, UseTable, Calling, connVars, timerVars
<1>6. (ConnectionsLocked /\ RegisteredRun /\ StartingIsNew /\ CheckedLives)'
  BY DEF ServerInv, ConnectionsLocked, RegisteredRun, StartingIsNew,
     CheckedLives, UseTable, Calling, connVars, timerVars
<1>. QED
  BY <1>1, <1>2, <1>3, <1>4, <1>5, <1>6 DEF ServerInv

\* Registering a processor touches no connection.
LEMMA RegisterProcessorKeeps ==
  ASSUME NEW t \in Callers, ServerInv, RegisterProcessor(t)
  PROVE  ServerInv'
<1>1. TypeOK'
  BY ThreadsDiffer, CallsMove DEF ServerInv, TypeOK, RegisterProcessor,
     Calling, locks, connVars, timerVars
<1>2. CallsAreFormed'
  BY ThreadsDiffer, CallsMove DEF ServerInv, TypeOK, CallsAreFormed,
     CallersRun, SharersUse, RegisterProcessor, Calling, locks, connVars,
     timerVars
<1>3. CallersRun'
  BY ThreadsDiffer, CallsMove DEF ServerInv, TypeOK, CallersRun,
     RegisterProcessor, Calling, locks, connVars, timerVars
<1>4. SharersUse'
  BY ThreadsDiffer, CallsMove DEF ServerInv, TypeOK, SharersUse,
     CallsAreFormed, ManagerLocked, RegisteredRun, RegisterProcessor, Calling,
     locks, connVars, timerVars
<1>5. (ManagerLocked /\ ConnectionsLocked /\ RegisteredRun /\ StartingIsNew /\
      CheckedLives)'
  BY DEF ServerInv, ManagerLocked, ConnectionsLocked, RegisteredRun,
     StartingIsNew, CheckedLives, RegisterProcessor, Calling, locks, connVars,
     timerVars
<1>. QED
  BY <1>1, <1>2, <1>3, <1>4, <1>5 DEF ServerInv

\* Taking a packet takes no lock.
LEMMA ReaderTakesKeeps ==
  ASSUME NEW c \in Conns, ServerInv, ReaderTakes(c)
  PROVE  ServerInv'
<1>1. TypeOK'
  BY ThreadsDiffer DEF ServerInv, TypeOK, ReaderTakes, ReaderMoves, connVars,
     timerVars
<1>2. CallersRun'
  BY ThreadsDiffer DEF ServerInv, TypeOK, CallersRun, ReaderTakes,
     ReaderMoves, connVars, timerVars
<1>3. ConnectionsLocked'
  BY ThreadsDiffer DEF ServerInv, TypeOK, ConnectionsLocked, Removing,
     ReaderTakes, ReaderMoves, connVars, timerVars
<1>4. StartingIsNew'
  BY ThreadsDiffer DEF ServerInv, TypeOK, StartingIsNew, CheckedLives,
     RegisteredRun, Removing, ReaderTakes, ReaderMoves, connVars, timerVars
<1>5. (CallsAreFormed /\ SharersUse /\ ManagerLocked /\ RegisteredRun /\
      CheckedLives)'
  BY DEF ServerInv, CallsAreFormed, SharersUse, ManagerLocked, RegisteredRun,
     CheckedLives, ReaderTakes, ReaderMoves, connVars, timerVars
<1>. QED
  BY <1>1, <1>2, <1>3, <1>4, <1>5 DEF ServerInv

\* A reader enters a handler with req_processors_mutex.
LEMMA ReaderLooksUpKeeps ==
  ASSUME NEW c \in Conns, ServerInv, ReaderLooksUp(c)
  PROVE  ServerInv'
<1>1. TypeOK'
  BY ThreadsDiffer DEF ServerInv, TypeOK, ReaderLooksUp, ReaderMoves,
     connVars, timerVars
<1>2. CallersRun'
  BY ThreadsDiffer DEF ServerInv, TypeOK, CallersRun, ReaderLooksUp,
     ReaderMoves, connVars, timerVars
<1>3. ConnectionsLocked'
  BY ThreadsDiffer DEF ServerInv, TypeOK, ConnectionsLocked, Removing,
     ReaderLooksUp, ReaderMoves, connVars, timerVars
<1>4. StartingIsNew'
  BY ThreadsDiffer DEF ServerInv, TypeOK, StartingIsNew, CheckedLives,
     RegisteredRun, Removing, ReaderLooksUp, ReaderMoves, connVars, timerVars
<1>5. (CallsAreFormed /\ SharersUse /\ ManagerLocked /\ RegisteredRun /\
      CheckedLives)'
  BY DEF ServerInv, CallsAreFormed, SharersUse, ManagerLocked, RegisteredRun,
     CheckedLives, ReaderLooksUp, ReaderMoves, connVars, timerVars
<1>. QED
  BY <1>1, <1>2, <1>3, <1>4, <1>5 DEF ServerInv

\* A handler returns when its call of the manager has.
LEMMA HandlerReturnsKeeps ==
  ASSUME NEW c \in Conns, ServerInv, HandlerReturns(c)
  PROVE  ServerInv'
<1>1. TypeOK'
  BY ThreadsDiffer DEF ServerInv, TypeOK, HandlerReturns, ReaderMoves,
     connVars, timerVars
<1>2. CallersRun'
  BY ThreadsDiffer DEF ServerInv, TypeOK, CallersRun, HandlerReturns,
     ReaderMoves, connVars, timerVars
<1>3. ConnectionsLocked'
  BY ThreadsDiffer DEF ServerInv, TypeOK, ConnectionsLocked, Removing,
     HandlerReturns, ReaderMoves, connVars, timerVars
<1>4. StartingIsNew'
  BY ThreadsDiffer DEF ServerInv, TypeOK, StartingIsNew, CheckedLives,
     RegisteredRun, Removing, HandlerReturns, ReaderMoves, connVars, timerVars
<1>5. (CallsAreFormed /\ SharersUse /\ ManagerLocked /\ RegisteredRun /\
      CheckedLives)'
  BY DEF ServerInv, CallsAreFormed, SharersUse, ManagerLocked, RegisteredRun,
     CheckedLives, HandlerReturns, ReaderMoves, connVars, timerVars
<1>. QED
  BY <1>1, <1>2, <1>3, <1>4, <1>5 DEF ServerInv

\* A reader enters a callback with the mutex of its own table.
LEMMA ReaderMatchesKeeps ==
  ASSUME NEW c \in Conns, ServerInv, ReaderMatches(c)
  PROVE  ServerInv'
<1>1. TypeOK'
  BY ThreadsDiffer DEF ServerInv, TypeOK, ReaderMatches, ReaderMoves,
     connVars, timerVars
<1>2. CallersRun'
  BY ThreadsDiffer DEF ServerInv, TypeOK, CallersRun, ReaderMatches,
     ReaderMoves, connVars, timerVars
<1>3. ConnectionsLocked'
  BY ThreadsDiffer DEF ServerInv, TypeOK, ConnectionsLocked, Removing,
     ReaderMatches, ReaderMoves, connVars, timerVars
<1>4. StartingIsNew'
  BY ThreadsDiffer DEF ServerInv, TypeOK, StartingIsNew, CheckedLives,
     RegisteredRun, Removing, ReaderMatches, ReaderMoves, connVars, timerVars
<1>5. (CallsAreFormed /\ SharersUse /\ ManagerLocked /\ RegisteredRun /\
      CheckedLives)'
  BY DEF ServerInv, CallsAreFormed, SharersUse, ManagerLocked, RegisteredRun,
     CheckedLives, ReaderMatches, ReaderMoves, connVars, timerVars
<1>. QED
  BY <1>1, <1>2, <1>3, <1>4, <1>5 DEF ServerInv

\* A callback returns when its call of the manager has.
LEMMA CallbackReturnsKeeps ==
  ASSUME NEW c \in Conns, ServerInv, CallbackReturns(c)
  PROVE  ServerInv'
<1>1. TypeOK'
  BY ThreadsDiffer DEF ServerInv, TypeOK, CallbackReturns, ReaderMoves,
     connVars, timerVars
<1>2. CallersRun'
  BY ThreadsDiffer DEF ServerInv, TypeOK, CallersRun, CallbackReturns,
     ReaderMoves, connVars, timerVars
<1>3. ConnectionsLocked'
  BY ThreadsDiffer DEF ServerInv, TypeOK, ConnectionsLocked, Removing,
     CallbackReturns, ReaderMoves, connVars, timerVars
<1>4. StartingIsNew'
  BY ThreadsDiffer DEF ServerInv, TypeOK, StartingIsNew, CheckedLives,
     RegisteredRun, Removing, CallbackReturns, ReaderMoves, connVars,
     timerVars
<1>5. (CallsAreFormed /\ SharersUse /\ ManagerLocked /\ RegisteredRun /\
      CheckedLives)'
  BY DEF ServerInv, CallsAreFormed, SharersUse, ManagerLocked, RegisteredRun,
     CheckedLives, CallbackReturns, ReaderMoves, connVars, timerVars
<1>. QED
  BY <1>1, <1>2, <1>3, <1>4, <1>5 DEF ServerInv

\* A reader leaves holding nothing.
LEMMA ReaderLeavesKeeps ==
  ASSUME NEW c \in Conns, ServerInv, ReaderLeaves(c)
  PROVE  ServerInv'
<1>1. TypeOK'
  BY ThreadsDiffer DEF ServerInv, TypeOK, ReaderLeaves, ReaderMoves, connVars,
     timerVars
<1>2. CallersRun'
  BY ThreadsDiffer DEF ServerInv, TypeOK, CallersRun, ReaderLeaves,
     ReaderMoves, connVars, timerVars
<1>3. ConnectionsLocked'
  BY ThreadsDiffer DEF ServerInv, TypeOK, ConnectionsLocked, Removing,
     ReaderLeaves, ReaderMoves, connVars, timerVars
<1>4. StartingIsNew'
  BY ThreadsDiffer DEF ServerInv, TypeOK, StartingIsNew, CheckedLives,
     RegisteredRun, Removing, ReaderLeaves, ReaderMoves, connVars, timerVars
<1>5. (CallsAreFormed /\ SharersUse /\ ManagerLocked /\ RegisteredRun /\
      CheckedLives)'
  BY DEF ServerInv, CallsAreFormed, SharersUse, ManagerLocked, RegisteredRun,
     CheckedLives, ReaderLeaves, ReaderMoves, connVars, timerVars
<1>. QED
  BY <1>1, <1>2, <1>3, <1>4, <1>5 DEF ServerInv

\* The writer holds no mutex between its steps.
LEMMA WriterPopsKeeps ==
  ASSUME NEW c \in Conns, ServerInv, WriterPops(c)
  PROVE  ServerInv'
<1>1. TypeOK'
  BY ThreadsDiffer DEF ServerInv, TypeOK, WriterPops, WriterMoves, locks,
     connVars, timerVars
<1>2. (CallsAreFormed /\ CallersRun /\ SharersUse /\ ManagerLocked /\
      ConnectionsLocked /\ RegisteredRun /\ StartingIsNew /\
      CheckedLives)'
  BY DEF ServerInv, CallsAreFormed, CallersRun, SharersUse, ManagerLocked,
     ConnectionsLocked, RegisteredRun, StartingIsNew, CheckedLives,
     WriterPops, WriterMoves, locks, connVars, timerVars
<1>. QED
  BY <1>1, <1>2 DEF ServerInv

\* Nothing but the writer's place changes.
LEMMA WriterIsReadyKeeps ==
  ASSUME NEW c \in Conns, ServerInv, WriterIsReady(c)
  PROVE  ServerInv'
<1>1. TypeOK'
  BY ThreadsDiffer DEF ServerInv, TypeOK, WriterIsReady, WriterMoves, locks,
     connVars, timerVars
<1>2. (CallsAreFormed /\ CallersRun /\ SharersUse /\ ManagerLocked /\
      ConnectionsLocked /\ RegisteredRun /\ StartingIsNew /\
      CheckedLives)'
  BY DEF ServerInv, CallsAreFormed, CallersRun, SharersUse, ManagerLocked,
     ConnectionsLocked, RegisteredRun, StartingIsNew, CheckedLives,
     WriterIsReady, WriterMoves, locks, connVars, timerVars
<1>. QED
  BY <1>1, <1>2 DEF ServerInv

\* The request is registered in one critical section.
LEMMA WriterRegistersKeeps ==
  ASSUME NEW c \in Conns, ServerInv, WriterRegisters(c)
  PROVE  ServerInv'
<1>1. TypeOK'
  BY ThreadsDiffer DEF ServerInv, TypeOK, WriterRegisters, WriterMoves, locks,
     connVars, timerVars
<1>2. (CallsAreFormed /\ CallersRun /\ SharersUse /\ ManagerLocked /\
      ConnectionsLocked /\ RegisteredRun /\ StartingIsNew /\
      CheckedLives)'
  BY DEF ServerInv, CallsAreFormed, CallersRun, SharersUse, ManagerLocked,
     ConnectionsLocked, RegisteredRun, StartingIsNew, CheckedLives,
     WriterRegisters, WriterMoves, locks, connVars, timerVars
<1>. QED
  BY <1>1, <1>2 DEF ServerInv

\* The writer leaves holding nothing.
LEMMA WriterLeavesKeeps ==
  ASSUME NEW c \in Conns, ServerInv, WriterLeaves(c)
  PROVE  ServerInv'
<1>1. TypeOK'
  BY ThreadsDiffer DEF ServerInv, TypeOK, WriterLeaves, WriterMoves, locks,
     connVars, timerVars
<1>2. (CallsAreFormed /\ CallersRun /\ SharersUse /\ ManagerLocked /\
      ConnectionsLocked /\ RegisteredRun /\ StartingIsNew /\
      CheckedLives)'
  BY DEF ServerInv, CallsAreFormed, CallersRun, SharersUse, ManagerLocked,
     ConnectionsLocked, RegisteredRun, StartingIsNew, CheckedLives,
     WriterLeaves, WriterMoves, locks, connVars, timerVars
<1>. QED
  BY <1>1, <1>2 DEF ServerInv

\* Only a connection that was not destroyed has a timer.
LEMMA TimerFiresKeeps ==
  ASSUME NEW kind \in {"alive", "timeout"}, NEW c \in Conns,
         ServerInv, TimerFires(kind, c)
  PROVE  ServerInv'
<1>1. TypeOK'
  BY ThreadsDiffer DEF ServerInv, TypeOK, TimerFires, HasTimer, locks,
     connVars
<1>2. CallersRun'
  BY ThreadsDiffer DEF ServerInv, TypeOK, CallersRun, TimerFires, HasTimer,
     locks, connVars
<1>3. ManagerLocked'
  BY ThreadsDiffer DEF ServerInv, TypeOK, ManagerLocked, SharersUse, Removing,
     TimerFires, HasTimer, locks, connVars
<1>4. ConnectionsLocked'
  BY ThreadsDiffer DEF ServerInv, TypeOK, ConnectionsLocked, Removing,
     TimerFires, HasTimer, locks, connVars
<1>5. CheckedLives'
  BY ThreadsDiffer DEF ServerInv, TypeOK, CheckedLives, RegisteredRun,
     StartingIsNew, ManagerLocked, Removing, TimerFires, HasTimer, locks,
     connVars
<1>6. (CallsAreFormed /\ SharersUse /\ RegisteredRun /\ StartingIsNew)'
  BY DEF ServerInv, CallsAreFormed, SharersUse, RegisteredRun, StartingIsNew,
     TimerFires, HasTimer, locks, connVars
<1>. QED
  BY <1>1, <1>2, <1>3, <1>4, <1>5, <1>6 DEF ServerInv

\* The alive check runs for a connection that was started.
LEMMA AliveCheckKeeps ==
  ASSUME ServerInv, AliveCheck
  PROVE  ServerInv'
<1>1. TypeOK'
  BY ThreadsDiffer DEF ServerInv, TypeOK, AliveCheck, TimerMoves
<1>2. CallersRun'
  BY ThreadsDiffer DEF ServerInv, TypeOK, CallersRun, AliveCheck, TimerMoves
<1>3. ManagerLocked'
  BY ThreadsDiffer DEF ServerInv, TypeOK, ManagerLocked, SharersUse, Removing,
     AliveCheck, TimerMoves
<1>4. ConnectionsLocked'
  BY ThreadsDiffer DEF ServerInv, TypeOK, ConnectionsLocked, Removing,
     AliveCheck, TimerMoves
<1>5. CheckedLives'
  BY ThreadsDiffer DEF ServerInv, TypeOK, CheckedLives, RegisteredRun,
     StartingIsNew, ManagerLocked, Removing, AliveCheck, TimerMoves
<1>6. (CallsAreFormed /\ SharersUse /\ RegisteredRun /\ StartingIsNew)'
  BY DEF ServerInv, CallsAreFormed, SharersUse, RegisteredRun, StartingIsNew,
     AliveCheck, TimerMoves
<1>. QED
  BY <1>1, <1>2, <1>3, <1>4, <1>5, <1>6 DEF ServerInv

\* The connection is unregistered while nobody shares the lock and uses it.
LEMMA EraseKeeps ==
  ASSUME ServerInv, Erase
  PROVE  ServerInv'
<1>1. TypeOK'
  BY ThreadsDiffer DEF ServerInv, TypeOK, Erase, TimerMoves
<1>2. CallersRun'
  BY ThreadsDiffer DEF ServerInv, TypeOK, CallersRun, Erase, TimerMoves
<1>3. SharersUse'
  BY ThreadsDiffer DEF ServerInv, TypeOK, SharersUse, CallsAreFormed,
     ManagerLocked, RegisteredRun, Erase, TimerMoves
<1>4. ManagerLocked'
  BY ThreadsDiffer DEF ServerInv, TypeOK, ManagerLocked, SharersUse, Removing,
     Erase, TimerMoves
<1>5. ConnectionsLocked'
  BY ThreadsDiffer DEF ServerInv, TypeOK, ConnectionsLocked, Removing, Erase,
     TimerMoves
<1>6. RegisteredRun'
  BY ThreadsDiffer DEF ServerInv, TypeOK, RegisteredRun, StartingIsNew,
     CheckedLives, ManagerLocked, Removing, Erase, TimerMoves
<1>7. CheckedLives'
  BY ThreadsDiffer DEF ServerInv, TypeOK, CheckedLives, RegisteredRun,
     StartingIsNew, ManagerLocked, Removing, Erase, TimerMoves
<1>8. (CallsAreFormed /\ StartingIsNew)'
  BY DEF ServerInv, CallsAreFormed, StartingIsNew, Erase, TimerMoves
<1>. QED
  BY <1>1, <1>2, <1>3, <1>4, <1>5, <1>6, <1>7, <1>8 DEF ServerInv

\* Stopping only sets flags.
LEMMA StopThreadsKeeps ==
  ASSUME ServerInv, StopThreads
  PROVE  ServerInv'
<1>1. TypeOK'
  BY ThreadsDiffer DEF ServerInv, TypeOK, StopThreads, TimerMoves
<1>2. CallersRun'
  BY ThreadsDiffer DEF ServerInv, TypeOK, CallersRun, StopThreads, TimerMoves
<1>3. ManagerLocked'
  BY ThreadsDiffer DEF ServerInv, TypeOK, ManagerLocked, SharersUse, Removing,
     StopThreads, TimerMoves
<1>4. ConnectionsLocked'
  BY ThreadsDiffer DEF ServerInv, TypeOK, ConnectionsLocked, Removing,
     StopThreads, TimerMoves
<1>5. CheckedLives'
  BY ThreadsDiffer DEF ServerInv, TypeOK, CheckedLives, RegisteredRun,
     StartingIsNew, ManagerLocked, Removing, StopThreads, TimerMoves
<1>6. (CallsAreFormed /\ SharersUse /\ RegisteredRun /\ StartingIsNew)'
  BY DEF ServerInv, CallsAreFormed, SharersUse, RegisteredRun, StartingIsNew,
     StopThreads, TimerMoves
<1>. QED
  BY <1>1, <1>2, <1>3, <1>4, <1>5, <1>6 DEF ServerInv

\* Joining changes only the timer thread's place.
LEMMA JoinWriterKeeps ==
  ASSUME ServerInv, JoinWriter
  PROVE  ServerInv'
<1>1. TypeOK'
  BY ThreadsDiffer DEF ServerInv, TypeOK, JoinWriter, TimerMoves
<1>2. CallersRun'
  BY ThreadsDiffer DEF ServerInv, TypeOK, CallersRun, JoinWriter, TimerMoves
<1>3. ManagerLocked'
  BY ThreadsDiffer DEF ServerInv, TypeOK, ManagerLocked, SharersUse, Removing,
     JoinWriter, TimerMoves
<1>4. ConnectionsLocked'
  BY ThreadsDiffer DEF ServerInv, TypeOK, ConnectionsLocked, Removing,
     JoinWriter, TimerMoves
<1>5. CheckedLives'
  BY ThreadsDiffer DEF ServerInv, TypeOK, CheckedLives, RegisteredRun,
     StartingIsNew, ManagerLocked, Removing, JoinWriter, TimerMoves
<1>6. (CallsAreFormed /\ SharersUse /\ RegisteredRun /\ StartingIsNew)'
  BY DEF ServerInv, CallsAreFormed, SharersUse, RegisteredRun, StartingIsNew,
     JoinWriter, TimerMoves
<1>. QED
  BY <1>1, <1>2, <1>3, <1>4, <1>5, <1>6 DEF ServerInv

\* Joining changes only the timer thread's place.
LEMMA JoinReaderKeeps ==
  ASSUME ServerInv, JoinReader
  PROVE  ServerInv'
<1>1. TypeOK'
  BY ThreadsDiffer DEF ServerInv, TypeOK, JoinReader, TimerMoves
<1>2. CallersRun'
  BY ThreadsDiffer DEF ServerInv, TypeOK, CallersRun, JoinReader, TimerMoves
<1>3. ManagerLocked'
  BY ThreadsDiffer DEF ServerInv, TypeOK, ManagerLocked, SharersUse, Removing,
     JoinReader, TimerMoves
<1>4. ConnectionsLocked'
  BY ThreadsDiffer DEF ServerInv, TypeOK, ConnectionsLocked, Removing,
     JoinReader, TimerMoves
<1>5. CheckedLives'
  BY ThreadsDiffer DEF ServerInv, TypeOK, CheckedLives, RegisteredRun,
     StartingIsNew, ManagerLocked, Removing, JoinReader, TimerMoves
<1>6. (CallsAreFormed /\ SharersUse /\ RegisteredRun /\ StartingIsNew)'
  BY DEF ServerInv, CallsAreFormed, SharersUse, RegisteredRun, StartingIsNew,
     JoinReader, TimerMoves
<1>. QED
  BY <1>1, <1>2, <1>3, <1>4, <1>5, <1>6 DEF ServerInv

\* What is destroyed was unregistered before.
LEMMA DestroyKeeps ==
  ASSUME ServerInv, Destroy
  PROVE  ServerInv'
<1>1. TypeOK'
  BY ThreadsDiffer DEF ServerInv, TypeOK, Destroy, TimerMoves
<1>2. CallersRun'
  BY ThreadsDiffer DEF ServerInv, TypeOK, CallersRun, Destroy, TimerMoves
<1>3. ManagerLocked'
  BY ThreadsDiffer DEF ServerInv, TypeOK, ManagerLocked, SharersUse, Removing,
     Destroy, TimerMoves
<1>4. ConnectionsLocked'
  BY ThreadsDiffer DEF ServerInv, TypeOK, ConnectionsLocked, Removing,
     Destroy, TimerMoves
<1>5. RegisteredRun'
  BY ThreadsDiffer DEF ServerInv, TypeOK, RegisteredRun, StartingIsNew,
     CheckedLives, ManagerLocked, Removing, Destroy, TimerMoves
<1>6. StartingIsNew'
  BY ThreadsDiffer DEF ServerInv, TypeOK, StartingIsNew, CheckedLives,
     RegisteredRun, Removing, Destroy, TimerMoves
<1>7. CheckedLives'
  BY ThreadsDiffer DEF ServerInv, TypeOK, CheckedLives, RegisteredRun,
     StartingIsNew, ManagerLocked, Removing, Destroy, TimerMoves
<1>8. (CallsAreFormed /\ SharersUse)'
  BY DEF ServerInv, CallsAreFormed, SharersUse, Destroy, TimerMoves
<1>. QED
  BY <1>1, <1>2, <1>3, <1>4, <1>5, <1>6, <1>7, <1>8 DEF ServerInv

\* The timer thread enters callbacks with the table's mutex.
LEMMA ScanTableKeeps ==
  ASSUME ServerInv, ScanTable
  PROVE  ServerInv'
<1>1. TypeOK'
  BY ThreadsDiffer DEF ServerInv, TypeOK, ScanTable, TimerMoves
<1>2. CallersRun'
  BY ThreadsDiffer DEF ServerInv, TypeOK, CallersRun, ScanTable, TimerMoves
<1>3. ManagerLocked'
  BY ThreadsDiffer DEF ServerInv, TypeOK, ManagerLocked, SharersUse, Removing,
     ScanTable, TimerMoves
<1>4. ConnectionsLocked'
  BY ThreadsDiffer DEF ServerInv, TypeOK, ConnectionsLocked, Removing,
     ScanTable, TimerMoves
<1>5. CheckedLives'
  BY ThreadsDiffer DEF ServerInv, TypeOK, CheckedLives, RegisteredRun,
     StartingIsNew, ManagerLocked, Removing, ScanTable, TimerMoves
<1>6. (CallsAreFormed /\ SharersUse /\ RegisteredRun /\ StartingIsNew)'
  BY DEF ServerInv, CallsAreFormed, SharersUse, RegisteredRun, StartingIsNew,
     ScanTable, TimerMoves
<1>. QED
  BY <1>1, <1>2, <1>3, <1>4, <1>5, <1>6 DEF ServerInv

\* The callbacks have returned, and so have their calls.
LEMMA TableScannedKeeps ==
  ASSUME ServerInv, TableScanned
  PROVE  ServerInv'
<1>1. TypeOK'
  BY ThreadsDiffer DEF ServerInv, TypeOK, TableScanned, TimerMoves
<1>2. CallersRun'
  BY ThreadsDiffer DEF ServerInv, TypeOK, CallersRun, TableScanned, TimerMoves
<1>3. ManagerLocked'
  BY ThreadsDiffer DEF ServerInv, TypeOK, ManagerLocked, SharersUse, Removing,
     TableScanned, TimerMoves
<1>4. ConnectionsLocked'
  BY ThreadsDiffer DEF ServerInv, TypeOK, ConnectionsLocked, Removing,
     TableScanned, TimerMoves
<1>5. CheckedLives'
  BY ThreadsDiffer DEF ServerInv, TypeOK, CheckedLives, RegisteredRun,
     StartingIsNew, ManagerLocked, Removing, TableScanned, TimerMoves
<1>6. (CallsAreFormed /\ SharersUse /\ RegisteredRun /\ StartingIsNew)'
  BY DEF ServerInv, CallsAreFormed, SharersUse, RegisteredRun, StartingIsNew,
     TableScanned, TimerMoves
<1>. QED
  BY <1>1, <1>2, <1>3, <1>4, <1>5, <1>6 DEF ServerInv

\* The timer thread enters callbacks with the queue's mutex.
LEMMA ScanQueueKeeps ==
  ASSUME ServerInv, ScanQueue
  PROVE  ServerInv'
<1>1. TypeOK'
  BY ThreadsDiffer DEF ServerInv, TypeOK, ScanQueue, TimerMoves
<1>2. CallersRun'
  BY ThreadsDiffer DEF ServerInv, TypeOK, CallersRun, ScanQueue, TimerMoves
<1>3. ManagerLocked'
  BY ThreadsDiffer DEF ServerInv, TypeOK, ManagerLocked, SharersUse, Removing,
     ScanQueue, TimerMoves
<1>4. ConnectionsLocked'
  BY ThreadsDiffer DEF ServerInv, TypeOK, ConnectionsLocked, Removing,
     ScanQueue, TimerMoves
<1>5. CheckedLives'
  BY ThreadsDiffer DEF ServerInv, TypeOK, CheckedLives, RegisteredRun,
     StartingIsNew, ManagerLocked, Removing, ScanQueue, TimerMoves
<1>6. (CallsAreFormed /\ SharersUse /\ RegisteredRun /\ StartingIsNew)'
  BY DEF ServerInv, CallsAreFormed, SharersUse, RegisteredRun, StartingIsNew,
     ScanQueue, TimerMoves
<1>. QED
  BY <1>1, <1>2, <1>3, <1>4, <1>5, <1>6 DEF ServerInv

\* The callbacks have returned, and so have their calls.
LEMMA QueueScannedKeeps ==
  ASSUME ServerInv, QueueScanned
  PROVE  ServerInv'
<1>1. TypeOK'
  BY ThreadsDiffer DEF ServerInv, TypeOK, QueueScanned, TimerMoves
<1>2. CallersRun'
  BY ThreadsDiffer DEF ServerInv, TypeOK, CallersRun, QueueScanned, TimerMoves
<1>3. ManagerLocked'
  BY ThreadsDiffer DEF ServerInv, TypeOK, ManagerLocked, SharersUse, Removing,
     QueueScanned, TimerMoves
<1>4. ConnectionsLocked'
  BY ThreadsDiffer DEF ServerInv, TypeOK, ConnectionsLocked, Removing,
     QueueScanned, TimerMoves
<1>5. CheckedLives'
  BY ThreadsDiffer DEF ServerInv, TypeOK, CheckedLives, RegisteredRun,
     StartingIsNew, ManagerLocked, Removing, QueueScanned, TimerMoves
<1>6. (CallsAreFormed /\ SharersUse /\ RegisteredRun /\ StartingIsNew)'
  BY DEF ServerInv, CallsAreFormed, SharersUse, RegisteredRun, StartingIsNew,
     QueueScanned, TimerMoves
<1>. QED
  BY <1>1, <1>2, <1>3, <1>4, <1>5, <1>6 DEF ServerInv

-----------------------------------------------------------------------------

\* Every step keeps the invariant.
LEMMA ServerStep == ServerInv /\ [Next]_vars => ServerInv'
<1>. SUFFICES ASSUME ServerInv, [Next]_vars PROVE ServerInv'
  OBVIOUS
<1>1. CASE \E c \in Conns : Construct(c) \/ StartConnection(c) \/ StartFails(c)
  BY <1>1, ConstructKeeps, StartConnectionKeeps, StartFailsKeeps
<1>2. CASE \E c \in Conns : ReaderStep(c)
  BY <1>2, ReaderTakesKeeps, ReaderLooksUpKeeps, HandlerReturnsKeeps,
     ReaderMatchesKeeps, CallbackReturnsKeeps, ReaderLeavesKeeps
  DEF ReaderStep
<1>3. CASE \E c \in Conns : WriterStep(c)
  BY <1>3, WriterPopsKeeps, WriterIsReadyKeeps, WriterRegistersKeeps,
     WriterLeavesKeeps
  DEF WriterStep
<1>4. CASE RegisterConnection
  BY <1>4, RegisterConnectionKeeps
<1>5. CASE \E t \in Callers : Call(t) \/ CallStep(t)
  BY <1>5, CallKeeps, EnterKeeps, UseQueueKeeps, UseTableKeeps,
     RegisterProcessorKeeps
  DEF CallStep
<1>6. CASE TimerStep
  <2>1. CASE \E kind \in {"alive", "timeout"}, c \in Conns : TimerFires(kind, c)
    BY <2>1, TimerFiresKeeps
  <2>2. CASE AliveCheck \/ Erase \/ StopThreads
    BY <2>2, AliveCheckKeeps, EraseKeeps, StopThreadsKeeps
  <2>3. CASE JoinWriter \/ JoinReader \/ Destroy
    BY <2>3, JoinWriterKeeps, JoinReaderKeeps, DestroyKeeps
  <2>4. CASE ScanTable \/ TableScanned \/ ScanQueue \/ QueueScanned
    BY <2>4, ScanTableKeeps, TableScannedKeeps, ScanQueueKeeps,
       QueueScannedKeeps
  <2>. QED
    BY <1>6, <2>1, <2>2, <2>3, <2>4 DEF TimerStep
<1>7. CASE UNCHANGED vars
  BY <1>7
  DEF vars, ServerInv, TypeOK, CallsAreFormed, CallersRun, SharersUse,
      ManagerLocked, ConnectionsLocked, RegisteredRun, StartingIsNew,
      CheckedLives
<1>. QED
  BY <1>1, <1>2, <1>3, <1>4, <1>5, <1>6, <1>7 DEF Next

\* ServerInv is an invariant of the server.
THEOREM ServerInvariant == Spec => []ServerInv
BY ServerInit, ServerStep, PTL DEF Spec

\* The state of the server keeps its types, and whoever runs a handler, and
\* nobody else, holds req_processors_mutex, for any number of connections.
THEOREM ServerTypes == Spec => []TypeOK
<1>1. ServerInv => TypeOK
  BY DEF ServerInv
<1>. QED
  BY <1>1, ServerInvariant, PTL

\* No call of the manager and no check of the timer thread uses a connection
\* that on_disconnected destroys, whatever handlers and callbacks call.
THEOREM NoUseAfterRemoval == Spec => []UsedIsAlive
<1>1. ServerInv => UsedIsAlive
  BY DEF ServerInv, SharersUse, RegisteredRun, CheckedLives, UsedIsAlive,
     TypeOK, CallsAreFormed
<1>. QED
  BY <1>1, ServerInvariant, PTL

-----------------------------------------------------------------------------
(* Circles                                                                 *)

\* Handlers and callbacks do not take the mutex they are called under.
NoReentry ==
  HandlerCalls \subseteq {"send", "cancel"} /\ CallbackCalls \subseteq {"send"}

\* A thread that runs a callback waits for the timer thread only, and only
\* while that removes a connection or runs the callbacks of a queue.
LEMMA CallbackAwaits ==
  ASSUME NoReentry, ServerInv, NEW c \in Conns, reader[c] = "callback",
         NEW u \in Threads, Awaits(R(c), u)
  PROVE  u = Timer /\ api[R(c)] # None /\ tpc \in Removing \cup {"queueCb"}
<1>1. \A d \in Conns : R(c) # W(d) /\ R(c) # Acceptor
  BY DEF R, W, Acceptor
<1>2. ~NeedsExclusive(R(c))
  BY <1>1, ThreadsDiffer DEF NeedsExclusive
<1>3. ~NeedsProcs(R(c))
  BY ThreadsDiffer
  DEF NeedsProcs, Calling, NoReentry, ServerInv, CallersRun
<1>4. ASSUME NEW d \in Conns PROVE ~NeedsTable(R(c), d)
  BY <1>1, ThreadsDiffer
  DEF NeedsTable, Calling, NoReentry, ServerInv, CallersRun
<1>5. \/ u = mgrLock /\ NeedsShared(R(c))
      \/ \E d \in Conns : u = queueLock[d] /\ NeedsQueue(R(c), d)
  BY <1>2, <1>3, <1>4, ThreadsDiffer DEF Awaits
<1>6. CASE u = mgrLock /\ NeedsShared(R(c))
  BY <1>6, NoneAssumption
  DEF NeedsShared, Calling, ServerInv, TypeOK, ManagerLocked
<1>7. CASE \E d \in Conns : u = queueLock[d] /\ NeedsQueue(R(c), d)
  BY <1>1, <1>7, NoneAssumption, ThreadsDiffer
  DEF NeedsQueue, Calling, ServerInv, TypeOK, ConnectionsLocked
<1>. QED
  BY <1>5, <1>6, <1>7

\* A thread that runs a handler waits for the timer thread, which removes or
\* runs callbacks, or for a thread that runs a callback.
LEMMA HandlerAwaits ==
  ASSUME NoReentry, ServerInv, NEW c \in Conns, reader[c] = "handler",
         NEW u \in Threads, Awaits(R(c), u)
  PROVE  /\ api[R(c)] # None
         /\ \/ u = Timer /\ tpc \in Removing \cup {"queueCb", "tableCb"}
            \/ \E d \in Conns : u = R(d) /\ reader[d] = "callback"
<1>1. \A d \in Conns : R(c) # W(d) /\ R(c) # Acceptor
  BY DEF R, W, Acceptor
<1>2. ~NeedsExclusive(R(c))
  BY <1>1, ThreadsDiffer DEF NeedsExclusive
<1>3. ~NeedsProcs(R(c))
  BY ThreadsDiffer
  DEF NeedsProcs, Calling, NoReentry, ServerInv, CallersRun
<1>4. \/ u = mgrLock /\ NeedsShared(R(c))
      \/ \E d \in Conns : u = queueLock[d] /\ NeedsQueue(R(c), d)
      \/ \E d \in Conns : u = tableLock[d] /\ NeedsTable(R(c), d)
  BY <1>2, <1>3, ThreadsDiffer DEF Awaits
<1>5. CASE u = mgrLock /\ NeedsShared(R(c))
  BY <1>5, NoneAssumption
  DEF NeedsShared, Calling, ServerInv, TypeOK, ManagerLocked
<1>6. CASE \E d \in Conns : u = queueLock[d] /\ NeedsQueue(R(c), d)
  BY <1>1, <1>6, NoneAssumption, ThreadsDiffer
  DEF NeedsQueue, Calling, ServerInv, TypeOK, ConnectionsLocked
<1>7. CASE \E d \in Conns : u = tableLock[d] /\ NeedsTable(R(c), d)
  <2>1. PICK d \in Conns : u = tableLock[d] /\ NeedsTable(R(c), d)
    BY <1>7
  <2>2. api[R(c)] # None
    BY <1>1, <2>1, ThreadsDiffer DEF NeedsTable, Calling
  <2>3. CASE u = Timer
    BY <2>1, <2>2, <2>3 DEF ServerInv, ConnectionsLocked
  <2>4. ASSUME NEW e \in Conns, u = R(e)
        PROVE  u = R(d) /\ reader[d] = "callback"
    BY <2>1, <2>4, ZenonT(60) DEF ServerInv, ConnectionsLocked
  <2>. QED
    BY <2>1, <2>2, <2>3, <2>4, NoneAssumption DEF ServerInv, TypeOK
<1>. QED
  BY <1>4, <1>5, <1>6, <1>7

\* A thread that runs neither, and waits, waits for one that runs a handler, or
\* for the timer thread in the callbacks of its connection's table.
LEMMA ReaderAwaits ==
  ASSUME NoReentry, ServerInv, NEW c \in Conns,
         reader[c] \notin {"handler", "callback"},
         NEW u \in Threads, Awaits(R(c), u)
  PROVE  \/ \E d \in Conns : u = R(d) /\ reader[d] = "handler"
         \/ u = Timer /\ tpc = "tableCb"
<1>1. \A d \in Conns : R(c) # W(d) /\ R(c) # Acceptor
  BY DEF R, W, Acceptor
<1>2. api[R(c)] = None
  BY DEF ServerInv, CallersRun
<1>3. ~NeedsExclusive(R(c)) /\ ~NeedsShared(R(c))
  BY <1>1, <1>2, ThreadsDiffer DEF NeedsExclusive, NeedsShared, Calling
<1>4. \A d \in Conns : ~NeedsQueue(R(c), d)
  BY <1>1, <1>2, ThreadsDiffer DEF NeedsQueue, Calling
<1>5. \/ u = procLock /\ NeedsProcs(R(c))
      \/ \E d \in Conns : u = tableLock[d] /\ NeedsTable(R(c), d)
  BY <1>3, <1>4, ThreadsDiffer DEF Awaits
<1>6. CASE u = procLock /\ NeedsProcs(R(c))
  BY <1>6, NoneAssumption DEF ServerInv, TypeOK
<1>7. CASE \E d \in Conns : u = tableLock[d] /\ NeedsTable(R(c), d)
  <2>1. u = tableLock[c] /\ reader[c] = "match"
    BY <1>1, <1>2, <1>7, ThreadsDiffer DEF NeedsTable, Calling
  <2>2. \A d \in Conns : u # R(d)
    BY <2>1 DEF ServerInv, ConnectionsLocked
  <2>. QED
    BY <2>1, <2>2, NoneAssumption DEF ServerInv, TypeOK, ConnectionsLocked
<1>. QED
  BY <1>5, <1>6, <1>7

\* A circle without the timer thread, or while that neither removes nor runs
\* callbacks, has no reading thread in it.
LEMMA NoCircleOfReaders ==
  ASSUME NoReentry, ServerInv, NEW S \in SUBSET Threads, Circle(S),
         Timer \notin S \/ tpc \notin Removing \cup {"tableCb", "queueCb"},
         NEW c \in Conns
  PROVE  R(c) \notin S
<1>1. \A d \in Conns : R(d) \in S => reader[d] # "callback"
  BY CallbackAwaits DEF Circle
<1>2. \A d \in Conns : R(d) \in S => reader[d] # "handler"
  BY <1>1, HandlerAwaits DEF Circle
<1>. QED
  BY <1>1, <1>2, ReaderAwaits DEF Circle

\* The timer thread is in every circle: without it no reading thread is in one,
\* and the others hold nothing another one of them waits for.
LEMMA NoCircleWithoutTimer ==
  ASSUME NoReentry, ServerInv, NEW S \in SUBSET Threads, Circle(S)
  PROVE  Timer \in S
<1>. SUFFICES ASSUME Timer \notin S PROVE FALSE
  OBVIOUS
<1>1. \A c \in Conns : R(c) \notin S
  BY NoCircleOfReaders
<1>2. None \notin S
  BY NoneAssumption
<1>3. /\ mgrLock \notin S /\ procLock \notin S
      /\ \A c \in Conns : queueLock[c] \notin S /\ tableLock[c] \notin S
  <2>1. mgrLock \notin S /\ procLock \notin S
    BY <1>1, <1>2 DEF ServerInv, TypeOK
  <2>2. ASSUME NEW c \in Conns
        PROVE  queueLock[c] \notin S /\ tableLock[c] \notin S
    <3>1. queueLock[c] \in {None, Timer}
      BY DEF ServerInv, TypeOK
    <3>2. tableLock[c] \in {None, Timer} \cup {R(d) : d \in Conns}
      BY DEF ServerInv, TypeOK
    <3>. QED
      BY <1>1, <1>2, <3>1, <3>2
  <2>. QED
    BY <2>1, <2>2
<1>4. ASSUME NEW t \in S, NEW u \in S, Awaits(t, u)
      PROVE  t = Acceptor /\ u = App /\ App \in sharers
  <2>1. u \in sharers /\ NeedsExclusive(t)
    BY <1>3, <1>4 DEF Awaits
  <2>2. u = App
    BY <1>1, <2>1, ThreadsDiffer DEF ServerInv, TypeOK
  <2>. QED
    BY <2>1, <2>2 DEF NeedsExclusive
<1>5. App # Acceptor
  BY DEF App, Acceptor
<1>. QED
  BY <1>4, <1>5 DEF Circle

\* Threads wait for each other in circles in the three known cases only, for
\* any number of connections, if handlers register no processors and callbacks
\* only send.
THEOREM OnlyKnownCircles ==
  ASSUME NoReentry
  PROVE  Spec => []CirclesAreKnown
<1>1. ASSUME ServerInv PROVE CirclesAreKnown
  <2>. SUFFICES ASSUME NEW S \in SUBSET Threads, Circle(S)
                PROVE  /\ Timer \in S
                       /\ \/ /\ tpc = "joinR"
                             /\ \E c \in Conns : R(c) \in S /\ api[R(c)] # None
                          \/ /\ tpc = "joinW" /\ writer[tconn] = "register"
                             /\ reader[tconn] = "callback"
                             /\ api[R(tconn)] # None
                          \/ /\ tpc = "queueCb" /\ api[Timer] # None
                             /\ api[Timer].conn = tconn
    BY DEF CirclesAreKnown, Blocked
  <2>1. Timer \in S
    BY <1>1, NoCircleWithoutTimer
  <2>2. PICK u \in S : Awaits(Timer, u)
    BY <2>1 DEF Circle
  <2>3. u # None /\ u \in Threads
    BY NoneAssumption
  <2>4. \A c \in Conns : Timer # W(c) /\ Timer # Acceptor
    BY DEF Timer, W, Acceptor
  <2>5. CASE tpc = "queueCb"
    BY <1>1, <2>2, <2>3, <2>4, <2>5, ThreadsDiffer
    DEF Awaits, NeedsShared, NeedsExclusive, NeedsProcs, NeedsQueue, NeedsTable,
        Calling, NoReentry, ServerInv, TypeOK, CallersRun, ManagerLocked,
        ConnectionsLocked, Removing
  <2>6. CASE tpc = "joinW"
    <3>1. tconn \in Conns /\ api[Timer] = None
      BY <1>1, <2>6 DEF ServerInv, TypeOK, CallersRun
    <3>2. u = W(tconn)
      BY <2>2, <2>4, <2>6, <3>1, ThreadsDiffer
      DEF Awaits, NeedsShared, NeedsExclusive, NeedsProcs, NeedsQueue,
          NeedsTable, Calling
    <3>3. PICK v \in S : Awaits(W(tconn), v)
      BY <3>2 DEF Circle
    <3>4. W(tconn) \notin Callers /\ W(tconn) # Timer /\ W(tconn) # Acceptor
          /\ \A c \in Conns : W(tconn) = W(c) => c = tconn
      BY DEF W, Callers, Timer, App, R, Acceptor
    <3>5. \/ v = queueLock[tconn] /\ writer[tconn] = "idle"
          \/ v = tableLock[tconn] /\ writer[tconn] = "register"
      BY <3>3, <3>4, ThreadsDiffer
      DEF Awaits, NeedsShared, NeedsExclusive, NeedsProcs, NeedsQueue,
          NeedsTable
    <3>6. v = tableLock[tconn] /\ writer[tconn] = "register"
      BY <1>1, <2>6, <3>1, <3>5, NoneAssumption
      DEF ServerInv, TypeOK, ConnectionsLocked
    <3>7. v = R(tconn) /\ reader[tconn] = "callback"
      BY <1>1, <2>6, <3>1, <3>6, NoneAssumption
      DEF ServerInv, TypeOK, ConnectionsLocked
    <3>8. PICK w \in S : Awaits(R(tconn), w)
      BY <3>7 DEF Circle
    <3>9. api[R(tconn)] # None
      BY <1>1, <3>1, <3>7, <3>8, CallbackAwaits
    <3>. QED
      BY <2>1, <2>6, <3>6, <3>7, <3>9
  <2>7. CASE tpc = "joinR"
    <3>1. tconn \in Conns /\ api[Timer] = None
      BY <1>1, <2>7 DEF ServerInv, TypeOK, CallersRun
    <3>2. u = R(tconn)
      BY <2>2, <2>4, <2>7, <3>1, ThreadsDiffer
      DEF Awaits, NeedsShared, NeedsExclusive, NeedsProcs, NeedsQueue,
          NeedsTable, Calling
    <3>3. ASSUME NEW c \in Conns, R(c) \in S,
                 reader[c] \in {"handler", "callback"}
          PROVE  api[R(c)] # None
      BY <1>1, <3>3, CallbackAwaits, HandlerAwaits DEF Circle
    <3>4. \E c \in Conns :
            R(c) \in S /\ reader[c] \in {"handler", "callback"}
      BY <1>1, <2>7, <3>1, <3>2, ReaderAwaits DEF Circle
    <3>. QED
      BY <2>1, <2>7, <3>3, <3>4
  <2>8. CASE tpc = "erase"
    <3>1. api[Timer] = None
      BY <1>1, <2>8 DEF ServerInv, CallersRun
    <3>2. u \in sharers
      BY <1>1, <2>2, <2>3, <2>4, <2>8, <3>1, ThreadsDiffer
      DEF Awaits, NeedsShared, NeedsProcs, NeedsQueue, NeedsTable, Calling,
          ServerInv, TypeOK, ManagerLocked, Removing
    <3>3. \A c \in Conns : R(c) \notin S
      BY <1>1, <2>8, NoCircleOfReaders DEF Removing
    <3>4. u = App
      BY <1>1, <3>1, <3>2, <3>3, ThreadsDiffer
      DEF ServerInv, TypeOK, SharersUse
    <3>5. PICK v \in S : Awaits(App, v)
      BY <3>4 DEF Circle
    <3>6. App # Acceptor /\ \A c \in Conns : App # W(c)
      BY DEF App, W, Acceptor
    <3>7. api[App].at # "enter"
      BY <1>1, <3>2, <3>4, ThreadsDiffer DEF ServerInv, SharersUse
    <3>8. ~NeedsShared(App) /\ ~NeedsExclusive(App) /\ ~NeedsProcs(App)
      BY <3>6, <3>7, ThreadsDiffer
      DEF NeedsShared, NeedsExclusive, NeedsProcs, Calling
    <3>9. \E c \in Conns : v = queueLock[c] \/ v = tableLock[c]
      BY <3>5, <3>6, <3>8, ThreadsDiffer DEF Awaits
    <3>10. v # Timer /\ v # None
      BY <1>1, <2>8, <3>9, NoneAssumption
      DEF ServerInv, TypeOK, ConnectionsLocked
    <3>. QED
      BY <1>1, <3>3, <3>9, <3>10 DEF ServerInv, TypeOK
  <2>9. CASE tpc \in {"timeout", "queue"}
    <3>1. api[Timer] = None /\ tconn \in Conns
      BY <1>1, <2>9 DEF ServerInv, TypeOK, CallersRun
    <3>2. u = queueLock[tconn] \/ u = tableLock[tconn]
      BY <2>2, <2>4, <2>9, <3>1, ThreadsDiffer
      DEF Awaits, NeedsShared, NeedsExclusive, NeedsProcs, NeedsQueue,
          NeedsTable, Calling
    <3>3. \A c \in Conns : R(c) \notin S
      BY <1>1, <2>9, NoCircleOfReaders DEF Removing
    <3>4. u # Timer
      BY <1>1, <2>9, <3>1, <3>2, ThreadsDiffer
      DEF ServerInv, ConnectionsLocked
    <3>. QED
      BY <1>1, <2>3, <3>1, <3>2, <3>3, <3>4 DEF ServerInv, TypeOK
  <2>10. CASE tpc \in {"idle", "alive", "stop", "lifetime", "tableCb"}
    BY <1>1, <2>2, <2>3, <2>4, <2>10, ThreadsDiffer
    DEF Awaits, NeedsShared, NeedsExclusive, NeedsProcs, NeedsQueue, NeedsTable,
        Calling, NoReentry, ServerInv, TypeOK, CallersRun, ManagerLocked,
        ConnectionsLocked, Removing
  <2>. QED
    BY <1>1, <2>5, <2>6, <2>7, <2>8, <2>9, <2>10 DEF ServerInv, TypeOK
<1>. QED
  BY <1>1, ServerInvariant, PTL

=============================================================================
