------------------------------- MODULE MCLives -------------------------------
(***************************************************************************)
(* What is made and destroyed again: the sessions of a client              *)
(* (ClientSession, whose names are used as they are), the control block of *)
(* a connection (Lifetime), an ipc_client_t (ClientLife) and an            *)
(* ipc_server_t (ServerLife).  A behaviour is one of one of them, chosen   *)
(* by part; the others rest in their initial states.  They share no        *)
(* variable, and no property speaks of two, so that their interleavings    *)
(* would show no more.                                                     *)
(***************************************************************************)
EXTENDS ClientSession

CONSTANTS
  LifeFaults,   \* what may go wrong with the control block
  Conns         \* connections that clients make to the ipc_server_t

VARIABLES
  part,                                                \* whose life it is
  k_server, k_made, k_undone, k_gone, k_stray, k_client, k_lifetime,
  k_reader, k_holder, k_met,                           \* of Lifetime
  c_stage, c_alive, c_born, c_stopping, c_connector, c_fd, c_inited,
  c_session, c_lost, c_timer, c_bad,                   \* of ClientLife
  s_stage, s_alive, s_born, s_flag, s_listener, s_lconn, s_conn, s_timer,
  s_held, s_bad                                        \* of ServerLife

Block == INSTANCE Lifetime WITH
  Faults <- LifeFaults,
  spc <- k_server, made <- k_made, undone <- k_undone, gone <- k_gone,
  stray <- k_stray, cpc <- k_client, lpc <- k_lifetime, rpc <- k_reader,
  holder <- k_holder, met <- k_met

ASSUME LifetimeAssumption == Block!ConstantsOK

Client == INSTANCE ClientLife WITH
  stage <- c_stage, alive <- c_alive, born <- c_born, stopping <- c_stopping,
  cpc <- c_connector, fd <- c_fd, inited <- c_inited, rpc <- c_session,
  lost <- c_lost, tpc <- c_timer, bad <- c_bad

Server == INSTANCE ServerLife WITH
  stage <- s_stage, alive <- s_alive, born <- s_born, flag <- s_flag,
  lpc <- s_listener, lconn <- s_lconn, conn <- s_conn, tpc <- s_timer,
  held <- s_held, bad <- s_bad

ASSUME ServerAssumption == Server!ConstantsOK

blockVars ==
  <<k_server, k_made, k_undone, k_gone, k_stray, k_client, k_lifetime,
    k_reader, k_holder, k_met>>
clientVars ==
  <<c_stage, c_alive, c_born, c_stopping, c_connector, c_fd, c_inited,
    c_session, c_lost, c_timer, c_bad>>
hostVars ==
  <<s_stage, s_alive, s_born, s_flag, s_listener, s_lconn, s_conn, s_timer,
    s_held, s_bad>>
allVars == <<part, vars, blockVars, clientVars, hostVars>>

LivesInit ==
  /\ part \in {"session", "block", "client", "server"}
  /\ Init /\ Block!Init /\ Client!Init /\ Server!Init

LivesNext ==
  \/ part = "session" /\ Next
       /\ UNCHANGED <<part, blockVars, clientVars, hostVars>>
  \/ part = "block" /\ Block!Next
       /\ UNCHANGED <<part, vars, clientVars, hostVars>>
  \/ part = "client" /\ Client!Next
       /\ UNCHANGED <<part, vars, blockVars, hostVars>>
  \/ part = "server" /\ Server!Next
       /\ UNCHANGED <<part, vars, blockVars, clientVars>>

\* The fairness of the life that is lived.
LivesFairness ==
  \/ part = "session" /\ Fairness
  \/ part = "block" /\ Block!Fairness
  \/ part = "client" /\ Client!Fairness
  \/ part = "server" /\ Server!Fairness

LivesSpec == LivesInit /\ [][LivesNext]_allVars /\ LivesFairness

-----------------------------------------------------------------------------
(* Properties of Lifetime, ClientLife and ServerLife                       *)

\* connection_t: the synchronisation objects are there as long as the other
\* side may count on them: start() leaves all behind or none, and none is
\* destroyed under a lifetime thread that had its lock before the server
\* asked for it.
ObjectsAreThere == Block!ObjectsAreThere

\* connection_t: stop() of the server ends, unless the lifetime thread misses
\* the broadcast and sleeps on; that of the client, unless the server
\* destroys the condition on which its reading thread sleeps.
StopsEnd == Block!StopsEnd

\* ipc_client_t and ipc_server_t: the uses of a member outside its life are
\* the known ones.
UsesAreKnown ==
  /\ Client!TypeOK /\ Client!UsesAreKnown
  /\ Server!TypeOK /\ Server!UsesAreKnown

\* ipc_client_t and ipc_server_t: no thread outlives its object, but that of
\* a session or connection made outside the life of what should hold it.
NoThreadOutlives == Client!NoThreadOutlives /\ Server!NoThreadOutlives

\* ipc_client_t and ipc_server_t: the destructor ends, unless a thread is in
\* recvmsg or accept, missed its notification, or waits for a session's
\* threads, which may be in a callback of the user's.
DestructorsEnd == Client!DestructorEnds /\ Server!DestructorEnds

=============================================================================
