---------------------------- MODULE MCDescriptors ----------------------------
(***************************************************************************)
(* The two users of descriptors whose numbers the kernel gives out again:  *)
(* the timer manager (TimerMgr, whose names are used as they are) and the  *)
(* listener (Listener, whose properties are named here).  A behaviour is   *)
(* one of one of them, chosen by part; the other rests.  Each meets the    *)
(* rest of the process as "other" descriptors.                             *)
(***************************************************************************)
EXTENDS TimerMgr

CONSTANTS
  t1, t2, t3,
  ListenerFds,      \* MaxFd of the listener
  Clients,          \* those who connect to it
  ListenerFaults    \* what may go wrong there

\* Two repeated timers and one that is started with once = true.
MCTimers == {t1, t2, t3}
MCOnce == {t3}

VARIABLES
  part,
  l_desc, l_sock, l_waiting, l_answer, l_worker, l_conn, l_mem, l_client,
  l_owner, l_should_stop, l_victims

Accepting == INSTANCE Listener WITH
  MaxFd <- ListenerFds, Faults <- ListenerFaults,
  desc <- l_desc, sock <- l_sock, waiting <- l_waiting, answer <- l_answer,
  lpc <- l_worker, conn <- l_conn, mem <- l_mem, client <- l_client,
  upc <- l_owner, should_stop <- l_should_stop, victims <- l_victims

ASSUME ListenerAssumption == Accepting!ConstantsOK

listenerVars ==
  <<l_desc, l_sock, l_waiting, l_answer, l_worker, l_conn, l_mem, l_client,
    l_owner, l_should_stop, l_victims>>
allVars == <<part, vars, listenerVars>>

DescriptorsInit ==
  /\ part \in {"timers", "listener"}
  /\ Init /\ Accepting!Init

DescriptorsNext ==
  \/ part = "timers" /\ Next /\ UNCHANGED <<part, listenerVars>>
  \/ part = "listener" /\ Accepting!Next /\ UNCHANGED <<part, vars>>

\* The fairness of the part that is active.
DescriptorsFairness ==
  \/ part = "timers" /\ Fairness
  \/ part = "listener" /\ Accepting!Fairness

DescriptorsSpec ==
  DescriptorsInit /\ [][DescriptorsNext]_allVars /\ DescriptorsFairness

-----------------------------------------------------------------------------
(* Properties of Listener                                                  *)

\* listener_t: a connection that was handled leaves no memory file open,
\* another part's descriptor is closed only by the second close after a
\* connection that did not start, and only stop(), or a process without
\* descriptors, ends the loop.
LoopIsSound == Accepting!LoopIsSound

\* listener_t: a client that waits is accepted or the loop has ended, and
\* stop() ends unless the thread is in accept and nobody comes; or else the
\* thread never gets the mutex of the connections.
LoopServes == Accepting!LoopServes

=============================================================================
