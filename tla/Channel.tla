------------------------------- MODULE Channel -------------------------------
(***************************************************************************)
(* One direction of a connection_t pair: the write_proc of one process,    *)
(* the read_proc of the other, the half of the control block they share    *)
(* (a robust mutex, the can_w and can_r conditions, a ring buffer and its  *)
(* memory), the sender's waiting_for_sending_packets, and stop() on either *)
(* side.  c_lock, c_can_w_con, c_can_r_con, c_buf when the client writes,  *)
(* s_lock, s_can_w_con, s_can_r_con, s_buf when the server does.           *)
(*                                                                         *)
(* A condition variable has one possible waiter, so "asleep on it" is a    *)
(* state of that thread; a signal that finds nobody asleep is lost.  The   *)
(* code waits once, with no loop around the wait.  No lock is taken by     *)
(* stop(), which sets the flags and signals while the threads run.         *)
(***************************************************************************)
EXTENDS RingBuffer, Sequences

CONSTANTS
  Foreign,    \* packets whose connection_id is not the connection's
  Env,        \* what the surroundings may do in this instance, see EnvKinds
  Server      \* the side that is the server: "w" or "r"

EnvKinds == {"expire", "stopW", "stopR", "killW", "killR", "spurious"}

ASSUME ForeignAssumption == Foreign \subseteq Packets
ASSUME EnvAssumption == Env \subseteq EnvKinds
ASSUME ServerAssumption == Server \in {"w", "r"}

VARIABLES
  queue,      \* waiting_for_sending_packets of the writing process
  wpc,        \* the writing thread
  inhand,     \* pack_buf of the writing thread, None between iterations
  lastFree,   \* last_free_size
  rpc,        \* the reading thread
  owner,      \* who holds the shared mutex: "w", "r" or "nobody"
  health,     \* "ok", "ownerdead" (EOWNERDEAD next) or "lost" (ENOTRECOVERABLE)
  ring,       \* c_buf or s_buf
  mem,        \* the cells from w_buf on
  wproc,      \* progress of stop() in the writing process
  rproc,      \* progress of stop() in the reading process
  accepted,   \* history: packets given to send_packet
  expired,    \* history: packets cancelled or timed out in the queue
  committed,  \* history: packets in the order of their commit
  consumed    \* history: packets in the order the reader took them out

sendVars == <<queue, accepted, expired>>
sharedVars == <<ring, mem, committed, consumed>>
vars == <<queue, wpc, inhand, lastFree, rpc, owner, health, ring, mem,
          wproc, rproc, accepted, expired, committed, consumed>>

WriterStates ==
  {"fetch", "presleep", "qsleep", "lock", "wsleep", "rewake", "ready",
   "notify", "unlock", "gone"}
ReaderStates ==
  {"top", "lock", "rsleep", "rewake", "process", "handler", "notify",
   "unlock", "gone"}
ProcStates == {"up", "flagged", "notified", "joining", "stopped", "killed"}

\* writing_thread_stopped and reading_thread_stopped
wstop == wproc \notin {"up", "killed"}
rstop == rproc \notin {"up", "killed"}

Init ==
  /\ queue = <<>> /\ wpc = "fetch" /\ inhand = None /\ lastFree = 0
  /\ rpc = "top" /\ owner = "nobody" /\ health = "ok"
  /\ ring = EmptyRing /\ mem = [c \in 0 .. 2 * Capacity - 1 |-> None]
  /\ wproc = "up" /\ rproc = "up"
  /\ accepted = {} /\ expired = {} /\ committed = <<>> /\ consumed = <<>>

-----------------------------------------------------------------------------
(* The robust mutex and the condition variables (pthread).                 *)

\* pthread_mutex_unlock by its holder; nobody called pthread_mutex_consistent.
Release ==
  /\ owner' = "nobody"
  /\ health' = IF health = "ok" THEN "ok" ELSE "lost"

\* Faulty: the mutex is not robust, what its dead holder had stays locked.
AbandonLocked(t) == UNCHANGED <<owner, health>>

\* A thread that ends holds its mutex no more and leaves it ownerdead.
Abandon(t) ==
  IF owner = t THEN owner' = "nobody" /\ health' = "ownerdead"
               ELSE UNCHANGED <<owner, health>>

\* pthread_mutex_lock returned nonzero: break.  After EOWNERDEAD the thread
\* holds the mutex while it ends, so the next one to lock gets EOWNERDEAD too.
LockFails == owner = "nobody" /\ health # "ok"

\* Locking again inside pthread_cond_wait, whose result is ignored.
Reacquire(t) ==
  /\ owner = "nobody"
  /\ owner' = IF health = "lost" THEN "nobody" ELSE t
  /\ health' = health

\* pthread_cond_signal on can_r and can_w
SignalReader == rpc' = IF rpc = "rsleep" THEN "rewake" ELSE rpc
SignalWriter == wpc' = IF wpc = "wsleep" THEN "rewake" ELSE wpc

-----------------------------------------------------------------------------
(* The application and the timer thread of the writing process.            *)

\* send_packet; the queue mutex is held by the writer in "presleep".
Send(p) ==
  /\ wproc # "killed" /\ wpc # "presleep"
  /\ p \notin accepted
  /\ accepted' = accepted \cup {p}
  /\ queue' = Append(queue, p)
  /\ wpc' = IF wpc = "qsleep" THEN "fetch" ELSE wpc
  /\ UNCHANGED <<inhand, lastFree, rpc, owner, health, sharedVars,
                 wproc, rproc, expired>>

\* cancel_sending, or the timeout check, removes a packet not yet popped: a
\* packet sent without a timeout goes at any tick that finds it in front.
Expire(p) ==
  /\ "expire" \in Env
  /\ wproc # "killed" /\ wpc # "presleep"
  /\ \E i \in 1 .. Len(queue) :
       /\ queue[i] = p
       /\ queue' = SubSeq(queue, 1, i - 1) \o SubSeq(queue, i + 1, Len(queue))
  /\ expired' = expired \cup {p}
  /\ UNCHANGED <<accepted, wpc, inhand, lastFree, rpc, owner, health,
                 sharedVars, wproc, rproc>>

-----------------------------------------------------------------------------
(* write_proc                                                              *)

\* The flag is seen at the head of the loop or next to the empty queue.
WriterSeesStop ==
  /\ wpc = "fetch" /\ wstop
  /\ wpc' = "gone"
  /\ UNCHANGED <<sendVars, inhand, lastFree, rpc, owner, health, sharedVars,
                 wproc, rproc>>

\* The wait predicate is evaluated with the queue mutex held ...
WriterFindsEmpty ==
  /\ wpc = "fetch" /\ ~wstop /\ queue = <<>>
  /\ wpc' = "presleep"
  /\ UNCHANGED <<sendVars, inhand, lastFree, rpc, owner, health, sharedVars,
                 wproc, rproc>>

\* ... which the wait gives up; stop() does not take it.
WriterSleeps ==
  /\ wpc = "presleep"
  /\ wpc' = "qsleep"
  /\ UNCHANGED <<sendVars, inhand, lastFree, rpc, owner, health, sharedVars,
                 wproc, rproc>>

WriterPops ==
  /\ wpc = "fetch" /\ ~wstop /\ queue # <<>>
  /\ inhand' = Head(queue)
  /\ queue' = Tail(queue)
  /\ wpc' = "lock"
  /\ UNCHANGED <<accepted, expired, lastFree, rpc, owner, health, sharedVars,
                 wproc, rproc>>

\* Faulty: the writer waits only when there is no room at all.
WriterLocksWhenNotFull ==
  /\ wpc = "lock" /\ owner = "nobody" /\ health = "ok"
  /\ lastFree' = FreeSize(ring)
  /\ IF FreeSize(ring) = 0
       THEN wpc' = "wsleep" /\ owner' = "nobody"
       ELSE wpc' = "ready" /\ owner' = "w"
  /\ UNCHANGED <<sendVars, inhand, rpc, health, sharedVars, wproc, rproc>>

\* Lock, measure the free space, and wait once when it does not suffice.
WriterLocks ==
  /\ wpc = "lock" /\ owner = "nobody" /\ health = "ok"
  /\ lastFree' = FreeSize(ring)
  /\ IF FreeSize(ring) < Size[inhand]
       THEN wpc' = "wsleep" /\ owner' = "nobody"
       ELSE wpc' = "ready" /\ owner' = "w"
  /\ UNCHANGED <<sendVars, inhand, rpc, health, sharedVars, wproc, rproc>>

WriterLockFails ==
  /\ wpc = "lock" /\ LockFails
  /\ wpc' = "gone" /\ inhand' = None
  /\ UNCHANGED <<sendVars, lastFree, rpc, owner, health, sharedVars,
                 wproc, rproc>>

\* Awake with more room than before, but not necessarily enough of it.
WriterResumes ==
  /\ wpc = "rewake" /\ Reacquire("w")
  /\ FreeSize(ring) > lastFree
  /\ wpc' = "ready"
  /\ UNCHANGED <<sendVars, inhand, lastFree, rpc, sharedVars, wproc, rproc>>

\* Awake with no more room: break, without unlocking.
WriterGivesUp ==
  /\ wpc = "rewake" /\ owner = "nobody"
  /\ FreeSize(ring) <= lastFree
  /\ wpc' = "gone" /\ inhand' = None
  /\ health' = IF health = "lost" THEN "lost" ELSE "ownerdead"
  /\ UNCHANGED <<sendVars, lastFree, rpc, owner, sharedVars, wproc, rproc>>

WriterStopsReady ==
  /\ wpc = "ready" /\ wstop
  /\ wpc' = "gone" /\ inhand' = None
  /\ IF owner = "w" THEN Release ELSE UNCHANGED <<owner, health>>
  /\ UNCHANGED <<sendVars, lastFree, rpc, sharedVars, wproc, rproc>>

WriterCommits ==
  /\ wpc = "ready" /\ ~wstop
  /\ CommitFits(ring, Size[inhand])
  /\ mem' = CopyTo(mem, ring.tail, inhand)
  /\ ring' = Commit(ring, Size[inhand])
  /\ committed' = Append(committed, inhand)
  /\ inhand' = None
  /\ wpc' = "notify"
  /\ UNCHANGED <<sendVars, lastFree, rpc, owner, health, consumed,
                 wproc, rproc>>

\* The assertion of commit fails and aborts the writing process, which has
\* already copied the packet over what is unread.
WriterAborts ==
  /\ wpc = "ready" /\ ~wstop
  /\ ~CommitFits(ring, Size[inhand])
  /\ mem' = CopyTo(mem, ring.tail, inhand)
  /\ wproc' = "killed" /\ wpc' = "gone" /\ inhand' = None
  /\ Abandon("w")
  /\ UNCHANGED <<sendVars, lastFree, rpc, ring, committed, consumed, rproc>>

\* Faulty: the reader is not signalled.
WriterKeepsQuiet ==
  /\ wpc = "notify"
  /\ wpc' = "unlock"
  /\ UNCHANGED <<sendVars, inhand, lastFree, rpc, owner, health, sharedVars,
                 wproc, rproc>>

WriterNotifies ==
  /\ wpc = "notify"
  /\ SignalReader
  /\ wpc' = "unlock"
  /\ UNCHANGED <<sendVars, inhand, lastFree, owner, health, sharedVars,
                 wproc, rproc>>

\* Unlocking what another lost ENOTRECOVERABLE fails with EPERM: break.
WriterUnlocks ==
  /\ wpc = "unlock"
  /\ IF owner = "w" THEN Release /\ wpc' = "fetch"
                    ELSE UNCHANGED <<owner, health>> /\ wpc' = "gone"
  /\ UNCHANGED <<sendVars, inhand, lastFree, rpc, sharedVars, wproc, rproc>>

WriterStep ==
  \/ WriterSeesStop \/ WriterFindsEmpty \/ WriterSleeps \/ WriterPops
  \/ WriterLocks \/ WriterLockFails \/ WriterResumes \/ WriterGivesUp
  \/ WriterStopsReady \/ WriterCommits \/ WriterAborts
  \/ WriterNotifies \/ WriterUnlocks

-----------------------------------------------------------------------------
(* read_proc and process_packet                                            *)

ReaderTop ==
  /\ rpc = "top"
  /\ rpc' = IF rstop THEN "gone" ELSE "lock"
  /\ UNCHANGED <<sendVars, wpc, inhand, lastFree, owner, health, sharedVars,
                 wproc, rproc>>

\* Faulty: the reader waits whether or not the buffer is empty.
ReaderLocksAndWaits ==
  /\ rpc = "lock" /\ owner = "nobody" /\ health = "ok"
  /\ rpc' = "rsleep"
  /\ UNCHANGED <<sendVars, wpc, inhand, lastFree, owner, health, sharedVars,
                 wproc, rproc>>

\* Faulty: a buffer that is not empty is read without the mutex being free.
ReaderBarges ==
  /\ rpc = "lock" /\ health = "ok"
  /\ \/ ring.size = 0 /\ owner = "nobody" /\ rpc' = "rsleep"
     \/ ring.size > 0 /\ ~rstop /\ rpc' = "process"
  /\ UNCHANGED <<sendVars, wpc, inhand, lastFree, owner, health, sharedVars,
                 wproc, rproc>>

\* Lock; sleep on an empty buffer, leave (locked) when stopped.
ReaderLocks ==
  /\ rpc = "lock" /\ owner = "nobody" /\ health = "ok"
  /\ \/ ring.size = 0 /\ rpc' = "rsleep" /\ UNCHANGED <<owner, health>>
     \/ ring.size > 0 /\ ~rstop /\ rpc' = "process"
          /\ owner' = "r" /\ UNCHANGED health
     \/ ring.size > 0 /\ rstop /\ rpc' = "gone"
          /\ health' = "ownerdead" /\ UNCHANGED owner
  /\ UNCHANGED <<sendVars, wpc, inhand, lastFree, sharedVars, wproc, rproc>>

ReaderLockFails ==
  /\ rpc = "lock" /\ LockFails
  /\ rpc' = "gone"
  /\ UNCHANGED <<sendVars, wpc, inhand, lastFree, owner, health, sharedVars,
                 wproc, rproc>>

ReaderResumes ==
  /\ rpc = "rewake" /\ Reacquire("r")
  /\ ~rstop /\ ring.size > 0
  /\ rpc' = "process"
  /\ UNCHANGED <<sendVars, wpc, inhand, lastFree, sharedVars, wproc, rproc>>

\* Awake but stopped, or the buffer still empty: break, without unlocking.
ReaderGivesUp ==
  /\ rpc = "rewake" /\ owner = "nobody"
  /\ rstop \/ ring.size = 0
  /\ rpc' = "gone"
  /\ health' = IF health = "lost" THEN "lost" ELSE "ownerdead"
  /\ UNCHANGED <<sendVars, wpc, inhand, lastFree, owner, sharedVars,
                 wproc, rproc>>

\* decode_packet passes over the first k of the unread cells: no header there.
Passes(k) ==
  /\ k \in 0 .. ring.size
  /\ \A i \in 0 .. k - 1, p \in Packets : ~HeaderAt(mem, ring.head + i, p)

\* ... and then meets the header of p.
Finds(k, p) == Passes(k) /\ k < ring.size /\ HeaderAt(mem, ring.head + k, p)

\* Faulty: the packet is handed on and left in the buffer.
ReaderPeeks(p) ==
  /\ rpc = "process" /\ Finds(0, p) /\ ConsumeFits(ring, Size[p])
  /\ consumed' = Append(consumed, p)
  /\ rpc' = IF p \in Foreign THEN "notify" ELSE "handler"
  /\ UNCHANGED <<sendVars, wpc, inhand, lastFree, owner, health, ring, mem,
                 committed, wproc, rproc>>

\* One turn of process_packet: a whole packet is found, consumed and given to
\* its callback or handler.  A packet of another connection ends the loop
\* with the rest still unread.
ReaderTakes(p) ==
  /\ rpc = "process"
  /\ \E k \in 0 .. ring.size :
       /\ Finds(k, p) /\ ConsumeFits(ring, k + Size[p])
       /\ ring' = Consume(ring, k + Size[p])
  /\ consumed' = Append(consumed, p)
  /\ rpc' = IF p \in Foreign THEN "notify" ELSE "handler"
  /\ UNCHANGED <<sendVars, wpc, inhand, lastFree, owner, health, mem,
                 committed, wproc, rproc>>

\* The callback or handler, which ran with the mutex held, comes back.
HandlerReturns ==
  /\ rpc = "handler"
  /\ rpc' = "process"
  /\ UNCHANGED <<sendVars, wpc, inhand, lastFree, owner, health, sharedVars,
                 wproc, rproc>>

\* decode_packet finds nothing more, or not all of a packet.
ReaderDrained ==
  /\ rpc = "process"
  /\ \E k \in 0 .. ring.size :
       /\ Passes(k)
       /\ \/ k = ring.size
          \/ \E p \in Packets :
               Finds(k, p) /\ ~ConsumeFits(ring, k + Size[p])
       /\ ring' = Consume(ring, k)
  /\ rpc' = "notify"
  /\ UNCHANGED <<sendVars, wpc, inhand, lastFree, owner, health, mem,
                 committed, consumed, wproc, rproc>>

\* Faulty: the writer is not signalled.
ReaderKeepsQuiet ==
  /\ rpc = "notify"
  /\ rpc' = "unlock"
  /\ UNCHANGED <<sendVars, wpc, inhand, lastFree, owner, health, sharedVars,
                 wproc, rproc>>

ReaderNotifies ==
  /\ rpc = "notify"
  /\ SignalWriter
  /\ rpc' = "unlock"
  /\ UNCHANGED <<sendVars, inhand, lastFree, owner, health, sharedVars,
                 wproc, rproc>>

ReaderUnlocks ==
  /\ rpc = "unlock"
  /\ IF owner = "r" THEN Release /\ rpc' = "top"
                    ELSE UNCHANGED <<owner, health>> /\ rpc' = "gone"
  /\ UNCHANGED <<sendVars, wpc, inhand, lastFree, sharedVars, wproc, rproc>>

ReaderStep ==
  \/ ReaderTop \/ ReaderLocks \/ ReaderLockFails \/ ReaderResumes
  \/ ReaderGivesUp \/ ReaderDrained \/ ReaderNotifies \/ ReaderUnlocks
  \/ \E p \in Packets : ReaderTakes(p)

-----------------------------------------------------------------------------
(* stop(): flags, notify_one on the queue, signal on the own condition,    *)
(* join; then the server broadcasts every condition of the control block.  *)

StopWFlag ==
  /\ "stopW" \in Env
  /\ wproc = "up" /\ wproc' = "flagged"
  /\ UNCHANGED <<sendVars, wpc, inhand, lastFree, rpc, owner, health,
                 sharedVars, rproc>>

StopWNotify ==
  /\ wproc = "flagged" /\ wproc' = "notified"
  /\ wpc' = IF wpc = "qsleep" THEN "fetch" ELSE wpc
  /\ UNCHANGED <<sendVars, inhand, lastFree, rpc, owner, health, sharedVars,
                 rproc>>

StopWSignal ==
  /\ wproc = "notified" /\ wproc' = "joining"
  /\ SignalWriter
  /\ UNCHANGED <<sendVars, inhand, lastFree, rpc, owner, health, sharedVars,
                 rproc>>

StopWJoin ==
  /\ wproc = "joining" /\ wpc = "gone" /\ wproc' = "stopped"
  /\ IF Server = "w" THEN SignalReader ELSE UNCHANGED rpc
  /\ UNCHANGED <<sendVars, wpc, inhand, lastFree, owner, health, sharedVars,
                 rproc>>

StopRFlag ==
  /\ "stopR" \in Env
  /\ rproc = "up" /\ rproc' = "notified"
  /\ UNCHANGED <<sendVars, wpc, inhand, lastFree, rpc, owner, health,
                 sharedVars, wproc>>

StopRSignal ==
  /\ rproc = "notified" /\ rproc' = "joining"
  /\ SignalReader
  /\ UNCHANGED <<sendVars, wpc, inhand, lastFree, owner, health, sharedVars,
                 wproc>>

StopRJoin ==
  /\ rproc = "joining" /\ rpc = "gone" /\ rproc' = "stopped"
  /\ IF Server = "r" THEN SignalWriter ELSE UNCHANGED wpc
  /\ UNCHANGED <<sendVars, inhand, lastFree, rpc, owner, health, sharedVars,
                 wproc>>

StopStep ==
  \/ StopWNotify \/ StopWSignal \/ StopWJoin \/ StopRSignal \/ StopRJoin

-----------------------------------------------------------------------------
(* What the operating system may do.                                       *)

KillW ==
  /\ "killW" \in Env /\ wproc # "killed"
  /\ wproc' = "killed" /\ wpc' = "gone" /\ inhand' = None
  /\ Abandon("w")
  /\ UNCHANGED <<sendVars, lastFree, rpc, sharedVars, rproc>>

KillR ==
  /\ "killR" \in Env /\ rproc # "killed"
  /\ rproc' = "killed" /\ rpc' = "gone"
  /\ Abandon("r")
  /\ UNCHANGED <<sendVars, wpc, inhand, lastFree, sharedVars, wproc>>

\* POSIX allows any wait to return without a signal.
SpuriousWakeup ==
  /\ "spurious" \in Env
  /\ \/ wpc = "wsleep" /\ wpc' = "rewake" /\ UNCHANGED rpc
     \/ wpc = "qsleep" /\ wpc' = "fetch" /\ UNCHANGED rpc
     \/ rpc = "rsleep" /\ rpc' = "rewake" /\ UNCHANGED wpc
  /\ UNCHANGED <<sendVars, inhand, lastFree, owner, health, sharedVars,
                 wproc, rproc>>

Next ==
  \/ \E p \in Packets : Send(p) \/ Expire(p)
  \/ WriterStep \/ ReaderStep \/ HandlerReturns
  \/ StopWFlag \/ StopRFlag \/ StopStep
  \/ KillW \/ KillR \/ SpuriousWakeup

\* Threads that can run do; a call of stop() proceeds.  Nobody owes a send,
\* a stop, a crash, a spurious wakeup, or the return of a handler.
Fairness == WF_vars(WriterStep) /\ WF_vars(ReaderStep) /\ WF_vars(StopStep)

Spec == Init /\ [][Next]_vars /\ Fairness

-----------------------------------------------------------------------------
(* Properties.                                                             *)

TypeOK ==
  /\ queue \in Seq(Packets)
  /\ wpc \in WriterStates /\ rpc \in ReaderStates
  /\ inhand \in Packets \cup {None}
  /\ inhand = None <=> wpc \notin {"lock", "wsleep", "rewake", "ready"}
  /\ lastFree \in 0 .. Capacity
  /\ owner \in {"w", "r", "nobody"}
  /\ health \in {"ok", "ownerdead", "lost"}
  /\ ring \in Ring
  /\ DOMAIN mem = 0 .. 2 * Capacity - 1
  /\ wproc \in ProcStates /\ rproc \in ProcStates
  /\ accepted \subseteq Packets /\ expired \subseteq Packets
  /\ committed \in Seq(Packets) /\ consumed \in Seq(Packets)

WriterCritical == wpc \in {"ready", "notify", "unlock"}
ReaderCritical == rpc \in {"process", "handler", "notify", "unlock"}

\* The two threads are never both past the mutex, not even when one of them
\* was let through by a pthread_cond_wait whose EOWNERDEAD or
\* ENOTRECOVERABLE the code does not look at (write_proc, read_proc).
MutualExclusion == ~(WriterCritical /\ ReaderCritical)

\* The assertion of linear_ringbuffer_t::commit, n <= capacity_ - size_, is
\* true whenever write_proc comes to call it, although write_proc does not
\* measure the free space again after its single wait.
CommitAssertion ==
  wpc = "ready" /\ ~wstop => CommitFits(ring, Size[inhand])

Unread == {i \in 1 .. Len(committed) : i > Len(consumed)}

\* What read_head() points at is the packet committed first among the unread
\* ones, whole: no later memcpy, which runs linearly past the end of the
\* buffer, has overwritten a cell of it.
NextPacketIntact ==
  Unread # {} => IntactAt(mem, ring.head, committed[Len(consumed) + 1])

\* A reader asleep in pthread_cond_wait has nothing to read, unless the
\* writer that committed is just about to signal or ended before it could.
SleepingReaderHasNothing ==
  rpc = "rsleep" => ring.size = 0 \/ wpc \in {"notify", "gone"}

\* A writer asleep on can_w lacks the room it measured to be missing, unless
\* the reader that made room is about to signal or has gone.
SleepingWriterLacksRoom ==
  wpc = "wsleep" =>
    \/ FreeSize(ring) = lastFree
    \/ rpc \in {"process", "handler", "notify", "gone"}

\* No callback or handler keeps the reading thread, and the mutex, for ever.
HandlersReturn == []<>(rpc # "handler")

\* Every packet given to send_packet is taken out by the reader, or out of the
\* queue by a timeout or a cancellation, if nothing fails, nothing stops and
\* handlers return: no wakeup is lost between the two threads.
AcceptedIsConsumed ==
  HandlersReturn =>
    \A p \in Packets :
      p \in accepted ~>
        p \in expired \/ \E i \in 1 .. Len(consumed) : consumed[i] = p

\* A thread asking for the mutex is answered (if only by an error), whatever
\* is killed or stopped meanwhile, for the mutex is robust; but a callback or
\* handler that never returns keeps the peer's writer waiting.
LockIsAnswered ==
  HandlersReturn =>
    /\ wpc \in {"lock", "rewake"} ~> wpc \notin {"lock", "rewake"}
    /\ rpc \in {"lock", "rewake"} ~> rpc \notin {"lock", "rewake"}

\* stop() signals without the mutex, so the join can wait for a reader that
\* slept after the signal; but only for one with nothing to read, or one to
\* whom a writer that was killed could no longer signal its packet.
ReaderStopHangsOnlyIdle ==
  rproc = "joining" ~>
    \/ rproc # "joining"
    \/ rpc = "rsleep" /\ (ring.size = 0 \/ wproc = "killed")

\* The join of the writing thread can wait for a writer that went to sleep
\* after both signals: on its empty queue, or on a full buffer whose reader
\* is gone or itself asleep.
WriterStopHangsOnlyIdle ==
  wproc = "joining" ~>
    \/ wproc # "joining"
    \/ wpc = "qsleep" /\ queue = <<>>
    \/ wpc = "wsleep" /\ rpc \in {"gone", "rsleep"}

\* The joins of stop(), on either side, return but in these states and behind
\* a handler that never does: its own thread, or a writer it keeps locked out.
StopHangsOnlyIdle ==
  HandlersReturn => ReaderStopHangsOnlyIdle /\ WriterStopHangsOnlyIdle

\* The channel is a bounded FIFO of packets: nothing is read twice, out of
\* order or unwritten, and the buffer never holds more than it can.
Unconsumed == SubSeq(committed, Len(consumed) + 1, Len(committed))
Fifo == INSTANCE BoundedFifo WITH items <- Unconsumed, used <- ring.size
ImplementsFifo == Fifo!Spec

=============================================================================
