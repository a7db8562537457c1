----------------------------- MODULE CallOutcome -----------------------------
(***************************************************************************)
(* What connection_t promises the caller of send_packet(pack, cb, timeout):*)
(* a request that was sent is concluded at most once, by its response, by  *)
(* its timeout or by cancel_sending, or is forgotten with the thread that  *)
(* carried it; nothing happens to it afterwards.                           *)
(***************************************************************************)
CONSTANT Requests

VARIABLE status

Conclusions == {"response", "timeout", "cancelled", "forgotten"}

Init == status = [r \in Requests |-> "unsent"]

Open(r) ==
  /\ status[r] = "unsent"
  /\ status' = [status EXCEPT ![r] = "open"]

\* One pass of the timer, or the end of a thread, may conclude several.
Conclude ==
  \E S \in SUBSET {r \in Requests : status[r] = "open"} :
    \E c \in Conclusions :
      status' = [r \in Requests |-> IF r \in S THEN c ELSE status[r]]

Next == Conclude \/ \E r \in Requests : Open(r)

Spec == Init /\ [][Next]_status

=============================================================================
