---------------------------- MODULE SerialLanes ----------------------------
(***************************************************************************)
(* What Reconcile() promises, with no queue in sight: events are assigned  *)
(* to lanes; the callbacks of one lane run one at a time, in the order the *)
(* events arrived; lanes do not wait for each other.                       *)
(***************************************************************************)
EXTENDS Naturals, Sequences

CONSTANT Lane

VARIABLES
  lane,    \* lane[n] is the lane of the n-th event that arrived
  status   \* status[n] is how far its callback has got

vars == <<lane, status>>

Status == {"waiting", "running", "resolved", "rejected"}
Settled == {"resolved", "rejected"}

Init == lane = << >> /\ status = << >>

\* Every event that arrived in lane l before event n has been settled.
Clear(l, n) == \A m \in DOMAIN status : m < n /\ lane[m] = l => status'[m] \in Settled

Arrive(l) ==
  /\ lane' = Append(lane, l)
  /\ \/ status' = Append(status, "waiting")
     \/ /\ status' = Append(status, "running")
        /\ Clear(l, Len(status) + 1)

\* A callback ends. The event whose turn it has become may begin in the same
\* step, or later.
Begin(n) == status[n] = "waiting" /\ status'[n] = "running" /\ Clear(lane[n], n)
Finish(n) == status[n] = "running" /\ status'[n] \in Settled

Progress ==
  /\ UNCHANGED lane
  /\ DOMAIN status' = DOMAIN status
  /\ \A n \in DOMAIN status : status'[n] = status[n] \/ Begin(n) \/ Finish(n)

Next == (\E l \in Lane : Arrive(l)) \/ Progress

Spec == Init /\ [][Next]_vars
=============================================================================
