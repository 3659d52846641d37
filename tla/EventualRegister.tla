------------------------- MODULE EventualRegister -------------------------
(***************************************************************************)
(* What the Pepr Store promises the capabilities of a module: a map shared *)
(* by all pods. A call says what a key is to be; some time later the       *)
(* stored data takes over what was asked last, several keys at once or one *)
(* by one; later still each pod sees it. Views never go back.              *)
(***************************************************************************)
EXTENDS Naturals, Sequences

CONSTANTS Pod, Key, Value, Absent

VARIABLES
  want,     \* want[k]: what the last call asked key k to be
  history,  \* every state the stored data has had
  view      \* view[p]: which of them pod p sees, 0 for none yet

vars == <<want, history, view>>

Stored == history[Len(history)]

Init ==
  /\ want = [k \in Key |-> Absent]
  /\ history = <<[k \in Key |-> Absent]>>
  /\ view = [p \in Pod |-> 0]

Request(k, v) ==
  /\ want' = [want EXCEPT ![k] = v]
  /\ UNCHANGED <<history, view>>

RequestClear ==
  /\ want' = [k \in Key |-> Absent]
  /\ UNCHANGED <<history, view>>

Commit(ks) ==
  /\ history' = Append(history, [k \in Key |-> IF k \in ks THEN want[k] ELSE Stored[k]])
  /\ UNCHANGED <<want, view>>

Observe(p) ==
  /\ \E r \in view[p] + 1..Len(history) : view' = [view EXCEPT ![p] = r]
  /\ UNCHANGED <<want, history>>

Next ==
  \/ \E k \in Key, v \in Value \cup {Absent} : Request(k, v)
  \/ RequestClear
  \/ \E ks \in SUBSET Key : Commit(ks)
  \/ \E p \in Pod : Observe(p)

\* What was asked last is stored in the end, and seen in the end.
Fairness ==
  /\ \A k \in Key : WF_vars(Stored[k] # want[k] /\ \E ks \in SUBSET Key : k \in ks /\ Commit(ks))
  /\ \A p \in Pod : WF_vars(Observe(p))

Spec == Init /\ [][Next]_vars /\ Fairness
=============================================================================
