-------------------------- MODULE PeprStoreProofs --------------------------
(***************************************************************************)
(* Proofs about PeprStore, for any pods, keys, values and bounds: that     *)
(* views never go back, whatever liberties the capabilities take and       *)
(* however patches and pods fail; that no write is lost, and the store a   *)
(* shared map, when callers take none and nothing fails.                   *)
(***************************************************************************)
EXTENDS PeprStore, SequenceTheorems, FiniteSetTheorems, TLAPS

IsSeq(s) == \E S : s \in Seq(S)

\* What pod p holds of the store resource is a revision the watch delivered, and
\* the one its debounce timer holds is the newest of them.
ViewInOrder(p) ==
  /\ watched[p] \in Nat /\ debounced[p] \in Nat /\ replica[p] \in Nat
  /\ debounced[p] # 0 => debounced[p] = watched[p]
  /\ replica[p] <= watched[p] /\ watched[p] <= Latest

ViewInv ==
  /\ IsSeq(log) /\ log # << >>
  /\ watched \in [Pod -> Nat] /\ debounced \in [Pod -> Nat] /\ replica \in [Pod -> Nat]
  /\ \A p \in Pod : ViewInOrder(p)

\* The log of revisions only ever grows by one.
LEMMA LogFacts ==
  ASSUME IsSeq(log)
  PROVE  /\ Latest \in Nat
         /\ \A d : IsSeq(Append(log, d)) /\ Len(Append(log, d)) = Latest + 1
         /\ \A d : Append(log, d) # << >>
<1>1. PICK S : log \in Seq(S)
  BY DEF IsSeq
<1>2. Latest \in Nat
  BY <1>1 DEF Latest
<1>3. ASSUME NEW d
      PROVE  /\ IsSeq(Append(log, d)) /\ Len(Append(log, d)) = Latest + 1
             /\ Append(log, d) # << >>
  <2>1. log \in Seq(S \cup {d})
    BY <1>1, SeqMonotonic
  <2>2. Append(log, d) \in Seq(S \cup {d}) /\ Len(Append(log, d)) = Len(log) + 1
    BY <2>1
  <2>3. Append(log, d) # << >>
    BY <1>2, <2>2 DEF Latest
  <2> QED BY <2>2, <2>3 DEF IsSeq, Latest
<1> QED BY <1>2, <1>3

\* A step that leaves the views alone keeps them in order, the log growing or not.
LEMMA ViewsUntouched ==
  ASSUME ViewInv, UNCHANGED <<watched, debounced, replica>>,
         log' = log \/ \E d : log' = Append(log, d)
  PROVE  ViewInv'
<1>0. Latest \in Nat
  BY LogFacts DEF ViewInv
<1>1. IsSeq(log') /\ log' # << >> /\ Latest' \in Nat /\ Latest' >= Latest
  <2>1. CASE log' = log
    BY <1>0, <2>1 DEF ViewInv, Latest
  <2>2. ASSUME NEW d, log' = Append(log, d)
        PROVE  IsSeq(log') /\ log' # << >> /\ Latest' \in Nat /\ Latest' >= Latest
    <3>1. IsSeq(log') /\ log' # << >> /\ Len(log') = Latest + 1
      BY <2>2, LogFacts DEF ViewInv
    <3> QED BY <1>0, <3>1 DEF Latest
  <2> QED BY <2>1, <2>2
<1>2. ASSUME NEW p \in Pod PROVE ViewInOrder(p)'
  BY <1>0, <1>1 DEF ViewInv, ViewInOrder
<1> QED BY <1>1, <1>2 DEF ViewInv

\* Nothing is held at the start.
LEMMA InitViewInv == Init => ViewInv
<1> SUFFICES ASSUME Init PROVE ViewInv
  OBVIOUS
<1>1. log \in Seq({Empty}) /\ log # << >> /\ Latest = 1
  BY DEF Init, Latest
<1>2. watched \in [Pod -> Nat] /\ debounced \in [Pod -> Nat] /\ replica \in [Pod -> Nat]
  BY DEF Init
<1>3. \A p \in Pod : ViewInOrder(p)
  BY <1>1 DEF Init, ViewInOrder
<1> QED BY <1>1, <1>2, <1>3 DEF ViewInv, IsSeq

\* What the watch delivers is newer than what the pod has, and no newer than what is.
LEMMA ReceiveViewInv ==
  ASSUME ViewInv, NEW p \in Pod, Receive(p)
  PROVE  ViewInv'
<1>1. PICK r \in Nat : /\ r = watched'[p] /\ watched[p] < r /\ r <= Latest
                       /\ watched' = [watched EXCEPT ![p] = r]
                       /\ debounced' = [debounced EXCEPT ![p] = r]
                       /\ UNCHANGED <<log, replica>>
  <2>1. Latest \in Nat /\ watched[p] \in Nat /\ watched[p] < Latest
    BY LogFacts DEF Receive, ViewInv, ViewInOrder
  <2>2. watched' = [watched EXCEPT ![p] = IF watched[p] = 0 THEN Latest ELSE watched[p] + 1]
    BY DEF Receive
  <2>3. watched'[p] = IF watched[p] = 0 THEN Latest ELSE watched[p] + 1
    BY <2>2 DEF ViewInv
  <2>4. debounced' = [debounced EXCEPT ![p] = watched'[p]] /\ UNCHANGED <<log, replica>>
    BY DEF Receive
  <2>5. watched'[p] \in Nat /\ watched[p] < watched'[p] /\ watched'[p] <= Latest
    BY <2>1, <2>3
  <2>6. watched' = [watched EXCEPT ![p] = watched'[p]]
    BY <2>2, <2>3
  <2> QED BY <2>4, <2>5, <2>6
<1>2. ASSUME NEW q \in Pod PROVE ViewInOrder(q)'
  <2>1. CASE q = p
    BY <1>1, <2>1 DEF ViewInv, ViewInOrder, Latest
  <2>2. CASE q # p
    BY <1>1, <2>2 DEF ViewInv, ViewInOrder, Latest
  <2> QED BY <2>1, <2>2
<1> QED BY <1>1, <1>2 DEF ViewInv

\* The revision the timer held is at least as new as the one it replaces.
LEMMA DebouncedViewInv ==
  ASSUME ViewInv, NEW p \in Pod, NEW r \in 1..Latest, Debounced(p, r)
  PROVE  ViewInv' /\ replica'[p] >= replica[p]
                  /\ \A q \in Pod : q # p => replica'[q] = replica[q]
<1>1. /\ r \in Nat /\ r = debounced[p] /\ r # 0 /\ r = watched[p]
      /\ replica' = [replica EXCEPT ![p] = r]
      /\ debounced' = [debounced EXCEPT ![p] = 0]
      /\ UNCHANGED <<log, watched>>
  BY LogFacts DEF Debounced, ViewInv, ViewInOrder
<1>2. ASSUME NEW q \in Pod PROVE ViewInOrder(q)'
  <2>1. CASE q = p
    BY <1>1, <2>1 DEF ViewInv, ViewInOrder, Latest
  <2>2. CASE q # p
    BY <1>1, <2>2 DEF ViewInv, ViewInOrder, Latest
  <2> QED BY <2>1, <2>2
<1> QED BY <1>1, <1>2 DEF ViewInv, ViewInOrder

\* A pod that starts over sees nothing, until the watch lists the resource.
LEMMA ResetViewInv ==
  ASSUME ViewInv, NEW p \in Pod, Reset(p)
  PROVE  ViewInv' /\ replica'[p] = 0 /\ \A q \in Pod : q # p => replica'[q] = replica[q]
<1>1. /\ watched' = [watched EXCEPT ![p] = 0]
      /\ debounced' = [debounced EXCEPT ![p] = 0]
      /\ replica' = [replica EXCEPT ![p] = 0]
      /\ UNCHANGED log /\ Latest \in Nat
  BY LogFacts DEF Reset, ViewInv
<1>2. ASSUME NEW q \in Pod PROVE ViewInOrder(q)'
  <2>1. CASE q = p
    BY <1>1, <2>1 DEF ViewInv, ViewInOrder, Latest
  <2>2. CASE q # p
    BY <1>1, <2>2 DEF ViewInv, ViewInOrder, Latest
  <2> QED BY <2>1, <2>2
<1> QED BY <1>1, <1>2 DEF ViewInv

\* Every step keeps the views in order, and takes no pod back but to nothing.
LEMMA StepInOrder ==
  ASSUME ViewInv, [Next]_vars
  PROVE  ViewInv' /\ \A p \in Pod : replica'[p] >= replica[p] \/ replica'[p] = 0
<1> DEFINE Forward == \A p \in Pod : replica'[p] >= replica[p] \/ replica'[p] = 0
<1>s. UNCHANGED replica => Forward
  BY DEF ViewInv, ViewInOrder
<1>r. ASSUME NEW p \in Pod, Reset(p) PROVE ViewInv' /\ Forward
  <2>1. ViewInv' /\ replica'[p] = 0 /\ \A q \in Pod : q # p => replica'[q] = replica[q]
    BY <1>r, ResetViewInv
  <2>2. \A q \in Pod : replica[q] \in Nat
    BY DEF ViewInv
  <2> QED BY <2>1, <2>2
<1>1. ASSUME NEW p \in Pod, Call(p) PROVE ViewInv' /\ Forward
  <2>1. UNCHANGED <<log, watched, debounced, replica>>
    BY <1>1 DEF Call, setItem, setItemAndWait, removeItem, removeItemAndWait, clear, Write
  <2> QED BY <2>1, <1>s, ViewsUntouched
<1>2. ASSUME NEW p \in Pod, SendInterval(p) PROVE ViewInv' /\ Forward
  <2>1. CASE Reset(p)
    BY <2>1, <1>r
  <2>2. CASE ~Reset(p)
    <3>1. UNCHANGED <<log, watched, debounced, replica>>
      BY <1>2, <2>2 DEF SendInterval, Send
    <3> QED BY <3>1, <1>s, ViewsUntouched
  <2> QED BY <2>1, <2>2
<1>3. ASSUME NEW p \in Pod, NEW j \in DOMAIN wire[p],
             ServePatch(p, j) \/ FailPatch(p, j) \/ Answer(p, j)
      PROVE  ViewInv' /\ Forward
  <2>1. /\ UNCHANGED <<watched, debounced, replica>>
        /\ log' = log \/ \E d : log' = Append(log, d)
    BY <1>3 DEF ServePatch, updateCacheID, FailPatch, Answer
  <2> QED BY <2>1, <1>s, ViewsUntouched
<1>4. ASSUME NEW p \in Pod, Receive(p) PROVE ViewInv' /\ Forward
  BY <1>4, <1>s, ReceiveViewInv DEF Receive
<1>5. ASSUME NEW p \in Pod, NEW r \in 1..Latest, Debounced(p, r) PROVE ViewInv' /\ Forward
  <2>1. /\ ViewInv' /\ replica'[p] >= replica[p]
        /\ \A q \in Pod : q # p => replica'[q] = replica[q]
    BY <1>5, DebouncedViewInv
  <2>2. \A q \in Pod : replica[q] \in Nat
    BY DEF ViewInv
  <2> QED BY <2>1, <2>2
<1>6. ASSUME NEW p \in Pod, NEW i \in DOMAIN waits[p], Timeout(p, i) PROVE ViewInv' /\ Forward
  <2>1. UNCHANGED <<log, watched, debounced, replica>>
    BY <1>6 DEF Timeout
  <2> QED BY <2>1, <1>s, ViewsUntouched
<1>7. ASSUME NEW p \in Pod, Restart(p) PROVE ViewInv' /\ Forward
  BY <1>7, <1>r DEF Restart
<1>8. CASE UNCHANGED vars
  BY <1>8, <1>s, ViewsUntouched DEF vars
<1> QED BY <1>1, <1>2, <1>3, <1>4, <1>5, <1>6, <1>7, <1>8 DEF Next

\* The views are always in order: a pod holds no revision the watch has not
\* delivered to it.
THEOREM ViewsInOrder == Spec => []ViewInv
<1>1. ViewInv /\ [Next]_vars => ViewInv'
  BY StepInOrder
<1> QED BY InitViewInv, <1>1, PTL DEF Spec

(***************************************************************************)
(* Callers that take no liberties: batches and what becomes of them.       *)
(***************************************************************************)

\* What PeprStoreDisciplined is an instance of: callers may race for what others wait
\* for, but do nothing else of Liberties; no patch fails and no pod starts over.
Disciplined == Liberty \subseteq {"race"} /\ MaxFailures = 0 /\ MaxRestarts = 0

\* No two keys share an index string, as they do not unless one has a colon in it.
OwnIndexes ==
  \A k, l \in Key, v, w \in Value : AddIndex[<<k, v>>] = AddIndex[<<l, w>>] => k = l

\* The operations on key k, and those on a single key.
OpsOn(k) == {Add(k, v) : v \in Value} \cup {Remove({k})}
Single == UNION {OpsOn(k) : k \in Key}
Entries == {Entry(o) : o \in Single}

\* Entries with a key each.
Batch(s) ==
  /\ s \in Seq(Entries)
  /\ \A i, j \in DOMAIN s : s[i].operation.path = s[j].operation.path => i = j

KeysOf(s) == {k \in Key : \E i \in DOMAIN s : s[i].operation.path = {k}}

\* The entries ask of their keys what is wanted.
Asks(s, wanted) ==
  \A k \in Key, i \in DOMAIN s : s[i].operation.path = {k} => s[i].operation.value = wanted[k]

LEMMA OpFacts ==
  ASSUME NEW k \in Key, NEW o \in OpsOn(k)
  PROVE  /\ o.path = {k} /\ o \in Single /\ o # Undefined
         /\ o.op = "remove" <=> o.value = Absent
         /\ \/ o.op = "remove" /\ o = Remove({k})
            \/ o.op = "add" /\ \E v \in Value : o = Add(k, v)
<1>1. o \in Single
  BY DEF Single
<1>2. o \in Operation
  BY DEF OpsOn, Operation
<1>3. o # Undefined
  BY <1>2, ValueAssumption
<1>4. CASE o = Remove({k})
  BY <1>1, <1>3, <1>4 DEF Remove
<1>5. ASSUME NEW v \in Value, o = Add(k, v)
      PROVE  o.path = {k} /\ o.op = "add" /\ o.value # Absent
  BY <1>5, ValueAssumption DEF Add
<1> QED BY <1>1, <1>3, <1>4, <1>5 DEF OpsOn

\* Operations on different keys have different indexes.
LEMMA IndexFacts ==
  ASSUME OwnIndexes, NEW k \in Key, NEW l \in Key, NEW o \in OpsOn(k), NEW u \in OpsOn(l),
         IndexOf(o) = IndexOf(u)
  PROVE  k = l
<1>1. ASSUME NEW j \in Key, NEW v \in Value
      PROVE  IndexOf(Add(j, v))[1] = "add" /\ IndexOf(Add(j, v))[2] = AddIndex[<<j, v>>]
  <2>1. Add(j, v).op = "add" /\ Add(j, v).path = {j} /\ Add(j, v).value = v
    BY DEF Add
  <2>2. (CHOOSE i \in Key : {j} = {i}) = j
    OBVIOUS
  <2>3. IndexOf(Add(j, v)) = <<"add", AddIndex[<<j, v>>]>>
    BY <2>1, <2>2 DEF IndexOf
  <2> QED BY <2>3
<1>2. ASSUME NEW j \in Key
      PROVE  IndexOf(Remove({j}))[1] = "remove" /\ IndexOf(Remove({j}))[2] = {j}
  <2>1. IndexOf(Remove({j})) = <<"remove", {j}>>
    BY DEF IndexOf, Remove
  <2> QED BY <2>1
<1>0. PICK i, m : i = IndexOf(o) /\ m = IndexOf(u) /\ i = m
  OBVIOUS
<1>3. ASSUME o = Remove({k}), u = Remove({l}) PROVE k = l
  <2>1. i[2] = {k} /\ m[2] = {l}
    BY <1>0, <1>2, <1>3
  <2> QED BY <1>0, <2>1
<1>4. ASSUME NEW v \in Value, o = Add(k, v), u = Remove({l}) PROVE FALSE
  <2>1. i[1] = "add" /\ m[1] = "remove"
    BY <1>0, <1>1, <1>2, <1>4
  <2> QED BY <1>0, <2>1
<1>5. ASSUME NEW v \in Value, u = Add(l, v), o = Remove({k}) PROVE FALSE
  <2>1. i[1] = "remove" /\ m[1] = "add"
    BY <1>0, <1>1, <1>2, <1>5
  <2> QED BY <1>0, <2>1
<1>6. ASSUME NEW v \in Value, NEW w \in Value, o = Add(k, v), u = Add(l, w) PROVE k = l
  <2>1. i[2] = AddIndex[<<k, v>>] /\ m[2] = AddIndex[<<l, w>>]
    BY <1>0, <1>1, <1>6
  <2> QED BY <1>0, <2>1 DEF OwnIndexes
<1> QED BY <1>3, <1>4, <1>5, <1>6 DEF OpsOn

\* Each entry of a batch is of a key.
LEMMA BatchFacts ==
  ASSUME NEW s, Batch(s), NEW i \in DOMAIN s
  PROVE  \E k \in KeysOf(s) : s[i].operation \in OpsOn(k) /\ s[i] = Entry(s[i].operation)
<1>1. PICK o \in Single : s[i] = Entry(o)
  BY DEF Batch, Entries
<1>2. PICK k \in Key : o \in OpsOn(k)
  BY DEF Single
<1>3. s[i].operation = o
  BY <1>1 DEF Entry
<1>4. k \in KeysOf(s)
  BY <1>2, <1>3, OpFacts DEF KeysOf
<1> QED BY <1>1, <1>2, <1>3, <1>4

\* An operation on a key of its own is appended.
LEMMA FillFacts ==
  ASSUME OwnIndexes, NEW s, Batch(s), NEW k \in Key, k \notin KeysOf(s), NEW o \in OpsOn(k)
  PROVE  /\ fillStoreCache(s, o) = Append(s, Entry(o))
         /\ Batch(fillStoreCache(s, o)) /\ fillStoreCache(s, o) # << >>
         /\ KeysOf(fillStoreCache(s, o)) = KeysOf(s) \cup {k}
         /\ \A wanted, wants :
              Asks(s, wanted) /\ wants[k] = o.value /\ (\A l \in KeysOf(s) : wants[l] = wanted[l]) =>
                Asks(fillStoreCache(s, o), wants)
<1>1. o.path = {k} /\ o \in Single
  BY OpFacts
<1>2. IndexOf(o) \notin Indexes(s)
  <2>1. ASSUME NEW i \in DOMAIN s, s[i].index = IndexOf(o) PROVE FALSE
    <3>1. PICK l \in KeysOf(s) : s[i].operation \in OpsOn(l) /\ s[i] = Entry(s[i].operation)
      BY BatchFacts
    <3>2. PICK u \in OpsOn(l) : u = s[i].operation
      BY <3>1
    <3>3. IndexOf(u) = IndexOf(o)
      BY <2>1, <3>1, <3>2 DEF Entry
    <3>4. l = k
      BY <3>3, IndexFacts DEF KeysOf
    <3> QED BY <3>4
  <2> QED BY <2>1 DEF Indexes
<1>3. fillStoreCache(s, o) = Append(s, Entry(o))
  BY <1>2 DEF fillStoreCache
<1>4. PICK e, t : e = Entry(o) /\ t = Append(s, e)
  OBVIOUS
<1>5. e \in Entries /\ e.operation = o
  BY <1>1, <1>4 DEF Entries, Entry
<1>6. s \in Seq(Entries)
  BY DEF Batch
<1>7. /\ t \in Seq(Entries) /\ t # << >>
      /\ DOMAIN t = 1..(Len(s) + 1) /\ DOMAIN s = 1..Len(s) /\ Len(s) \in Nat
      /\ t[Len(s) + 1] = e /\ \A i \in DOMAIN s : t[i] = s[i]
  BY <1>4, <1>5, <1>6
<1>8. \A i \in DOMAIN t : (i \in DOMAIN s /\ t[i] = s[i]) \/ (i = Len(s) + 1 /\ t[i] = e)
  BY <1>7
<1>9. DOMAIN s \subseteq DOMAIN t /\ Len(s) + 1 \in DOMAIN t
  BY <1>7
<1>10. \A i \in DOMAIN s : s[i].operation.path # {k}
  BY DEF KeysOf
<1>11. Batch(t)
  BY <1>1, <1>5, <1>7, <1>8, <1>10 DEF Batch
<1>12. KeysOf(t) = KeysOf(s) \cup {k}
  BY <1>1, <1>5, <1>7, <1>8, <1>9 DEF KeysOf
<1>13. ASSUME NEW wanted, NEW wants, Asks(s, wanted), wants[k] = o.value,
              \A l \in KeysOf(s) : wants[l] = wanted[l]
       PROVE  Asks(t, wants)
  <2>1. ASSUME NEW l \in Key, NEW i \in DOMAIN t, t[i].operation.path = {l}
        PROVE  t[i].operation.value = wants[l]
    <3>1. CASE i \in DOMAIN s /\ t[i] = s[i]
      BY <1>13, <2>1, <3>1 DEF Asks, KeysOf
    <3>2. CASE t[i] = e
      BY <1>1, <1>5, <1>13, <2>1, <3>2
    <3> QED BY <1>8, <3>1, <3>2
  <2> QED BY <2>1 DEF Asks
<1> QED BY <1>3, <1>4, <1>7, <1>11, <1>12, <1>13

\* What the API server makes of the patch of a batch.
LEMMA PatchFacts ==
  ASSUME NEW s, Batch(s), NEW wanted, Asks(s, wanted), NEW data
  PROVE  /\ Patched(data, Operations(s)) =
              [k \in Key |-> IF k \in KeysOf(s) THEN wanted[k] ELSE data[k]]
         /\ Unprocessable(data, Operations(s)) =>
              \E k \in KeysOf(s) : wanted[k] = Absent /\ data[k] = Absent
<1> DEFINE ops == Operations(s)
<1>1. /\ DOMAIN s = 1..Len(s) /\ Len(s) \in Nat /\ DOMAIN ops = DOMAIN s
      /\ \A i \in DOMAIN s : ops[i] = s[i].operation
  BY DEF Batch, Operations
<1>2. Len(ops) = Len(s)
  BY <1>1 DEF Operations
<1>3. ASSUME NEW i \in DOMAIN s
      PROVE  \E k \in KeysOf(s) : ops[i] \in OpsOn(k) /\ ops[i].path = {k} /\ ops[i] # Undefined
                                  /\ ops[i].value = wanted[k]
  <2>1. PICK k \in KeysOf(s) : s[i].operation \in OpsOn(k)
    BY BatchFacts
  <2>2. k \in Key /\ ops[i] = s[i].operation
    BY <1>1 DEF KeysOf
  <2>3. ops[i].path = {k} /\ ops[i] # Undefined
    BY <2>1, <2>2, OpFacts
  <2>4. ops[i].value = wanted[k]
    BY <2>2, <2>3 DEF Asks
  <2> QED BY <2>1, <2>2, <2>3, <2>4
<1>4. \A i, j \in DOMAIN s : ops[i].path = ops[j].path => i = j
  BY <1>1 DEF Batch
<1> HIDE DEF ops
<1>5. ASSUME NEW k \in Key, NEW n \in Nat
      PROVE  /\ \A i \in DOMAIN s : i < n /\ ops[i].path = {k} => LastOn(k, ops, n) = i
             /\ (\A i \in DOMAIN s : i < n => ops[i].path # {k}) => LastOn(k, ops, n) = 0
  <2> DEFINE places == {j \in DOMAIN ops : j < n /\ ops[j] # Undefined /\ ops[j].path = {k}}
  <2>1. LastOn(k, ops, n) = IF places = {} THEN 0
                            ELSE CHOOSE j \in places : \A l \in places : l <= j
    BY DEF LastOn
  <2>2. ASSUME NEW i \in DOMAIN s, i < n, ops[i].path = {k} PROVE LastOn(k, ops, n) = i
    <3>1. places = {i}
      BY <1>1, <1>3, <1>4, <2>2
    <3>2. i <= i
      BY <1>1
    <3> HIDE DEF places
    <3> QED BY <2>1, <3>1, <3>2
  <2>3. (\A i \in DOMAIN s : i < n => ops[i].path # {k}) => places = {}
    BY <1>1
  <2> HIDE DEF places
  <2> QED BY <2>1, <2>2, <2>3
<1>6. ASSUME NEW k \in Key
      PROVE  ValueBefore(data, k, ops, Len(ops) + 1) = IF k \in KeysOf(s) THEN wanted[k] ELSE data[k]
  <2>1. CASE k \in KeysOf(s)
    <3>1. PICK i \in DOMAIN s : ops[i].path = {k}
      BY <1>1, <2>1 DEF KeysOf
    <3>2. Len(ops) + 1 \in Nat /\ i < Len(ops) + 1 /\ i # 0
      BY <1>1, <1>2
    <3>3. LastOn(k, ops, Len(ops) + 1) = i
      BY <1>5, <3>1, <3>2
    <3>4. ops[i].value = wanted[k]
      BY <1>3, <3>1
    <3> QED BY <2>1, <3>2, <3>3, <3>4 DEF ValueBefore
  <2>2. CASE k \notin KeysOf(s)
    <3>1. \A i \in DOMAIN s : ops[i].path # {k}
      BY <1>1, <2>2 DEF KeysOf
    <3>2. Len(ops) + 1 \in Nat
      BY <1>1, <1>2
    <3>3. LastOn(k, ops, Len(ops) + 1) = 0
      BY <1>5, <3>1, <3>2
    <3> QED BY <2>2, <3>3 DEF ValueBefore
  <2> QED BY <2>1, <2>2
<1>7. Patched(data, ops) = [k \in Key |-> IF k \in KeysOf(s) THEN wanted[k] ELSE data[k]]
  BY <1>6 DEF Patched
<1>8. ASSUME Unprocessable(data, ops)
      PROVE  \E k \in KeysOf(s) : wanted[k] = Absent /\ data[k] = Absent
  <2>1. PICK i \in DOMAIN s :
          \/ ops[i] = Undefined
          \/ /\ ops[i].op = "remove"
             /\ ~\E k \in Key : ops[i].path = {k} /\ ValueBefore(data, k, ops, i) # Absent
    BY <1>1, <1>8 DEF Unprocessable
  <2>2. PICK k \in KeysOf(s) : /\ ops[i] \in OpsOn(k) /\ ops[i].path = {k} /\ ops[i] # Undefined
                               /\ ops[i].value = wanted[k]
    BY <1>3
  <2>3. k \in Key
    BY DEF KeysOf
  <2>4. ops[i].op = "remove" /\ ValueBefore(data, k, ops, i) = Absent
    BY <2>1, <2>2, <2>3
  <2>5. LastOn(k, ops, i) = 0
    <3>1. i \in Nat /\ \A j \in DOMAIN s : j < i => j # i
      BY <1>1
    <3>2. \A j \in DOMAIN s : j < i => ops[j].path # {k}
      BY <1>4, <2>2, <3>1
    <3> QED BY <1>5, <2>3, <3>1, <3>2
  <2>6. data[k] = Absent
    BY <2>4, <2>5 DEF ValueBefore
  <2>7. wanted[k] = Absent
    BY <2>2, <2>3, <2>4, OpFacts
  <2> QED BY <2>6, <2>7
<1> QED BY <1>7, <1>8 DEF ops

(***************************************************************************)
(* A pod's cache c and unanswered patches w, where wanted is asked for and *)
(* data is stored.                                                         *)
(***************************************************************************)

Message == [sent : Seq(Entries), stage : Stage \ {"error"}, awaited : {TRUE}]

\* The cache has not been stored yet.
Open(c, w) == c # << >> /\ \A j \in DOMAIN w : w[j].stage # "ok"

\* The keys that are written, or have been and not all answers are there.
InHand(c, w) == KeysOf(c) \cup UNION {KeysOf(w[j].sent) : j \in DOMAIN w}

\* A patch is of the cache as it still is, or as it was when it was flushed; one is
\* refused only after it has been stored.
SentOK(c, w, m, wanted) ==
  /\ Batch(m.sent) /\ Asks(m.sent, wanted)
  /\ c = << >> \/ c = m.sent
  /\ m.stage = "unprocessable" => ~Open(c, w)

\* What the cache is to remove is there.
PodOK(c, w, wanted, data) ==
  /\ Batch(c) /\ Asks(c, wanted)
  /\ \A j \in DOMAIN w : SentOK(c, w, w[j], wanted)
  /\ Open(c, w) => \A k \in KeysOf(c) : wanted[k] = Absent => data[k] # Absent

LEMMA NothingAsked ==
  /\ Batch(<< >>) /\ KeysOf(<< >>) = {} /\ \A wanted : Asks(<< >>, wanted)
BY DEF Batch, KeysOf, Asks

\* What others write of other keys does not matter to a pod.
LEMMA OthersWrite ==
  ASSUME NEW c, NEW w, NEW wanted, NEW data, PodOK(c, w, wanted, data), NEW wants, NEW now,
         \A k \in InHand(c, w) : wants[k] = wanted[k] /\ now[k] = data[k]
  PROVE  PodOK(c, w, wants, now)
<1>1. ASSUME NEW s, Asks(s, wanted), KeysOf(s) \subseteq InHand(c, w) PROVE Asks(s, wants)
  BY <1>1 DEF Asks, KeysOf
<1>2. KeysOf(c) \subseteq InHand(c, w) /\ \A j \in DOMAIN w : KeysOf(w[j].sent) \subseteq InHand(c, w)
  BY DEF InHand
<1>3. Batch(c) /\ Asks(c, wants)
  BY <1>1, <1>2 DEF PodOK
<1>4. ASSUME NEW j \in DOMAIN w PROVE SentOK(c, w, w[j], wants)
  BY <1>1, <1>2 DEF PodOK, SentOK
<1>5. Open(c, w) => \A k \in KeysOf(c) : wants[k] = Absent => now[k] # Absent
  BY <1>2 DEF PodOK
<1> QED BY <1>3, <1>4, <1>5 DEF PodOK

\* A pod writes a key when it has no patch to be answered.
LEMMA PodWrites ==
  ASSUME OwnIndexes, NEW c, NEW wanted, NEW data, PodOK(c, << >>, wanted, data),
         NEW k \in Key, k \notin KeysOf(c), NEW o \in OpsOn(k), NEW wants, wants[k] = o.value,
         \A l \in KeysOf(c) : wants[l] = wanted[l], o.value = Absent => data[k] # Absent
  PROVE  /\ PodOK(fillStoreCache(c, o), << >>, wants, data)
         /\ Open(fillStoreCache(c, o), << >>)
         /\ KeysOf(fillStoreCache(c, o)) = KeysOf(c) \cup {k}
<1>1. PICK d : d = fillStoreCache(c, o)
  OBVIOUS
<1>2. Batch(c) /\ Asks(c, wanted)
  BY DEF PodOK
<1>3. /\ Batch(d) /\ d # << >> /\ KeysOf(d) = KeysOf(c) \cup {k}
      /\ Asks(d, wants)
  BY <1>1, <1>2, FillFacts
<1>4. Open(d, << >>)
  BY <1>3 DEF Open
<1>5. ASSUME NEW l \in KeysOf(d), wants[l] = Absent PROVE data[l] # Absent
  <2>1. CASE l = k
    BY <1>5, <2>1
  <2>2. CASE l # k
    <3>1. l \in KeysOf(c) /\ c # << >>
      BY <1>3, <2>2, NothingAsked
    <3>2. Open(c, << >>)
      BY <3>1 DEF Open
    <3> QED BY <1>5, <3>1, <3>2 DEF PodOK
  <2> QED BY <2>1, <2>2
<1>6. PodOK(d, << >>, wants, data)
  BY <1>3, <1>5 DEF PodOK
<1> QED BY <1>1, <1>3, <1>4, <1>6

\* A pod sends its cache.
LEMMA PodSends ==
  ASSUME NEW c, c # << >>, NEW w \in Seq(Message), NEW wanted, NEW data, PodOK(c, w, wanted, data),
         NEW m, m = [sent |-> c, stage |-> "sent", awaited |-> TRUE]
  PROVE  /\ m \in Message /\ Append(w, m) \in Seq(Message)
         /\ PodOK(c, Append(w, m), wanted, data)
         /\ Open(c, Append(w, m)) <=> Open(c, w)
         /\ InHand(c, Append(w, m)) = InHand(c, w)
<1>1. PICK u : u = Append(w, m)
  OBVIOUS
<1>2. m \in Message /\ m.sent = c /\ m.stage = "sent"
  BY DEF Message, Stage, PodOK, Batch
<1>3. u \in Seq(Message)
  BY <1>1, <1>2
<1>4. /\ \A j \in DOMAIN w : j \in DOMAIN u /\ u[j] = w[j]
      /\ \A j \in DOMAIN u : (j \in DOMAIN w /\ u[j] = w[j]) \/ u[j] = m
  BY <1>1, <1>2
<1>5. Open(c, u) <=> Open(c, w)
  BY <1>2, <1>4 DEF Open
<1>6. ASSUME NEW j \in DOMAIN u PROVE SentOK(c, u, u[j], wanted)
  <2>1. CASE j \in DOMAIN w /\ u[j] = w[j]
    BY <1>5, <2>1 DEF PodOK, SentOK
  <2>2. CASE u[j] = m
    BY <1>2, <2>2 DEF PodOK, SentOK
  <2> QED BY <1>4, <2>1, <2>2
<1>7. PodOK(c, u, wanted, data)
  BY <1>5, <1>6 DEF PodOK
<1>8. InHand(c, u) = InHand(c, w)
  <2>1. \A j \in DOMAIN u : KeysOf(u[j].sent) \subseteq InHand(c, w)
    BY <1>2, <1>4 DEF InHand
  <2>2. \A j \in DOMAIN w : KeysOf(w[j].sent) \subseteq InHand(c, u)
    BY <1>4 DEF InHand
  <2> QED BY <2>1, <2>2 DEF InHand
<1> QED BY <1>1, <1>2, <1>3, <1>5, <1>7, <1>8

\* A patch of the pod is served: stored, or refused, which it is only once it has
\* been stored.
Served(w, j, stage) == [w EXCEPT ![j] = [w[j] EXCEPT !.stage = stage]]
AfterServing(c, w, j, stage, wanted, u) ==
  /\ u \in Seq(Message) /\ InHand(c, u) = InHand(c, w)
  /\ ~Open(c, u) /\ \A now : PodOK(c, u, wanted, now)
  /\ stage = "unprocessable" => ~Open(c, w)
  /\ KeysOf(w[j].sent) \subseteq InHand(c, w)
  /\ Open(c, w) => KeysOf(c) \subseteq KeysOf(w[j].sent)

LEMMA PodServed ==
  ASSUME NEW c, NEW w \in Seq(Message), NEW wanted, NEW data, PodOK(c, w, wanted, data),
         NEW j \in DOMAIN w, w[j].stage = "sent", NEW stage \in {"ok", "unprocessable"},
         stage # "unprocessable" \/ Unprocessable(data, Operations(w[j].sent))
  PROVE  AfterServing(c, w, j, stage, wanted, Served(w, j, stage))
<1>0. PICK u : u = Served(w, j, stage)
  OBVIOUS
<1>1. PICK m : m = [w[j] EXCEPT !.stage = stage]
  OBVIOUS
<1>2. w[j] \in Message /\ SentOK(c, w, w[j], wanted)
  BY DEF PodOK
<1>3. m \in Message /\ m.sent = w[j].sent /\ m.stage = stage
  BY <1>1, <1>2 DEF Message, Stage
<1>4. u = [w EXCEPT ![j] = m]
  BY <1>0, <1>1 DEF Served
<1>5. /\ u \in Seq(Message) /\ DOMAIN u = DOMAIN w /\ u[j] = m
      /\ \A i \in DOMAIN w : i # j => u[i] = w[i]
  BY <1>3, <1>4
<1>6. \A i \in DOMAIN w : u[i].sent = w[i].sent
  BY <1>3, <1>5
<1>7. InHand(c, u) = InHand(c, w) /\ KeysOf(w[j].sent) \subseteq InHand(c, w)
  BY <1>5, <1>6 DEF InHand
<1>8. Open(c, w) => KeysOf(c) \subseteq KeysOf(w[j].sent)
  BY <1>2 DEF SentOK, Open
<1>9. stage = "unprocessable" => ~Open(c, w)
  <2> SUFFICES ASSUME stage = "unprocessable", Open(c, w) PROVE FALSE
    OBVIOUS
  <2>1. c = w[j].sent /\ Batch(c) /\ Asks(c, wanted)
    BY <1>2 DEF SentOK, Open
  <2>2. PICK k \in KeysOf(c) : wanted[k] = Absent /\ data[k] = Absent
    BY <2>1, PatchFacts
  <2> QED BY <2>2 DEF PodOK
<1>10. Open(c, u) => Open(c, w) /\ stage # "ok"
  <2> SUFFICES ASSUME Open(c, u) PROVE Open(c, w) /\ stage # "ok"
    OBVIOUS
  <2>1. c # << >> /\ \A i \in DOMAIN w : u[i].stage # "ok"
    BY <1>5 DEF Open
  <2>2. \A i \in DOMAIN w : w[i].stage # "ok"
    BY <1>5, <2>1
  <2>3. stage # "ok"
    BY <1>3, <1>5, <2>1
  <2> QED BY <2>1, <2>2, <2>3 DEF Open
<1>11. ~Open(c, u)
  BY <1>9, <1>10
<1>12. ASSUME NEW i \in DOMAIN u PROVE SentOK(c, u, u[i], wanted)
  <2>1. SentOK(c, w, w[i], wanted) /\ u[i].sent = w[i].sent
    BY <1>5, <1>6 DEF PodOK
  <2> QED BY <1>11, <2>1 DEF SentOK
<1>13. \A now : PodOK(c, u, wanted, now)
  BY <1>11, <1>12 DEF PodOK
<1> QED BY <1>0, <1>5, <1>7, <1>8, <1>9, <1>11, <1>13, Zenon DEF AfterServing

\* A patch is answered, and the cache flushed.
LEMMA PodAnswered ==
  ASSUME NEW c, NEW w \in Seq(Message), NEW wanted, NEW data, PodOK(c, w, wanted, data),
         NEW j \in DOMAIN w, w[j].stage # "sent"
  PROVE  LET u == SubSeq(w, 1, j - 1) \o SubSeq(w, j + 1, Len(w))
         IN  /\ u \in Seq(Message) /\ PodOK(<< >>, u, wanted, data)
             /\ InHand(<< >>, u) \subseteq InHand(c, w)
             /\ ~Open(c, w) /\ ~Open(<< >>, u)
<1>u. PICK u : u = SubSeq(w, 1, j - 1) \o SubSeq(w, j + 1, Len(w))
  OBVIOUS
<1>0. Len(w) \in Nat /\ DOMAIN w = 1..Len(w) /\ j \in 1..Len(w) /\ j \in Int
  OBVIOUS
<1>1. PICK n \in Nat : n = Len(w) /\ DOMAIN w = 1..n /\ j \in 1..n /\ j \in Int
  BY <1>0, Zenon
<1>2. PICK v : v = SubSeq(w, 1, j - 1)
  OBVIOUS
<1>3. PICK x : x = SubSeq(w, j + 1, n)
  OBVIOUS
<1>4. /\ v \in Seq(Message) /\ Len(v) = j - 1 /\ \A i \in 1..(j - 1) : v[i] = w[i]
  BY <1>1, <1>2
<1>5. /\ x \in Seq(Message) /\ Len(x) = n - j
      /\ \A i \in 1..(n - j) : x[i] = w[j + i]
  <2>1. \A i \in (j + 1)..n : w[i] \in Message
    BY <1>1
  <2>2. j + 1 \in Int /\ n \in Int
    BY <1>1
  <2>3. /\ x \in Seq(Message)
        /\ Len(x) = IF j + 1 <= n THEN n - (j + 1) + 1 ELSE 0
        /\ \A i \in 1..(n - (j + 1) + 1) : x[i] = w[(j + 1) + i - 1]
    BY <1>3, <2>1, <2>2, SubSeqProperties
  <2>4. n - (j + 1) + 1 = n - j /\ \A i \in 1..(n - j) : (j + 1) + i - 1 = j + i
    BY <1>1
  <2>5. Len(x) = n - j
    BY <1>1, <2>3
  <2> QED BY <2>3, <2>4, <2>5
<1>6. /\ u \in Seq(Message) /\ DOMAIN u = 1..(n - 1)
      /\ \A i \in 1..(n - 1) : u[i] = IF i <= j - 1 THEN v[i] ELSE x[i - (j - 1)]
  <2>1. u = v \o x
    BY <1>u, <1>1, <1>2, <1>3
  <2>2. Len(v) + Len(x) = n - 1
    <3>1. Len(v) = j - 1 /\ Len(x) = n - j
      BY <1>4, <1>5, Zenon
    <3>2. j \in Int /\ n \in Int
      BY <1>1
    <3> QED BY <3>1, <3>2
  <2>3. v \in Seq(Message) /\ x \in Seq(Message)
    BY <1>4, <1>5
  <2>4. /\ u \in Seq(Message) /\ Len(u) = Len(v) + Len(x)
        /\ \A i \in 1..(Len(v) + Len(x)) : u[i] = IF i <= Len(v) THEN v[i] ELSE x[i - Len(v)]
    BY <2>1, <2>3, ConcatProperties
  <2>5. DOMAIN u = 1..(n - 1)
    BY <2>2, <2>4
  <2> QED BY <1>4, <2>2, <2>4, <2>5
<1>7. \A i \in DOMAIN u : \E l \in DOMAIN w : u[i] = w[l]
  <2>1. ASSUME NEW i \in 1..(n - 1), i <= j - 1 PROVE u[i] = w[i] /\ i \in 1..n
    <3>1. i \in 1..(j - 1) /\ i \in 1..n
      BY <1>1, <2>1
    <3> QED BY <1>4, <1>6, <2>1, <3>1
  <2>2. ASSUME NEW i \in 1..(n - 1), ~(i <= j - 1) PROVE u[i] = w[i + 1] /\ i + 1 \in 1..n
    <3>0. i \in Int /\ j \in Int /\ n \in Int /\ 1 <= j /\ j <= i /\ i <= n - 1
      BY <1>1, <2>2
    <3>1. i + 1 \in 1..n /\ i - (j - 1) = (i - j) + 1
      BY <3>0
    <3>2. (i - j) + 1 \in 1..(n - j) /\ j + ((i - j) + 1) = i + 1
      BY <3>0
    <3> QED BY <1>5, <1>6, <2>2, <3>1, <3>2
  <2> QED BY <1>1, <1>6, <2>1, <2>2
<1>8. ~Open(<< >>, u)
  BY DEF Open
<1>9. ~Open(c, w)
  <2>1. w[j] \in Message /\ SentOK(c, w, w[j], wanted)
    BY DEF PodOK
  <2>2. w[j].stage \in {"ok", "unprocessable"}
    BY <2>1 DEF Message, Stage
  <2> QED BY <2>1, <2>2 DEF SentOK, Open
<1>10. ASSUME NEW i \in DOMAIN u PROVE SentOK(<< >>, u, u[i], wanted)
  BY <1>7, <1>8 DEF PodOK, SentOK
<1>11. PodOK(<< >>, u, wanted, data)
  BY <1>8, <1>10, NothingAsked DEF PodOK
<1>12. InHand(<< >>, u) \subseteq InHand(c, w)
  BY <1>7, NothingAsked DEF InHand
<1> QED BY <1>u, <1>6, <1>8, <1>9, <1>11, <1>12, Zenon

(***************************************************************************)
(* The store of callers that take no liberties.                            *)
(***************************************************************************)

Now == log[Latest]
Contents == [Key -> Value \cup {Absent}]

Shaped ==
  /\ cache \in [Pod -> Seq(Entries)] /\ wire \in [Pod -> Seq(Message)]
  /\ want \in Contents /\ Now \in Contents
  /\ failures = 0 /\ restarts = 0

\* No two pods have the same key in hand.
Apart ==
  \A p, q \in Pod : p # q => InHand(cache[p], wire[p]) \cap InHand(cache[q], wire[q]) = {}

\* What is wanted is stored, or is on its way.
Kept ==
  \A k \in Key : \/ Now[k] = want[k]
                 \/ \E p \in Pod : Open(cache[p], wire[p]) /\ k \in KeysOf(cache[p])

SInv ==
  /\ Shaped /\ Apart /\ Kept
  /\ \A p \in Pod : PodOK(cache[p], wire[p], want, Now)

\* The last revision is the one that was made last.
LEMMA NowFacts ==
  ASSUME ViewInv, NEW d, log' = Append(log, d) PROVE Now' = d
<1>1. PICK S : log \in Seq(S)
  BY DEF ViewInv, IsSeq
<1>2. log \in Seq(S \cup {d})
  BY <1>1, SeqMonotonic
<1>3. Len(log') = Len(log) + 1 /\ log'[Len(log) + 1] = d
  BY <1>2
<1> QED BY <1>3 DEF Now, Latest

\* A step of pod p that leaves the keys that others have in hand alone.
LEMMA PodStep ==
  ASSUME SInv, NEW p \in Pod, NEW c \in Seq(Entries), NEW w \in Seq(Message),
         cache' = [cache EXCEPT ![p] = c], wire' = [wire EXCEPT ![p] = w],
         want' \in Contents, Now' \in Contents, UNCHANGED <<failures, restarts>>,
         PodOK(c, w, want', Now'),
         \A q \in Pod \ {p} :
           /\ InHand(c, w) \cap InHand(cache[q], wire[q]) = {}
           /\ \A k \in InHand(cache[q], wire[q]) : want'[k] = want[k] /\ Now'[k] = Now[k],
         \A k \in Key : \/ Now'[k] = want'[k]
                        \/ Open(c, w) /\ k \in KeysOf(c)
                        \/ \E q \in Pod \ {p} : Open(cache[q], wire[q]) /\ k \in KeysOf(cache[q])
  PROVE  SInv'
<1>1. /\ cache' \in [Pod -> Seq(Entries)] /\ wire' \in [Pod -> Seq(Message)]
      /\ cache'[p] = c /\ wire'[p] = w
      /\ \A q \in Pod \ {p} : cache'[q] = cache[q] /\ wire'[q] = wire[q]
  BY DEF SInv, Shaped
<1>2. Shaped'
  BY <1>1 DEF SInv, Shaped
<1>3. Apart'
  BY <1>1 DEF SInv, Apart
<1>4. Kept'
  BY <1>1 DEF Kept
<1>5. ASSUME NEW q \in Pod \ {p} PROVE PodOK(cache[q], wire[q], want', Now')
  BY OthersWrite DEF SInv
<1>6. \A q \in Pod : PodOK(cache'[q], wire'[q], want', Now')
  BY <1>1, <1>5
<1> QED BY <1>2, <1>3, <1>4, <1>6 DEF SInv

\* What the discipline of writing is for.
LEMMA SettledIsFree ==
  ASSUME NEW k \in Key, ~Unsettled(k), NEW q \in Pod
  PROVE  k \notin InHand(cache[q], wire[q])
<1>1. \A i \in DOMAIN cache[q] : cache[q][i].operation.path # {k}
  BY DEF Unsettled
<1>2. \A j \in DOMAIN wire[q] : \A i \in DOMAIN wire[q][j].sent :
        wire[q][j].sent[i].operation.path # {k}
  BY DEF Unsettled
<1> QED BY <1>1, <1>2 DEF InHand, KeysOf

\* A call writes a key that nobody has in hand.
LEMMA CallsKeep ==
  ASSUME Disciplined, OwnIndexes, SInv, NEW p \in Pod, NEW k \in Key, NEW o \in OpsOn(k),
         NEW wants \in Contents, Write(p, o, wants), wants[k] = o.value,
         o.value = Absent => Now[k] # Absent,
         \A l \in Key \ {k} :
           wants[l] = want[l] \/ (wants[l] = Now[l] /\ \A q \in Pod : l \notin InHand(cache[q], wire[q]))
  PROVE  SInv'
<1>1. o.path = {k}
  BY OpFacts
<1>2. /\ wire[p] = << >> /\ ~Unsettled(k)
      /\ cache' = [cache EXCEPT ![p] = fillStoreCache(cache[p], o)] /\ want' = wants
      /\ UNCHANGED <<log, wire, failures, restarts>>
  BY <1>1 DEF Write, Permitted, Disciplined
<1>3. \A q \in Pod : k \notin InHand(cache[q], wire[q])
  BY <1>2, SettledIsFree
<1>4. PICK d : d = fillStoreCache(cache[p], o)
  OBVIOUS
<1>5. PodOK(cache[p], << >>, want, Now) /\ k \notin KeysOf(cache[p])
  BY <1>2, <1>3 DEF SInv, InHand
<1>6. \A q \in Pod : \A l \in InHand(cache[q], wire[q]) : l \in Key /\ wants[l] = want[l]
  BY <1>3 DEF InHand, KeysOf
<1>7. \A l \in KeysOf(cache[p]) : wants[l] = want[l]
  BY <1>6 DEF InHand
<1>8. PodOK(d, << >>, wants, Now) /\ Open(d, << >>) /\ KeysOf(d) = KeysOf(cache[p]) \cup {k}
  BY <1>4, <1>5, <1>7, PodWrites
<1>9. Now' = Now
  BY <1>2 DEF Now, Latest
<1>10. InHand(d, << >>) = InHand(cache[p], wire[p]) \cup {k}
  BY <1>2, <1>8 DEF InHand
<1>11. /\ d \in Seq(Entries) /\ wire[p] \in Seq(Message) /\ wire' = [wire EXCEPT ![p] = << >>]
       /\ Now \in Contents /\ << >> \in Seq(Message)
  BY <1>2, <1>8 DEF SInv, Shaped, PodOK, Batch
<1>12. ASSUME NEW l \in Key
       PROVE  \/ Now[l] = wants[l]
              \/ Open(d, << >>) /\ l \in KeysOf(d)
              \/ \E q \in Pod \ {p} : Open(cache[q], wire[q]) /\ l \in KeysOf(cache[q])
  <2>1. CASE l = k
    BY <1>8, <2>1
  <2>2. CASE l # k /\ wants[l] = want[l]
    BY <1>8, <2>2 DEF SInv, Kept
  <2> QED BY <2>1, <2>2
<1>13. ASSUME NEW q \in Pod \ {p}
       PROVE  /\ InHand(d, << >>) \cap InHand(cache[q], wire[q]) = {}
              /\ \A l \in InHand(cache[q], wire[q]) : want'[l] = want[l] /\ Now'[l] = Now[l]
  BY <1>2, <1>3, <1>6, <1>9, <1>10 DEF SInv, Apart
<1> QED BY <1>2, <1>4, <1>8, <1>9, <1>11, <1>12, <1>13, PodStep

\* Every call is of one key, also that of clear: a store of several is not cleared.
LEMMA CallKeeps ==
  ASSUME Disciplined, OwnIndexes, ViewInv, SInv, NEW p \in Pod, Call(p) PROVE SInv'
<1>0. want \in Contents /\ Now \in Contents /\ Empty \in Contents
  BY DEF SInv, Shaped, Contents, Empty
<1>1. ASSUME NEW k \in Key, NEW v \in Value, Write(p, Add(k, v), [want EXCEPT ![k] = v])
      PROVE  SInv'
  <2>1. PICK wants : wants = [want EXCEPT ![k] = v]
    OBVIOUS
  <2>2. wants \in Contents /\ wants[k] = v /\ \A l \in Key \ {k} : wants[l] = want[l]
    BY <1>0, <2>1 DEF Contents
  <2>3. PICK o \in OpsOn(k) : o = Add(k, v)
    BY DEF OpsOn
  <2>4. o.value = v /\ v # Absent
    BY <2>3, ValueAssumption DEF Add
  <2> QED BY <1>1, <2>1, <2>2, <2>3, <2>4, CallsKeep
<1>2. ASSUME NEW k \in Key, MayRemove(k), Write(p, Remove({k}), [want EXCEPT ![k] = Absent])
      PROVE  SInv'
  <2>1. PICK wants : wants = [want EXCEPT ![k] = Absent]
    OBVIOUS
  <2>2. wants \in Contents /\ wants[k] = Absent /\ \A l \in Key \ {k} : wants[l] = want[l]
    BY <1>0, <2>1 DEF Contents
  <2>3. PICK o \in OpsOn(k) : o = Remove({k})
    BY DEF OpsOn
  <2>4. o.value = Absent /\ Now[k] # Absent
    BY <1>2, <2>3 DEF Remove, MayRemove, Disciplined, Now
  <2> QED BY <1>2, <2>1, <2>2, <2>3, <2>4, CallsKeep
<1>3. CASE clear(p)
  <2>1. PICK ks : /\ ks = Present(Store(p)) /\ ks # {} /\ ~(Cardinality(ks) > 1)
                  /\ Store(p) = Now /\ (\A l \in Key : ~Unsettled(l)) /\ Write(p, Remove(ks), Empty)
    BY <1>3 DEF clear, Disciplined, Now
  <2>2. ks = {l \in Key : Now[l] # Absent}
    BY <2>1 DEF Present
  <2>3. PICK k : ks = {k}
    <3>1. IsFiniteSet(ks)
      BY <2>2, BoundsAssumption, FS_Subset
    <3>2. Cardinality(ks) \in Nat /\ Cardinality(ks) # 0
      BY <2>1, <3>1, FS_CardinalityType, FS_EmptySet
    <3>3. Cardinality(ks) = 1
      BY <2>1, <3>2
    <3> QED BY <3>1, <3>3, FS_Singleton
  <2>4. k \in Key /\ Now[k] # Absent /\ \A l \in Key \ {k} : Now[l] = Absent
    BY <2>2, <2>3
  <2>5. PICK o \in OpsOn(k) : o = Remove({k})
    BY DEF OpsOn
  <2>6. o.value = Absent
    BY <2>5 DEF Remove
  <2>7. \A l \in Key, q \in Pod : l \notin InHand(cache[q], wire[q])
    BY <2>1, SettledIsFree
  <2>8. PICK wants : wants = Empty /\ wants \in Contents /\ \A l \in Key : wants[l] = Absent
    BY <1>0 DEF Empty
  <2> QED BY <2>1, <2>3, <2>4, <2>5, <2>6, <2>7, <2>8, CallsKeep
<1> QED BY <1>1, <1>2, <1>3, BoundsAssumption
        DEF Call, setItem, setItemAndWait, removeItem, removeItemAndWait

\* A batch is sent as it is.
LEMMA SendKeeps ==
  ASSUME SInv, NEW p \in Pod, SendInterval(p)
  PROVE  SInv' /\ UNCHANGED <<log, want, replica>>
<1>1. cache[p] # << >> /\ PodOK(cache[p], wire[p], want, Now)
  BY DEF SendInterval, SInv
<1>2. ~HoldsUndefined(cache[p])
  <2>1. ASSUME NEW i \in DOMAIN cache[p] PROVE cache[p][i].operation # Undefined
    <3>1. PICK k \in KeysOf(cache[p]) : cache[p][i].operation \in OpsOn(k)
      BY <1>1, BatchFacts DEF PodOK
    <3> QED BY <3>1, OpFacts DEF KeysOf
  <2> QED BY <2>1 DEF HoldsUndefined
<1>3. Send(p)
  BY <1>2 DEF SendInterval
<1>4. PICK m : m = [sent |-> cache[p], stage |-> "sent", awaited |-> TRUE]
  OBVIOUS
<1>5. PICK u : u = Append(wire[p], m)
  OBVIOUS
<1>6. /\ wire' = [wire EXCEPT ![p] = u] /\ UNCHANGED <<log, cache, want, replica, failures, restarts>>
  BY <1>3, <1>4, <1>5 DEF Send
<1>7. wire[p] \in Seq(Message)
  BY DEF SInv, Shaped
<1>8. /\ u \in Seq(Message) /\ PodOK(cache[p], u, want, Now)
      /\ Open(cache[p], u) <=> Open(cache[p], wire[p])
      /\ InHand(cache[p], u) = InHand(cache[p], wire[p])
  BY <1>1, <1>4, <1>5, <1>7, PodSends
<1>9. Now' = Now
  BY <1>6 DEF Now, Latest
<1>10. /\ cache[p] \in Seq(Entries) /\ cache' = [cache EXCEPT ![p] = cache[p]]
       /\ want' \in Contents /\ Now' \in Contents
  BY <1>6, <1>9 DEF SInv, Shaped
<1>11. ASSUME NEW q \in Pod \ {p}
       PROVE  /\ InHand(cache[p], u) \cap InHand(cache[q], wire[q]) = {}
              /\ \A l \in InHand(cache[q], wire[q]) : want'[l] = want[l] /\ Now'[l] = Now[l]
  BY <1>6, <1>8, <1>9 DEF SInv, Apart
<1>12. ASSUME NEW l \in Key
       PROVE  \/ Now'[l] = want'[l]
              \/ Open(cache[p], u) /\ l \in KeysOf(cache[p])
              \/ \E q \in Pod \ {p} : Open(cache[q], wire[q]) /\ l \in KeysOf(cache[q])
  BY <1>6, <1>8, <1>9 DEF SInv, Kept
<1> QED BY <1>6, <1>8, <1>9, <1>10, <1>11, <1>12, PodStep

\* A batch is stored whole, as it is wanted.
LEMMA ServeKeeps ==
  ASSUME ViewInv, SInv, NEW p \in Pod, NEW j \in DOMAIN wire[p], ServePatch(p, j)
  PROVE  /\ SInv' /\ UNCHANGED <<want, replica>>
         /\ \/ log' = log
            \/ \E ks \in SUBSET Key :
                 log' = Append(log, [k \in Key |-> IF k \in ks THEN want[k] ELSE Now[k]])
<1>1. PICK c, w, m : c = cache[p] /\ w = wire[p] /\ m = w[j]
  OBVIOUS
<1>2. /\ w \in Seq(Message) /\ c \in Seq(Entries) /\ PodOK(c, w, want, Now) /\ j \in DOMAIN w
      /\ m.stage = "sent" /\ UNCHANGED <<cache, want, replica, failures, restarts>>
  BY <1>1 DEF SInv, Shaped, ServePatch
<1>3. PICK stage \in {"ok", "unprocessable"} :
        /\ SetStage(p, j, stage)
        /\ stage = "unprocessable" => Unprocessable(Now, Operations(m.sent)) /\ log' = log
        /\ stage = "ok" => log' = Append(log, Patched(Now, Operations(m.sent)))
  BY <1>1 DEF ServePatch, updateCacheID, Now
<1>4. PICK u : u = [w EXCEPT ![j] = [w[j] EXCEPT !.stage = stage]]
  OBVIOUS
<1>5. wire' = [wire EXCEPT ![p] = u]
  BY <1>1, <1>3, <1>4, Zenon DEF SetStage
<1>0. /\ stage = "unprocessable" => Unprocessable(Now, Operations(w[j].sent))
      /\ w[j].stage = "sent" /\ m.sent = w[j].sent
  BY <1>1, <1>2, <1>3
<1>6. /\ u \in Seq(Message) /\ InHand(c, u) = InHand(c, w)
      /\ ~Open(c, u) /\ \A now : PodOK(c, u, want, now)
      /\ stage = "unprocessable" => ~Open(c, w)
      /\ KeysOf(m.sent) \subseteq InHand(c, w)
      /\ Open(c, w) => KeysOf(c) \subseteq KeysOf(m.sent)
  <2>1. stage # "unprocessable" \/ Unprocessable(Now, Operations(w[j].sent))
    BY <1>0
  <2>2. AfterServing(c, w, j, stage, want, Served(w, j, stage))
    BY <1>0, <1>2, <2>1, PodServed, Zenon
  <2> QED BY <1>0, <1>4, <2>2, Zenon DEF AfterServing, Served
<1>7. Batch(m.sent) /\ Asks(m.sent, want)
  BY <1>1, <1>2 DEF PodOK, SentOK
<1>8. cache' = [cache EXCEPT ![p] = c] /\ want' \in Contents
  BY <1>1, <1>2 DEF SInv, Shaped
<1>9. \A q \in Pod \ {p} : InHand(c, u) \cap InHand(cache[q], wire[q]) = {}
  BY <1>1, <1>6 DEF SInv, Apart
<1>10. CASE stage = "unprocessable"
  <2>1. log' = log /\ Now' = Now
    BY <1>3, <1>10 DEF Now, Latest
  <2>2. \A l \in Key : \/ Now'[l] = want'[l]
                       \/ \E q \in Pod \ {p} : Open(cache[q], wire[q]) /\ l \in KeysOf(cache[q])
    BY <1>1, <1>2, <1>6, <1>10, <2>1 DEF SInv, Kept
  <2>3. PodOK(c, u, want', Now') /\ Now' \in Contents
    BY <1>2, <1>6, <1>10, <2>1 DEF SInv, Shaped
  <2>4. \A q \in Pod \ {p} :
          /\ InHand(c, u) \cap InHand(cache[q], wire[q]) = {}
          /\ \A l \in InHand(cache[q], wire[q]) : want'[l] = want[l] /\ Now'[l] = Now[l]
    BY <1>2, <1>9, <2>1
  <2>5. SInv'
    BY <1>2, <1>5, <1>6, <1>8, <2>2, <2>3, <2>4, PodStep
  <2> QED BY <1>2, <2>1, <2>5
<1>11. CASE stage = "ok"
  <2>1. PICK d : d = [k \in Key |-> IF k \in KeysOf(m.sent) THEN want[k] ELSE Now[k]]
    OBVIOUS
  <2>2. log' = Append(log, d)
    BY <1>3, <1>7, <1>11, <2>1, PatchFacts
  <2>3. Now' = d
    BY <2>2, NowFacts
  <2>4. KeysOf(m.sent) \in SUBSET Key
    BY DEF KeysOf
  <2>5. d \in Contents /\ \A k \in Key : d[k] = IF k \in KeysOf(m.sent) THEN want[k] ELSE Now[k]
    BY <2>1 DEF SInv, Shaped, Contents
  <2>6. ASSUME NEW l \in Key
        PROVE  \/ Now'[l] = want'[l]
               \/ \E q \in Pod \ {p} : Open(cache[q], wire[q]) /\ l \in KeysOf(cache[q])
    BY <1>1, <1>2, <1>6, <2>3, <2>5 DEF SInv, Kept
  <2>7. ASSUME NEW q \in Pod \ {p}, NEW l \in InHand(cache[q], wire[q])
        PROVE  want'[l] = want[l] /\ Now'[l] = Now[l]
    <3>1. l \in Key
      BY DEF InHand, KeysOf
    <3>2. l \notin KeysOf(m.sent)
      BY <1>6, <1>9
    <3> QED BY <1>2, <2>3, <2>5, <3>1, <3>2
  <2>8. PodOK(c, u, want', Now') /\ Now' \in Contents
    BY <1>2, <1>6, <1>11, <2>3, <2>5
  <2>9. SInv'
    BY <1>2, <1>5, <1>6, <1>8, <1>9, <2>6, <2>7, <2>8, PodStep
  <2> QED BY <1>2, <2>1, <2>2, <2>4, <2>9
<1> QED BY <1>10, <1>11

\* An answer flushes what has been stored.
LEMMA AnswerKeeps ==
  ASSUME SInv, NEW p \in Pod, NEW j \in DOMAIN wire[p], Answer(p, j)
  PROVE  SInv' /\ UNCHANGED <<log, want, replica>>
<1>1. PICK c, w, m : c = cache[p] /\ w = wire[p] /\ m = w[j]
  OBVIOUS
<1>2. /\ w \in Seq(Message) /\ PodOK(c, w, want, Now) /\ j \in DOMAIN w /\ m \in Message
      /\ w[j].stage # "sent" /\ UNCHANGED <<log, want, replica, failures, restarts>>
  BY <1>1 DEF SInv, Shaped, Answer
<1>3. PICK u : u = SubSeq(w, 1, j - 1) \o SubSeq(w, j + 1, Len(w))
  OBVIOUS
<1>4. wire' = [wire EXCEPT ![p] = u]
  BY <1>1, <1>3 DEF Answer
<1>5. m.awaited /\ m.stage \in {"ok", "unprocessable"}
  BY <1>1, <1>2 DEF Message, Stage
<1>6. cache' = [cache EXCEPT ![p] = << >>]
  BY <1>1, <1>5 DEF Answer, afterAnswer
<1>7. /\ u \in Seq(Message) /\ PodOK(<< >>, u, want, Now) /\ InHand(<< >>, u) \subseteq InHand(c, w)
      /\ ~Open(c, w) /\ ~Open(<< >>, u)
  BY <1>2, <1>3, PodAnswered, Zenon
<1>8. Now' = Now /\ want' = want /\ << >> \in Seq(Entries) /\ want' \in Contents /\ Now' \in Contents
  BY <1>2 DEF Now, Latest, SInv, Shaped
<1>9. ASSUME NEW q \in Pod \ {p}
      PROVE  /\ InHand(<< >>, u) \cap InHand(cache[q], wire[q]) = {}
             /\ \A l \in InHand(cache[q], wire[q]) : want'[l] = want[l] /\ Now'[l] = Now[l]
  BY <1>1, <1>7, <1>8 DEF SInv, Apart
<1>10. \A l \in Key : \/ Now'[l] = want'[l]
                      \/ \E q \in Pod \ {p} : Open(cache[q], wire[q]) /\ l \in KeysOf(cache[q])
  BY <1>1, <1>7, <1>8 DEF SInv, Kept
<1>11. PodOK(<< >>, u, want', Now')
  BY <1>7, <1>8
<1> QED BY <1>2, <1>4, <1>6, <1>7, <1>8, <1>9, <1>10, <1>11, PodStep

LEMMA InitKeeps == Init => SInv
<1> SUFFICES ASSUME Init PROVE SInv
  OBVIOUS
<1>1. Now = Empty /\ want = Empty /\ failures = 0 /\ restarts = 0
  BY DEF Init, Now, Latest
<1>2. Empty \in Contents
  BY DEF Empty, Contents
<1>3. /\ cache \in [Pod -> Seq(Entries)] /\ wire \in [Pod -> Seq(Message)]
      /\ \A p \in Pod : cache[p] = << >> /\ wire[p] = << >>
  BY DEF Init
<1>4. PodOK(<< >>, << >>, Empty, Empty) /\ InHand(<< >>, << >>) = {}
  BY NothingAsked DEF PodOK, InHand, Open
<1> QED BY <1>1, <1>2, <1>3, <1>4 DEF SInv, Shaped, Apart, Kept

\* What no step of a disciplined module's pods changes.
LEMMA StepKeeps ==
  ASSUME Disciplined, OwnIndexes, ViewInv, SInv, [Next]_vars PROVE SInv'
<1>1. ASSUME UNCHANGED <<log, cache, wire, want, failures, restarts>> PROVE SInv'
  <2>1. Now' = Now
    BY <1>1 DEF Now, Latest
  <2> QED BY <1>1, <2>1 DEF SInv, Shaped, Apart, Kept
<1>2. ASSUME NEW p \in Pod, Restart(p) \/ \E j \in DOMAIN wire[p] : FailPatch(p, j) PROVE FALSE
  BY <1>2 DEF Restart, FailPatch, Disciplined, SInv, Shaped
<1>3. ASSUME NEW p \in Pod,
             \/ Receive(p) \/ \E r \in 1..Latest : Debounced(p, r)
             \/ \E i \in DOMAIN waits[p] : Timeout(p, i)
      PROVE  SInv'
  <2>1. UNCHANGED <<log, cache, wire, want, failures, restarts>>
    BY <1>3 DEF Receive, Debounced, Timeout
  <2> QED BY <1>1, <2>1
<1>4. CASE UNCHANGED vars
  BY <1>1, <1>4 DEF vars
<1> QED BY <1>2, <1>3, <1>4, CallKeeps, SendKeeps, ServeKeeps, AnswerKeeps DEF Next

LEMMA Keeping == ASSUME Disciplined, OwnIndexes PROVE Spec => []SInv
<1>1. ViewInv /\ SInv /\ [Next]_vars => SInv'
  BY StepKeeps
<1> QED BY <1>1, InitKeeps, ViewsInOrder, PTL DEF Spec

\* A pod holds only revisions the watch has delivered, and its debounce timer the
\* newest of them.
THEOREM TypeCorrect == Spec => []TypeOK
<1>1. ViewInv => TypeOK
  BY DEF ViewInv, ViewInOrder, TypeOK
<1> QED BY <1>1, ViewsInOrder, PTL

\* No pod's view of the store goes back, unless the pod starts over.
THEOREM ReadsAreMonotonic == Spec => MonotonicReads
<1>1. ViewInv /\ [Next]_vars =>
        [\A p \in Pod : replica'[p] >= replica[p] \/ replica'[p] = 0]_vars
  BY StepInOrder
<1> QED BY <1>1, ViewsInOrder, PTL DEF Spec, MonotonicReads

\* Callers that do not write while a patch is unanswered, nor a key, nor clear, while
\* an earlier write is on its way, nor remove what is not there, nor clear several keys,
\* lose no write, whatever the number of pods, keys, patches sent twice and late
\* answers, if no patch fails, no pod starts over and no index string is shared.
THEOREM NothingLost == ASSUME Disciplined, OwnIndexes PROVE Spec => []PersistedWhenIdle
<1>1. SInv => PersistedWhenIdle
  <2> SUFFICES ASSUME SInv, Idle PROVE log[Latest] = want
    BY DEF PersistedWhenIdle
  <2>1. \A p \in Pod : ~Open(cache[p], wire[p])
    BY DEF Idle, Open
  <2>2. \A k \in Key : Now[k] = want[k]
    BY <2>1 DEF SInv, Kept
  <2>3. Now \in Contents /\ want \in Contents
    BY DEF SInv, Shaped
  <2> QED BY <2>2, <2>3 DEF Contents, Now
<1> QED BY <1>1, Keeping, PTL

(***************************************************************************)
(* The store implements the register.                                      *)
(***************************************************************************)

\* A call asks for one key, or for none at all.
LEMMA CallRefines ==
  ASSUME NEW p \in Pod, Call(p) PROVE Register!Next
<1>1. UNCHANGED <<log, replica>>
  BY DEF Call, setItem, setItemAndWait, removeItem, removeItemAndWait, clear, Write
<1>2. \/ \E k \in Key, v \in Value : want' = [want EXCEPT ![k] = v]
      \/ \E k \in Key : want' = [want EXCEPT ![k] = Absent]
      \/ want' = Empty
  BY BoundsAssumption
     DEF Call, setItem, setItemAndWait, removeItem, removeItemAndWait, clear, Write
<1>3. ASSUME NEW k \in Key, NEW v \in Value \cup {Absent}, want' = [want EXCEPT ![k] = v]
      PROVE  Register!Next
  BY <1>1, <1>3, Zenon DEF Register!Next, Register!Request
<1>4. CASE want' = Empty
  BY <1>1, <1>4, Zenon DEF Register!Next, Register!RequestClear, Empty
<1> QED BY <1>2, <1>3, <1>4

\* A timer shows a pod a later revision, or the one it has.
LEMMA DebouncedRefines ==
  ASSUME ViewInv, NEW p \in Pod, NEW r \in 1..Latest, Debounced(p, r)
  PROVE  [Register!Next]_Register!vars
<1>1. /\ replica' = [replica EXCEPT ![p] = r] /\ UNCHANGED <<log, want>>
      /\ replica \in [Pod -> Nat] /\ replica[p] \in Nat
  BY DEF Debounced, ViewInv
<1>2. r \in Nat /\ Latest \in Nat /\ r <= Latest
  BY LogFacts DEF ViewInv
<1>3. replica[p] <= r
  BY <1>2 DEF Debounced, ViewInv, ViewInOrder
<1>4. CASE r = replica[p]
  <2>1. UNCHANGED replica
    BY <1>1, <1>4
  <2> QED BY <1>1, <2>1 DEF Register!vars
<1>5. CASE r # replica[p]
  <2>1. r \in replica[p] + 1..Len(log)
    BY <1>1, <1>2, <1>3, <1>5 DEF Latest
  <2> QED BY <1>1, <2>1, Zenon DEF Register!Next, Register!Observe
<1> QED BY <1>4, <1>5

\* A patch that is stored commits its keys, each to what is wanted of it.
LEMMA ServeRefines ==
  ASSUME ViewInv, SInv, NEW p \in Pod, NEW j \in DOMAIN wire[p], ServePatch(p, j)
  PROVE  [Register!Next]_Register!vars
<1>1. UNCHANGED <<want, replica>>
  BY ServeKeeps
<1>2. CASE log' = log
  BY <1>1, <1>2 DEF Register!vars
<1>3. ASSUME NEW ks \in SUBSET Key,
             log' = Append(log, [k \in Key |-> IF k \in ks THEN want[k] ELSE Now[k]])
      PROVE  Register!Next
  BY <1>1, <1>3, Zenon DEF Register!Next, Register!Commit, Register!Stored, Now, Latest
<1> QED BY <1>2, <1>3, ServeKeeps

\* The store of callers that take no liberties is the shared map of EventualRegister
\* but for its fairness: what is stored takes over what was wanted last, of the keys
\* of a patch at once, and a pod sees a stored state no older than the one it saw.
THEOREM StoreIsRegister ==
  ASSUME Disciplined, OwnIndexes
  PROVE  Spec => Register!Init /\ [][Register!Next]_Register!vars
<1>1. Init => Register!Init
  BY DEF Init, Register!Init, Empty
<1>2. ASSUME ViewInv, SInv, [Next]_vars PROVE [Register!Next]_Register!vars
  <2>1. ASSUME UNCHANGED <<log, want, replica>> PROVE [Register!Next]_Register!vars
    BY <2>1 DEF Register!vars
  <2>2. ASSUME NEW p \in Pod, Restart(p) \/ \E j \in DOMAIN wire[p] : FailPatch(p, j)
        PROVE  FALSE
    BY <1>2, <2>2 DEF Restart, FailPatch, Disciplined, SInv, Shaped
  <2>3. ASSUME NEW p \in Pod, Receive(p) \/ \E i \in DOMAIN waits[p] : Timeout(p, i)
        PROVE  [Register!Next]_Register!vars
    <3>1. UNCHANGED <<log, want, replica>>
      BY <2>3 DEF Receive, Timeout
    <3> QED BY <2>1, <3>1
  <2>4. ASSUME NEW p \in Pod, SendInterval(p) \/ \E j \in DOMAIN wire[p] : Answer(p, j)
        PROVE  [Register!Next]_Register!vars
    <3>1. UNCHANGED <<log, want, replica>>
      BY <1>2, <2>4, SendKeeps, AnswerKeeps
    <3> QED BY <2>1, <3>1
  <2>5. ASSUME NEW p \in Pod, NEW j \in DOMAIN wire[p], ServePatch(p, j)
        PROVE  [Register!Next]_Register!vars
    BY <1>2, <2>5, ServeRefines
  <2>6. ASSUME NEW p \in Pod, NEW r \in 1..Latest, Debounced(p, r)
        PROVE  [Register!Next]_Register!vars
    BY <1>2, <2>6, DebouncedRefines
  <2>7. CASE UNCHANGED vars
    BY <2>1, <2>7 DEF vars
  <2> QED BY <1>2, <2>2, <2>3, <2>4, <2>5, <2>6, <2>7, CallRefines DEF Next
<1> QED BY <1>1, <1>2, ViewsInOrder, Keeping, PTL DEF Spec
=============================================================================
