---------------------------- MODULE StoreCache ----------------------------
(***************************************************************************)
(* The write cache of a capability's store (controller/storeCache.ts) and, *)
(* as far as the cache depends on it, what the API server does with the    *)
(* JSON patch made of it.                                                  *)
(*                                                                         *)
(* A cache is a JavaScript object, an insertion-ordered map from an index  *)
(* string to an operation, so it is a sequence of entries with distinct    *)
(* indexes: assigning to an index that is there keeps its place.           *)
(***************************************************************************)
EXTENDS Naturals, Sequences, FiniteSets

CONSTANTS
  Key,        \* the keys of the store resource's data
  Value,      \* the values
  Absent,     \* the key is not in the data
  Undefined,  \* JavaScript's undefined, in the place of an operation
  AddIndex    \* AddIndex[<<k, v>>]: the index string `add:<path of k>:<v>`

Data == [Key -> Value \cup {Absent}]

\* The path of an operation is the set of keys its key array holds: an array of
\* several keys is joined into one string, which is the path of no key at all.
Add(k, v) == [op |-> "add", path |-> {k}, value |-> v]
Remove(ks) == [op |-> "remove", path |-> ks, value |-> Absent]

Operation ==
  {Add(k, v) : k \in Key, v \in Value} \cup {Remove(ks) : ks \in (SUBSET Key) \ {{}}}

\* Mutant of IndexOf: the path is left out.
IndexWithoutPath(o) == <<o.op, o.value>>

IndexOf(o) ==
  IF o.op = "add" THEN <<"add", AddIndex[<<CHOOSE k \in Key : o.path = {k}, o.value>>]>>
                  ELSE <<"remove", o.path>>

Entry(o) == [index |-> IndexOf(o), operation |-> o]

Index == {IndexOf(o) : o \in Operation}

CacheEntry == [index : Index, operation : Operation \cup {Undefined}]

Lost(e) == [e EXCEPT !.operation = Undefined]

Indexes(entries) == {entries[i].index : i \in DOMAIN entries}

fillStoreCache(cache, o) ==
  IF IndexOf(o) \in Indexes(cache)
  THEN [i \in DOMAIN cache |-> IF cache[i].index = IndexOf(o) THEN Entry(o) ELSE cache[i]]
  ELSE Append(cache, Entry(o))

\* Mutant of afterAnswer: a refused patch is kept, to be sent again.
afterAnswerAgain(cache, sent, answer) == IF answer = "ok" THEN << >> ELSE cache

\* sendUpdatesAndFlushCache, once the answer to the patch made of the entries
\* sent is there. Success and 422 empty the cache as it is now; any other error
\* assigns payload[Number(index)] to the indexes sent, and no index is a number.
afterAnswer(cache, sent, answer) ==
  IF answer \in {"ok", "unprocessable"}
  THEN << >>
  ELSE [i \in DOMAIN cache |->
          IF cache[i].index \in Indexes(sent) THEN Lost(cache[i]) ELSE cache[i]]
       \o LET Flushed(e) == e.index \notin Indexes(cache)
              gone == SelectSeq(sent, Flushed)
          IN [i \in DOMAIN gone |-> Lost(gone[i])]

(***************************************************************************)
(* The API server, external. A JSON patch is applied in order, all or      *)
(* nothing, and is unprocessable when it holds something that is not an    *)
(* operation or removes a path that does not exist at that point.          *)
(***************************************************************************)

\* The place of the last operation before i whose path is key k, or 0.
LastOn(k, ops, i) ==
  LET places == {j \in DOMAIN ops : j < i /\ ops[j] # Undefined /\ ops[j].path = {k}}
  IN IF places = {} THEN 0 ELSE CHOOSE j \in places : \A l \in places : l <= j

\* The value of key k in data when operation i is reached.
ValueBefore(data, k, ops, i) ==
  LET j == LastOn(k, ops, i) IN IF j = 0 THEN data[k] ELSE ops[j].value

Unprocessable(data, ops) ==
  \E i \in DOMAIN ops :
    \/ ops[i] = Undefined
    \/ /\ ops[i].op = "remove"
       /\ ~\E k \in Key : ops[i].path = {k} /\ ValueBefore(data, k, ops, i) # Absent

Patched(data, ops) == [k \in Key |-> ValueBefore(data, k, ops, Len(ops) + 1)]

Operations(entries) == [i \in DOMAIN entries |-> entries[i].operation]
=============================================================================
