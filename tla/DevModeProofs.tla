--------------------------- MODULE DevModeProofs ---------------------------
(***************************************************************************)
(* Proofs about DevMode, for any number of edits and crashes: types, and   *)
(* that there are no more processes of the module than one and those that  *)
(* reloads of a process killed already have called for.                    *)
(***************************************************************************)
EXTENDS DevMode, FiniteSetTheorems, TLAPS

ProcessRecord(n) == [stage : {"none", "gone"} \cup Alive, code : 0..n, handlers : Nat]
Call == [id : Nat, step : {"load", "hung", "fork"} \cup WebhookType]

Typed == TypeOK /\ IsFiniteSet(runs)

\* What a process there may be yet comes of: one that lives and was not killed, a handler
\* that waits for the exit of one that was, and a call of runFork under way.
Tokens ==
  ({"process"} \X {p \in Living : proc[p].handlers = 0} \X {0})
    \cup {t \in {"handler"} \X Process \X Nat : t[3] \in 1..proc[t[2]].handlers}
    \cup ({"call"} \X runs \X {0})

\* Handlers wait for those that were killed, for each one at least. Before the first fork
\* there is nothing but the call that makes it. A step replaces tokens one for one, and only
\* a reload of a process killed already adds one.
Few ==
  /\ \A p \in Process : proc[p].handlers # 0 <=> proc[p].stage = "killed"
  /\ program = 0 => Living = {} /\ (esbuild.step # "running" => runs = {})
  /\ \A r \in runs : r.id # 0
  /\ IsFiniteSet(Tokens) /\ Cardinality(Tokens) <= 1 + doubled

IInv == Typed /\ Few

(***************************************************************************)
(* Counting tokens.                                                        *)
(***************************************************************************)

\* What is made of the members of a finite set is not more than they are.
LEMMA Fewer ==
  ASSUME NEW S, IsFiniteSet(S), NEW f, NEW T, \A y \in T : \E x \in S : y = f[x]
  PROVE  IsFiniteSet(T) /\ Cardinality(T) <= Cardinality(S)
<1>1. PICK g : g = [x \in S |-> f[x]]
  OBVIOUS
<1>2. PICK U : U = {g[x] : x \in S}
  OBVIOUS
<1>3. g \in Surjection(S, U)
  BY <1>1, <1>2 DEF Surjection
<1>4. IsFiniteSet(U) /\ Cardinality(U) <= Cardinality(S)
  BY <1>3, FS_Surjection
<1>5. T \in SUBSET U
  BY <1>1, <1>2
<1>6. IsFiniteSet(T) /\ Cardinality(T) <= Cardinality(U)
  BY <1>4, <1>5, FS_Subset
<1>7. Cardinality(T) \in Nat /\ Cardinality(U) \in Nat /\ Cardinality(S) \in Nat
  BY <1>4, <1>6, FS_CardinalityType
<1> QED BY <1>4, <1>6, <1>7

\* One for one.
LEMMA Replaced ==
  ASSUME NEW S, IsFiniteSet(S), NEW a \in S, NEW b, NEW T, T \subseteq (S \ {a}) \cup {b}
  PROVE  IsFiniteSet(T) /\ Cardinality(T) <= Cardinality(S)
<1>1. PICK f : f = [x \in S |-> IF x = a THEN b ELSE x]
  OBVIOUS
<1>2. \A y \in T : \E x \in S : y = f[x]
  BY <1>1
<1> QED BY <1>2, Fewer

\* One more.
LEMMA Added ==
  ASSUME NEW S, IsFiniteSet(S), NEW b, NEW T, T \subseteq S \cup {b}
  PROVE  IsFiniteSet(T) /\ Cardinality(T) <= Cardinality(S) + 1
<1>1. PICK U : U = S \cup {b}
  OBVIOUS
<1>2. IsFiniteSet(U) /\ Cardinality(U) \in {Cardinality(S), Cardinality(S) + 1}
  BY <1>1, FS_AddElement
<1>3. T \in SUBSET U
  BY <1>1
<1>4. IsFiniteSet(T) /\ Cardinality(T) <= Cardinality(U)
  BY <1>2, <1>3, FS_Subset
<1>5. Cardinality(S) \in Nat /\ Cardinality(T) \in Nat
  BY <1>4, FS_CardinalityType
<1> QED BY <1>2, <1>4, <1>5

\* A token is one of three.
LEMMA TokenCases ==
  ASSUME NEW t
  PROVE  t \in Tokens <=>
           \/ \E p \in Living : proc[p].handlers = 0 /\ t = <<"process", p, 0>>
           \/ \E p \in Process, i \in Nat : i \in 1..proc[p].handlers /\ t = <<"handler", p, i>>
           \/ \E r \in runs : t = <<"call", r, 0>>
  BY DEF Tokens

\* While these stay the tokens do.
LEMMA TokensStay ==
  ASSUME Few, UNCHANGED <<runs, doubled>>,
         \A p \in Process :
           /\ proc'[p].stage \in Alive <=> proc[p].stage \in Alive
           /\ proc'[p].handlers = proc[p].handlers
  PROVE  Living' = Living /\ IsFiniteSet(Tokens') /\ Cardinality(Tokens') <= 1 + doubled'
<1>1. Living' = Living
  BY DEF Living
<1>2. {p \in Living' : proc'[p].handlers = 0} = {p \in Living : proc[p].handlers = 0}
  BY <1>1 DEF Living
<1>3. {t \in {"handler"} \X Process \X Nat : t[3] \in 1..proc'[t[2]].handlers}
        = {t \in {"handler"} \X Process \X Nat : t[3] \in 1..proc[t[2]].handlers}
  OBVIOUS
<1>4. Tokens' = Tokens
  BY <1>2, <1>3 DEF Tokens
<1> QED BY <1>1, <1>4 DEF Few

\* There are finitely many processes, and the next call has a number.
LEMMA NextRunIsNat == ASSUME IsFiniteSet(runs) PROVE NextRun \in Nat \ {0}
<1>1. IsFiniteSet(Process)
  BY FS_Interval, DevAssumption DEF Process
<1>2. IsFiniteSet({p \in Process : proc[p].stage # "none"})
  BY <1>1, FS_Subset
<1>3. Cardinality({p \in Process : proc[p].stage # "none"}) \in Nat /\ Cardinality(runs) \in Nat
  BY <1>2, FS_CardinalityType
<1> QED BY <1>3 DEF NextRun

\* Calls are finitely many records.
LEMMA CallsFacts ==
  ASSUME IsFiniteSet(runs), NEW n \in Nat
  PROVE  /\ Calls(n) \subseteq [id : Nat \ {0}, step : {"load"}] /\ IsFiniteSet(Calls(n))
         /\ Calls(n) = {[id |-> NextRun + i, step |-> "load"] : i \in 0..(n - 1)}
<1>1. NextRun \in Nat \ {0} /\ IsFiniteSet(0..(n - 1))
  BY NextRunIsNat, FS_Interval
<1>2. Calls(n) \subseteq [id : Nat \ {0}, step : {"load"}]
  BY <1>1 DEF Calls
<1>3. IsFiniteSet(Calls(n))
  <2>1. PICK f : f = [i \in 0..(n - 1) |-> [id |-> NextRun + i, step |-> "load"]]
    OBVIOUS
  <2>2. f \in Surjection(0..(n - 1), Calls(n))
    BY <2>1 DEF Calls, Surjection
  <2> QED BY <1>1, <2>2, FS_Surjection
<1> QED BY <1>2, <1>3 DEF Calls

\* A call that goes on is one call in its place.
LEMMA GoesFacts ==
  ASSUME IInv, NEW r \in runs, NEW step \in {"hung", "mutate", "validate", "fork"}, Goes(r, step),
         UNCHANGED <<proc, doubled>>
  PROVE  /\ runs' \subseteq Call /\ IsFiniteSet(runs') /\ runs # {}
         /\ \A x \in runs' : x.id # 0
         /\ IsFiniteSet(Tokens') /\ Cardinality(Tokens') <= 1 + doubled'
<1>1. PICK q : q = [r EXCEPT !.step = step]
  OBVIOUS
<1>2. runs' = (runs \ {r}) \cup {q}
  BY <1>1 DEF Goes
<1>3. q \in Call /\ q.id # 0
  BY <1>1 DEF IInv, Typed, TypeOK, WebhookType, Few, Call
<1>4. IsFiniteSet(runs')
  BY <1>2, FS_RemoveElement, FS_AddElement DEF IInv, Typed
<1>5. PICK a \in Tokens : a = <<"call", r, 0>>
  BY TokenCases
<1>6. PICK b : b = <<"call", q, 0>>
  OBVIOUS
<1>7. Tokens' \subseteq (Tokens \ {a}) \cup {b}
  <2>1. Living' = Living
    BY DEF Living
  <2> QED BY <1>2, <1>5, <1>6, <2>1 DEF Tokens
<1>8. IsFiniteSet(Tokens') /\ Cardinality(Tokens') <= Cardinality(Tokens)
  BY <1>7, Replaced DEF IInv, Few
<1> QED BY <1>2, <1>3, <1>4, <1>8, FS_CardinalityType DEF IInv, Typed, TypeOK, Few, Call

(***************************************************************************)
(* The invariant.                                                          *)
(***************************************************************************)

\* The start.
LEMMA InitIInv == Init => IInv
<1> SUFFICES ASSUME Init PROVE IInv
  OBVIOUS
<1>1. Typed
  <2>1. source \in Version \ {0} /\ {file, capabilities} \subseteq 0..source /\ crashes \in 0..MaxCrashes
    BY DevAssumption DEF Init, Version
  <2>2. /\ proc \in [Process -> ProcessRecord(source)]
        /\ webhook \in [WebhookType -> 0..source] /\ raced \in [WebhookType -> BOOLEAN]
    BY DEF Init, NoProcess, ProcessRecord
  <2>3. esbuild \in [seen : 0..source, step : {"idle", "onEnd", "running"}]
    BY DEF Init
  <2> QED BY <2>1, <2>2, <2>3, FS_EmptySet DEF Init, Typed, TypeOK, ProcessRecord
<1>2. Living = {} /\ \A p \in Process : proc[p].handlers = 0 /\ proc[p].stage = "none"
  BY DEF Init, Living, NoProcess, Alive
<1>3. Tokens = {}
  BY <1>2, TokenCases DEF Init
<1>4. Few
  BY <1>2, <1>3, FS_EmptySet DEF Init, Few
<1> QED BY <1>1, <1>4 DEF IInv

\* Edits and rebuilds touch no process and no call.
LEMMA EditorIInv == ASSUME IInv, Edit \/ Rebuild PROVE IInv'
<1>1. /\ UNCHANGED <<program, proc, runs, capabilities, deletes, webhook, crashes, overtaken, doubled, raced>>
      /\ source' \in Version /\ source' >= source /\ file' \in 0..source'
      /\ esbuild' \in [seen : 0..source', step : {"idle", "onEnd", "running"}]
      /\ esbuild'.step = "running" <=> esbuild.step = "running"
  <2>1. source \in 1..MaxEdits /\ source \in Nat /\ file \in 0..source
        /\ esbuild \in [seen : 0..source, step : {"idle", "onEnd", "running"}]
    BY DevAssumption DEF IInv, Typed, TypeOK, Version
  <2>2. CASE Edit
    BY <2>1, <2>2, DevAssumption DEF Edit, Version, history
  <2>3. CASE Rebuild
    <3>1. source' = source /\ file' \in {file, source} /\ esbuild.step = "idle"
          /\ (esbuild' = [seen |-> source, step |-> "idle"] \/ esbuild' = [seen |-> source, step |-> "onEnd"])
      BY <2>3 DEF Rebuild
    <3> QED BY <2>1, <2>3, <3>1, DevAssumption DEF Rebuild, Version, history
  <2> QED BY <2>2, <2>3
<1>2. Typed'
  <2>1. source \in Nat /\ source' \in Nat /\ source >= 1
    BY <1>1, DevAssumption DEF IInv, Typed, TypeOK, Version
  <2>2. webhook' \in [WebhookType -> 0..source'] /\ capabilities' \in 0..source'
    BY <1>1, <2>1 DEF IInv, Typed, TypeOK
  <2>3. proc' \in [Process -> [stage : {"none", "gone"} \cup Alive, code : 0..source', handlers : Nat]]
    <3>1. [stage : {"none", "gone"} \cup Alive, code : 0..source, handlers : Nat]
            \subseteq [stage : {"none", "gone"} \cup Alive, code : 0..source', handlers : Nat]
      BY <1>1, <2>1
    <3>2. proc \in [Process -> [stage : {"none", "gone"} \cup Alive, code : 0..source, handlers : Nat]]
      BY DEF IInv, Typed, TypeOK
    <3> QED BY <1>1, <3>1, <3>2
  <2>4. source' \in Version \ {0}
    BY <1>1, <2>1
  <2> QED BY <1>1, <2>2, <2>3, <2>4 DEF IInv, Typed, TypeOK
<1>3. Few'
  <2>1. Living' = Living /\ IsFiniteSet(Tokens') /\ Cardinality(Tokens') <= 1 + doubled'
    BY <1>1, TokensStay DEF IInv
  <2> QED BY <1>1, <2>1 DEF IInv, Few
<1> QED BY <1>2, <1>3 DEF IInv

\* The reloader makes a call where there is nothing, gives a process that it kills one
\* handler, or gives one that is killed already another one.
LEMMA ReloadIInv == ASSUME IInv, Reload PROVE IInv'
<1>1. /\ UNCHANGED <<source, file, program, deletes, capabilities, webhook, crashes, raced>>
      /\ esbuild.step = "onEnd" /\ overtaken' \in BOOLEAN
  BY DEF Reload
<1>2. /\ esbuild' \in [seen : 0..source', step : {"idle", "onEnd", "running"}]
      /\ esbuild'.step = IF program = 0 THEN "running" ELSE "idle"
  BY <1>1 DEF Reload, IInv, Typed, TypeOK
<1>3. 0 \notin Process /\ doubled \in Nat /\ proc \in [Process -> ProcessRecord(source)]
  BY DevAssumption DEF Process, IInv, Typed, TypeOK, ProcessRecord
<1>4. CASE program = 0
  <2>1. runs' = runs \cup Calls(1) /\ UNCHANGED <<proc, doubled>> /\ runs = {} /\ Living = {}
    <3>1. program \notin Living
      BY <1>3, <1>4 DEF Living
    <3> QED BY <1>1, <1>4, <3>1 DEF Reload, Killed, IInv, Few
  <2>2. PICK c : c = [id |-> NextRun, step |-> "load"]
    OBVIOUS
  <2>3. Calls(1) \subseteq {c} /\ c \in [id : Nat \ {0}, step : {"load"}]
    <3>1. NextRun \in Nat \ {0}
      BY NextRunIsNat DEF IInv, Typed
    <3> QED BY <2>2, <3>1 DEF Calls
  <2>4. runs' \subseteq {c} /\ IsFiniteSet(runs') /\ runs' \subseteq Call
    <3>1. IsFiniteSet({c}) /\ runs' \in SUBSET {c}
      BY <2>1, <2>3, FS_Singleton
    <3>2. IsFiniteSet(runs')
      BY <3>1, FS_Subset
    <3> QED BY <2>1, <2>3, <3>1, <3>2 DEF Call
  <2>5. Typed'
    BY <1>1, <1>2, <2>1, <2>4 DEF IInv, Typed, TypeOK, Call
  <2>6. Living' = {} /\ \A p \in Process : proc'[p].handlers = 0
    BY <1>3, <2>1 DEF Living, IInv, Few, Alive, ProcessRecord
  <2>7. PICK b : b = <<"call", c, 0>>
    OBVIOUS
  <2>8. Tokens' \subseteq {} \cup {b}
    BY <2>4, <2>6, <2>7 DEF Tokens
  <2>9. IsFiniteSet(Tokens') /\ Cardinality(Tokens') <= 0 + 1
    BY <2>8, Added, FS_EmptySet
  <2>10. Few'
    <3>1. Cardinality(Tokens') \in Nat
      BY <2>9, FS_CardinalityType
    <3>2. \A p \in Process : proc'[p].stage # "killed"
      BY <2>6 DEF Living, Alive
    <3>3. \A r \in runs' : r.id # 0
      BY <2>3, <2>4
    <3> QED BY <1>2, <1>3, <1>4, <2>1, <2>6, <2>9, <3>1, <3>2, <3>3 DEF Few
  <2> QED BY <2>5, <2>10 DEF IInv
<1>5. CASE program # 0 /\ program \in Living
  <2>1. PICK x : x = [proc[program] EXCEPT !.stage = "killed", !.handlers = @ + 1]
    OBVIOUS
  <2>2. /\ runs' = runs /\ program \in Process /\ program \in Living
        /\ proc' = [proc EXCEPT ![program].stage = "killed", ![program].handlers = @ + 1]
        /\ doubled' = IF proc[program].stage = "killed" THEN doubled + 1 ELSE doubled
    BY <1>5 DEF Reload, Living, Killed
  <2>3. /\ x \in ProcessRecord(source) /\ x.stage = "killed"
        /\ x.handlers = proc[program].handlers + 1 /\ proc[program].handlers \in Nat
    BY <1>3, <2>1, <2>2 DEF ProcessRecord, Alive
  <2>4. proc' = [proc EXCEPT ![program] = x]
    BY <1>3, <2>1, <2>2
  <2>5. Typed'
    BY <1>1, <1>2, <1>3, <2>2, <2>3, <2>4 DEF IInv, Typed, TypeOK, ProcessRecord
  <2>6. proc'[program] = x /\ \A p \in Process \ {program} : proc'[p] = proc[p]
    BY <1>3, <2>2, <2>4
  <2>7. Living' = Living
    BY <2>2, <2>3, <2>6 DEF Living, Alive
  <2>8. PICK b : b = <<"handler", program, proc[program].handlers + 1>>
    OBVIOUS
  <2>9. ASSUME NEW t \in Tokens'
        PROVE  t = b \/ (t \in Tokens /\ t # <<"process", program, 0>>)
    <3>1. CASE t \in {"process"} \X {p \in Living' : proc'[p].handlers = 0} \X {0}
      <4>1. PICK p \in Living : t = <<"process", p, 0>> /\ proc'[p].handlers = 0
        BY <2>7, <3>1
      <4>2. p # program /\ p \in Process
        BY <2>3, <2>6, <4>1 DEF Living
      <4>3. proc[p].handlers = 0
        BY <2>6, <4>1, <4>2
      <4> QED BY <4>1, <4>2, <4>3, TokenCases
    <3>2. CASE t \in {"handler"} \X Process \X Nat /\ t[3] \in 1..proc'[t[2]].handlers
      <4>1. CASE t[2] = program
        <5>1. t[3] = proc[program].handlers + 1 \/ t[3] \in 1..proc[program].handlers
          BY <2>3, <2>6, <3>2, <4>1
        <5>2. t = <<t[1], t[2], t[3]>> /\ t[1] = "handler"
          BY <3>2
        <5> QED BY <2>8, <3>2, <4>1, <5>1, <5>2 DEF Tokens
      <4>2. CASE t[2] # program
        BY <2>6, <3>2, <4>2 DEF Tokens
      <4> QED BY <4>1, <4>2
    <3>3. CASE t \in {"call"} \X runs' \X {0}
      BY <2>2, <3>3 DEF Tokens
    <3> QED BY <3>1, <3>2, <3>3 DEF Tokens
  <2>10. IsFiniteSet(Tokens') /\ Cardinality(Tokens') <= 1 + doubled'
    <3>1. CASE proc[program].stage = "killed"
      <4>1. Tokens' \subseteq Tokens \cup {b}
        BY <2>9
      <4>2. IsFiniteSet(Tokens') /\ Cardinality(Tokens') <= Cardinality(Tokens) + 1
        BY <4>1, Added DEF IInv, Few
      <4>3. Cardinality(Tokens) \in Nat /\ Cardinality(Tokens') \in Nat
        BY <4>2, FS_CardinalityType DEF IInv, Few
      <4> QED BY <1>3, <2>2, <3>1, <4>2, <4>3 DEF IInv, Few
    <3>2. CASE proc[program].stage # "killed"
      <4>1. PICK a \in Tokens : a = <<"process", program, 0>>
        <5>1. proc[program].handlers = 0
          BY <2>2, <3>2 DEF IInv, Few
        <5> QED BY <2>2, <5>1, TokenCases
      <4>2. Tokens' \subseteq (Tokens \ {a}) \cup {b}
        BY <2>9, <4>1
      <4>3. IsFiniteSet(Tokens') /\ Cardinality(Tokens') <= Cardinality(Tokens)
        BY <4>2, Replaced DEF IInv, Few
      <4>4. Cardinality(Tokens) \in Nat /\ Cardinality(Tokens') \in Nat
        BY <4>3, FS_CardinalityType DEF IInv, Few
      <4> QED BY <1>3, <2>2, <3>2, <4>3, <4>4 DEF IInv, Few
    <3> QED BY <3>1, <3>2
  <2>11. Few'
    <3>1. \A p \in Process : proc'[p].handlers # 0 <=> proc'[p].stage = "killed"
      BY <2>3, <2>6 DEF IInv, Few
    <3> QED BY <1>1, <1>5, <2>2, <2>10, <3>1 DEF IInv, Few
  <2> QED BY <2>5, <2>11 DEF IInv
<1>6. CASE program # 0 /\ program \notin Living
  <2>1. UNCHANGED <<runs, proc, doubled>>
    BY <1>6 DEF Reload, Killed
  <2>2. Typed'
    BY <1>1, <1>2, <2>1 DEF IInv, Typed, TypeOK
  <2>3. Living' = Living /\ IsFiniteSet(Tokens') /\ Cardinality(Tokens') <= 1 + doubled'
    BY <2>1, TokensStay DEF IInv
  <2>4. Few'
    BY <1>1, <1>6, <2>1, <2>3 DEF IInv, Few
  <2> QED BY <2>2, <2>4 DEF IInv
<1> QED BY <1>4, <1>5, <1>6

\* A process that ends leaves a call for each of its handlers.
LEMMA EndIInv ==
  ASSUME IInv, NEW p \in Process, Exit(p) \/ Crash(p)
  PROVE  IInv'
<1>1. PICK n \in Nat : n = proc[p].handlers /\ runs' = runs \cup Calls(n)
  <2>1. proc[p].handlers \in Nat
    BY DEF IInv, Typed, TypeOK
  <2>2. CASE Exit(p)
    BY <2>1, <2>2 DEF Exit
  <2>3. CASE Crash(p)
    <3>1. proc[p].handlers = 0 /\ runs' = runs
      BY <2>3 DEF Crash, IInv, Few
    <3>2. Calls(0) = {}
      BY DEF Calls
    <3> QED BY <3>1, <3>2
  <2> QED BY <2>2, <2>3
<1>2. PICK x : /\ x \in ProcessRecord(source) /\ x.stage = "gone" /\ x.handlers = 0
               /\ proc' = [proc EXCEPT ![p] = x]
  <2>1. proc[p] \in ProcessRecord(source) /\ proc \in [Process -> ProcessRecord(source)]
    BY DEF IInv, Typed, TypeOK, ProcessRecord
  <2>2. CASE Exit(p)
    <3>1. PICK x : x = [proc[p] EXCEPT !.stage = "gone", !.handlers = 0]
      OBVIOUS
    <3>2. proc' = [proc EXCEPT ![p] = x]
      BY <2>1, <2>2, <3>1 DEF Exit
    <3>3. x \in ProcessRecord(source) /\ x.stage = "gone" /\ x.handlers = 0
      BY <2>1, <3>1 DEF ProcessRecord
    <3> QED BY <3>2, <3>3
  <2>3. CASE Crash(p)
    <3>1. PICK x : x = [proc[p] EXCEPT !.stage = "gone"]
      OBVIOUS
    <3>2. proc' = [proc EXCEPT ![p] = x]
      BY <2>1, <2>3, <3>1 DEF Crash
    <3>3. proc[p].handlers = 0
      BY <2>3 DEF Crash, IInv, Few
    <3>4. x \in ProcessRecord(source) /\ x.stage = "gone" /\ x.handlers = 0
      BY <2>1, <3>1, <3>3 DEF ProcessRecord
    <3> QED BY <3>2, <3>4
  <2> QED BY <2>2, <2>3
<1>3. /\ UNCHANGED <<source, esbuild, file, program, capabilities, webhook, overtaken, doubled, raced>>
      /\ crashes' = crashes \/ (crashes < MaxCrashes /\ crashes' = crashes + 1)
      /\ deletes' = deletes \cup {[of |-> p, type |-> t] : t \in WebhookType}
      /\ p \in Living
  BY DEF Exit, Crash, Living, Alive, history
<1>4. /\ Calls(n) \subseteq [id : Nat \ {0}, step : {"load"}] /\ IsFiniteSet(Calls(n))
      /\ Calls(n) = {[id |-> NextRun + i, step |-> "load"] : i \in 0..(n - 1)}
  BY CallsFacts DEF IInv, Typed
<1>5. Typed'
  <2>1. IsFiniteSet(runs') /\ runs' \subseteq Call
    <3>1. IsFiniteSet(runs) /\ runs \subseteq Call
      BY DEF IInv, Typed, TypeOK, Call
    <3>2. IsFiniteSet(runs \cup Calls(n))
      BY <1>4, <3>1, FS_Union
    <3>3. Calls(n) \subseteq Call
      BY <1>4 DEF Call
    <3> QED BY <1>1, <3>1, <3>2, <3>3
  <2>2. proc' \in [Process -> ProcessRecord(source)]
    BY <1>2 DEF IInv, Typed, TypeOK, ProcessRecord
  <2>3. deletes' \subseteq [of : Process, type : WebhookType]
    BY <1>3 DEF IInv, Typed, TypeOK
  <2>4. crashes' \in 0..MaxCrashes
    BY <1>3, DevAssumption DEF IInv, Typed, TypeOK
  <2> QED BY <1>3, <2>1, <2>2, <2>3, <2>4 DEF IInv, Typed, TypeOK, ProcessRecord, Call
<1>6. proc'[p] = x /\ \A q \in Process \ {p} : proc'[q] = proc[q]
  BY <1>2 DEF IInv, Typed, TypeOK
<1>7. Living' \subseteq Living /\ p \notin Living'
  BY <1>2, <1>6 DEF Living, Alive
<1>8. IsFiniteSet(Tokens') /\ Cardinality(Tokens') <= 1 + doubled'
  <2>1. PICK f : f = [t \in Tokens |->
                        IF t[1] = "handler" /\ t[2] = p
                        THEN <<"call", [id |-> NextRun + (t[3] - 1), step |-> "load"], 0>> ELSE t]
    OBVIOUS
  <2>2. ASSUME NEW t \in Tokens' PROVE \E y \in Tokens : t = f[y]
    <3>1. CASE t \in {"process"} \X {q \in Living' : proc'[q].handlers = 0} \X {0}
      <4>1. PICK q \in Living' : t = <<"process", q, 0>> /\ proc'[q].handlers = 0
        BY <3>1
      <4>2. q \in Living /\ q # p /\ q \in Process
        BY <1>7, <4>1 DEF Living
      <4>3. proc[q].handlers = 0
        BY <1>6, <4>1, <4>2
      <4>4. t \in Tokens /\ t[1] = "process"
        BY <4>1, <4>2, <4>3, TokenCases
      <4>5. t = f[t]
        BY <2>1, <4>4
      <4> QED BY <4>4, <4>5
    <3>2. CASE t \in {"handler"} \X Process \X Nat /\ t[3] \in 1..proc'[t[2]].handlers
      <4>1. t[2] # p
        BY <1>2, <1>6, <3>2
      <4>2. t \in Tokens
        BY <1>6, <3>2, <4>1 DEF Tokens
      <4>3. t = f[t]
        BY <2>1, <4>1, <4>2
      <4> QED BY <4>2, <4>3
    <3>3. CASE t \in {"call"} \X runs' \X {0}
      <4>1. PICK r \in runs' : t = <<"call", r, 0>>
        BY <3>3
      <4>2. CASE r \in runs
        <5>1. t \in Tokens /\ t[1] = "call"
          BY <4>1, <4>2 DEF Tokens
        <5>2. t = f[t]
          BY <2>1, <5>1
        <5> QED BY <5>1, <5>2
      <4>3. CASE r \in Calls(n)
        <5>1. PICK i \in 0..(n - 1) : r = [id |-> NextRun + i, step |-> "load"]
          BY <1>4, <4>3
        <5>2. PICK y : y = <<"handler", p, i + 1>>
          OBVIOUS
        <5>3. i + 1 \in 1..proc[p].handlers /\ i + 1 \in Nat /\ (i + 1) - 1 = i
          BY <1>1
        <5>4. y \in Tokens
          BY <5>2, <5>3, TokenCases
        <5>5. f[y] = <<"call", [id |-> NextRun + (y[3] - 1), step |-> "load"], 0>>
          BY <2>1, <5>2, <5>4
        <5>6. f[y] = t
          BY <4>1, <5>1, <5>2, <5>3, <5>5
        <5> QED BY <5>4, <5>6
      <4> QED BY <1>1, <4>1, <4>2, <4>3
    <3> QED BY <3>1, <3>2, <3>3 DEF Tokens
  <2>3. IsFiniteSet(Tokens') /\ Cardinality(Tokens') <= Cardinality(Tokens)
    BY <2>2, Fewer DEF IInv, Few
  <2>4. Cardinality(Tokens) \in Nat /\ Cardinality(Tokens') \in Nat /\ doubled \in Nat
    BY <2>3, FS_CardinalityType DEF IInv, Few, Typed, TypeOK
  <2> QED BY <1>3, <2>3, <2>4 DEF IInv, Few
<1>9. Few'
  <2>1. \A q \in Process : proc'[q].handlers # 0 <=> proc'[q].stage = "killed"
    BY <1>2, <1>6 DEF IInv, Few
  <2>2. program # 0
    BY <1>3 DEF IInv, Few
  <2>3. \A r \in runs' : r.id # 0
    BY <1>1, <1>4 DEF IInv, Few
  <2> QED BY <1>3, <1>8, <2>1, <2>2, <2>3 DEF Few
<1> QED BY <1>5, <1>9 DEF IInv

\* Requests, and the loading of capabilities, touch no process and replace a call by one.
LEMMA RequestIInv ==
  ASSUME IInv,
         \/ \E d \in deletes : Delete(d)
         \/ \E r \in runs : LoadCapabilities(r)
         \/ \E r \in runs : ApplyWebhook(r)
  PROVE  IInv'
<1>1. UNCHANGED <<source, esbuild, file, program, proc, crashes, overtaken, doubled>>
  BY DEF Delete, LoadCapabilities, ApplyWebhook, history
<1>2. /\ runs' \subseteq Call /\ IsFiniteSet(runs') /\ (runs = {} => runs' = {})
      /\ \A x \in runs' : x.id # 0
      /\ IsFiniteSet(Tokens') /\ Cardinality(Tokens') <= 1 + doubled'
  <2>1. CASE \E d \in deletes : Delete(d)
    <3>1. runs' = runs
      BY <2>1 DEF Delete
    <3>2. IsFiniteSet(Tokens') /\ Cardinality(Tokens') <= 1 + doubled'
      BY <1>1, <3>1, TokensStay DEF IInv
    <3> QED BY <3>1, <3>2 DEF IInv, Typed, TypeOK, Few, Call
  <2>2. ASSUME NEW r \in runs, LoadCapabilities(r) \/ ApplyWebhook(r)
        PROVE  \E step \in {"hung", "mutate", "validate", "fork"} : Goes(r, step)
    BY <2>2 DEF LoadCapabilities, ApplyWebhook
  <2>3. ASSUME NEW r \in runs, NEW step \in {"hung", "mutate", "validate", "fork"}, Goes(r, step)
        PROVE  /\ runs' \subseteq Call /\ IsFiniteSet(runs') /\ runs # {}
               /\ \A x \in runs' : x.id # 0
               /\ IsFiniteSet(Tokens') /\ Cardinality(Tokens') <= 1 + doubled'
    BY <1>1, <2>3, GoesFacts
  <2> QED BY <2>1, <2>2, <2>3
<1>3. /\ deletes' \subseteq deletes
      /\ capabilities' \in {capabilities, file}
      /\ webhook' \in [WebhookType -> 0..source] /\ raced' \in [WebhookType -> BOOLEAN]
  <2>1. /\ capabilities \in 0..source /\ webhook \in [WebhookType -> 0..source]
        /\ raced \in [WebhookType -> BOOLEAN]
    BY DEF IInv, Typed, TypeOK
  <2>2. CASE \E d \in deletes : Delete(d)
    BY <2>1, <2>2 DEF Delete, history, IInv, Typed, TypeOK, Version
  <2>3. CASE \E r \in runs : LoadCapabilities(r)
    BY <2>1, <2>3 DEF LoadCapabilities, history
  <2>4. CASE \E r \in runs : ApplyWebhook(r)
    <3>1. PICK r \in runs : ApplyWebhook(r)
      BY <2>4
    <3>2. PICK v \in BOOLEAN : raced' = [raced EXCEPT ![r.step] = v]
      BY <3>1 DEF ApplyWebhook
    <3>3. PICK w \in {capabilities, 0} : webhook' = [webhook EXCEPT ![r.step] = w]
      BY <3>1 DEF ApplyWebhook
    <3>4. deletes' = deletes /\ capabilities' = capabilities /\ w \in 0..source
      BY <2>1, <3>1, <3>3 DEF ApplyWebhook, IInv, Typed, TypeOK, Version
    <3> QED BY <2>1, <3>2, <3>3, <3>4
  <2> QED BY <2>2, <2>3, <2>4
<1>4. Typed'
  BY <1>1, <1>2, <1>3 DEF IInv, Typed, TypeOK, Call
<1>5. Few'
  <2>1. Living' = Living
    BY <1>1 DEF Living
  <2> QED BY <1>1, <1>2, <2>1 DEF IInv, Few
<1> QED BY <1>4, <1>5 DEF IInv

\* A call makes one process, and ends.
LEMMA ForkIInv == ASSUME IInv, NEW r \in runs, Fork(r) PROVE IInv'
<1>1. PICK id : id = r.id /\ id \in Nat /\ id # 0
  BY DEF IInv, Typed, TypeOK, Few
<1>2. PICK x : x = [stage |-> "started", code |-> file, handlers |-> 0]
  OBVIOUS
<1>3. /\ program' = id /\ proc' = [proc EXCEPT ![id] = x] /\ runs' = runs \ {r}
      /\ UNCHANGED <<source, file, deletes, capabilities, webhook, crashes, overtaken, doubled, raced>>
  BY <1>1, <1>2 DEF Fork, history
<1>4. esbuild' \in [seen : 0..source, step : {"idle", "onEnd", "running"}]
  BY DEF Fork, IInv, Typed, TypeOK
<1>5. x \in ProcessRecord(source) /\ proc \in [Process -> ProcessRecord(source)]
  BY <1>2 DEF IInv, Typed, TypeOK, Alive, ProcessRecord
<1>6. Typed'
  <2>1. IsFiniteSet(runs') /\ runs' \subseteq Call
    BY <1>3, FS_RemoveElement DEF IInv, Typed, TypeOK, Call
  <2>2. proc' \in [Process -> ProcessRecord(source)]
    BY <1>3, <1>5
  <2> QED BY <1>1, <1>3, <1>4, <2>1, <2>2 DEF IInv, Typed, TypeOK, ProcessRecord, Call
<1>7. \A q \in Process : proc'[q] = IF q = id THEN x ELSE proc[q]
  BY <1>3, <1>5
<1>8. PICK a \in Tokens : a = <<"call", r, 0>>
  BY TokenCases
<1>9. PICK b : b = <<"process", id, 0>>
  OBVIOUS
<1>10. ASSUME NEW t \in Tokens' PROVE t = b \/ (t \in Tokens /\ t # a)
  <2>1. CASE t \in {"process"} \X {q \in Living' : proc'[q].handlers = 0} \X {0}
    <3>1. PICK q \in Living' : t = <<"process", q, 0>> /\ proc'[q].handlers = 0
      BY <2>1
    <3>2. q # id => q \in Living /\ proc[q].handlers = 0
      BY <1>7, <3>1 DEF Living
    <3> QED BY <1>8, <1>9, <3>1, <3>2 DEF Tokens
  <2>2. CASE t \in {"handler"} \X Process \X Nat /\ t[3] \in 1..proc'[t[2]].handlers
    <3>1. t[2] # id
      BY <1>2, <1>7, <2>2
    <3> QED BY <1>7, <1>8, <2>2, <3>1 DEF Tokens
  <2>3. CASE t \in {"call"} \X runs' \X {0}
    BY <1>3, <1>8, <2>3 DEF Tokens
  <2> QED BY <2>1, <2>2, <2>3 DEF Tokens
<1>11. IsFiniteSet(Tokens') /\ Cardinality(Tokens') <= 1 + doubled'
  <2>1. Tokens' \subseteq (Tokens \ {a}) \cup {b}
    BY <1>10
  <2>2. IsFiniteSet(Tokens') /\ Cardinality(Tokens') <= Cardinality(Tokens)
    BY <2>1, Replaced DEF IInv, Few
  <2>3. Cardinality(Tokens) \in Nat /\ Cardinality(Tokens') \in Nat /\ doubled \in Nat
    BY <2>2, FS_CardinalityType DEF IInv, Few, Typed, TypeOK
  <2> QED BY <1>3, <2>2, <2>3 DEF IInv, Few
<1>12. Few'
  <2>1. \A q \in Process : proc'[q].handlers # 0 <=> proc'[q].stage = "killed"
    BY <1>2, <1>7 DEF IInv, Few
  <2> QED BY <1>1, <1>3, <1>11, <2>1 DEF IInv, Few
<1> QED BY <1>6, <1>12 DEF IInv

\* A process that begins to listen was alive before.
LEMMA ListenIInv == ASSUME IInv, NEW p \in Process, Listen(p) PROVE IInv'
<1>1. PICK x : x = [proc[p] EXCEPT !.stage = "listening"]
  OBVIOUS
<1>2. proc \in [Process -> ProcessRecord(source)]
  BY DEF IInv, Typed, TypeOK, ProcessRecord
<1>3. /\ UNCHANGED <<source, esbuild, file, program, runs, deletes, capabilities, webhook, crashes,
                     overtaken, doubled, raced>>
      /\ proc' = [proc EXCEPT ![p] = x] /\ proc[p].stage = "started"
  BY <1>1, <1>2 DEF Listen, history
<1>4. /\ x \in ProcessRecord(source)
      /\ x.stage = "listening" /\ x.handlers = proc[p].handlers
  BY <1>1, <1>2 DEF Alive, ProcessRecord
<1>5. Typed'
  BY <1>2, <1>3, <1>4 DEF IInv, Typed, TypeOK, ProcessRecord
<1>6. \A q \in Process : proc'[q] = IF q = p THEN x ELSE proc[q]
  BY <1>2, <1>3
<1>7. Few'
  <2>1. \A q \in Process :
          /\ proc'[q].stage \in Alive <=> proc[q].stage \in Alive
          /\ proc'[q].handlers = proc[q].handlers
          /\ proc'[q].stage = "killed" <=> proc[q].stage = "killed"
    BY <1>3, <1>4, <1>6 DEF Alive
  <2>2. Living' = Living /\ IsFiniteSet(Tokens') /\ Cardinality(Tokens') <= 1 + doubled'
    <3>1. \A q \in Process :
            /\ proc'[q].stage \in Alive <=> proc[q].stage \in Alive
            /\ proc'[q].handlers = proc[q].handlers
      BY <2>1
    <3>2. Few /\ UNCHANGED <<runs, doubled>>
      BY <1>3 DEF IInv
    <3> QED BY <3>1, <3>2, TokensStay
  <2>3. \A q \in Process : proc'[q].handlers # 0 <=> proc'[q].stage = "killed"
    BY <2>1 DEF IInv, Few
  <2> QED BY <1>3, <2>2, <2>3 DEF IInv, Few
<1> QED BY <1>5, <1>7 DEF IInv

\* The invariant of all steps.
THEOREM Invariance == Spec => []IInv
<1>1. IInv /\ [Next]_vars => IInv'
  <2> SUFFICES ASSUME IInv, [Next]_vars PROVE IInv'
    OBVIOUS
  <2>1. CASE Edit \/ Rebuild
    BY <2>1, EditorIInv
  <2>2. CASE Reload
    BY <2>2, ReloadIInv
  <2>3. CASE \E p \in Process : Exit(p) \/ Crash(p)
    BY <2>3, EndIInv
  <2>4. CASE \/ \E d \in deletes : Delete(d)
             \/ \E r \in runs : LoadCapabilities(r)
             \/ \E r \in runs : ApplyWebhook(r)
    BY <2>4, RequestIInv
  <2>5. CASE \E r \in runs : Fork(r)
    BY <2>5, ForkIInv
  <2>6. CASE \E p \in Process : Listen(p)
    BY <2>6, ListenIInv
  <2>7. CASE UNCHANGED vars
    BY <2>7 DEF vars, history, IInv, Typed, TypeOK, Few, Living, Tokens
  <2> QED BY <2>1, <2>2, <2>3, <2>4, <2>5, <2>6, <2>7 DEF Next
<1> QED BY <1>1, InitIInv, PTL DEF Spec

\* What is run, loaded and deployed are versions there have been.
THEOREM TypeCorrect == Spec => []TypeOK
<1>1. IInv => TypeOK
  BY DEF IInv, Typed
<1> QED BY <1>1, Invariance, PTL

\* There are no more processes of the module than one and one for each reload that found
\* the process killed already: each that lives has a token of its own.
THEOREM OneProcessOnly == Spec => []OneProcess
<1>1. IInv => OneProcess
  <2> SUFFICES ASSUME IInv PROVE Cardinality(Living) <= 1 + doubled
    BY DEF OneProcess
  <2>1. PICK f : f = [p \in Living |->
                        IF proc[p].handlers = 0 THEN <<"process", p, 0>> ELSE <<"handler", p, 1>>]
    OBVIOUS
  <2>2. ASSUME NEW p \in Living PROVE f[p] \in Tokens /\ f[p][2] = p
    <3>1. p \in Process /\ proc[p].handlers \in Nat
      BY DEF Living, IInv, Typed, TypeOK
    <3>2. CASE proc[p].handlers = 0
      BY <2>1, <3>2 DEF Tokens
    <3>3. CASE proc[p].handlers # 0
      <4>1. 1 \in 1..proc[p].handlers
        BY <3>1, <3>3
      <4> QED BY <2>1, <3>1, <3>3, <4>1 DEF Tokens
    <3> QED BY <3>2, <3>3
  <2>3. f \in Injection(Living, Tokens)
    BY <2>1, <2>2 DEF Injection, IsInjective
  <2>4. IsFiniteSet(Living) /\ Cardinality(Living) <= Cardinality(Tokens)
    BY <2>3, FS_Injection DEF IInv, Few
  <2>5. Cardinality(Living) \in Nat /\ Cardinality(Tokens) \in Nat /\ doubled \in Nat
    BY <2>4, FS_CardinalityType DEF IInv, Few, Typed, TypeOK
  <2> QED BY <2>4, <2>5 DEF IInv, Few
<1> QED BY <1>1, Invariance, PTL
=============================================================================
