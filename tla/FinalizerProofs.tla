-------------------------- MODULE FinalizerProofs --------------------------
(***************************************************************************)
(* Proofs about Finalizer, for any finalizers, policies and bounds.        *)
(***************************************************************************)
EXTENDS Finalizer, SequenceTheorems, TLAPS

History == [armed : BOOLEAN, released : BOOLEAN, kept : BOOLEAN, missed : BOOLEAN,
            unpatched : BOOLEAN]

\* What the proofs need of the types.
Typed ==
  /\ module \in Modules
  /\ object \in [uid : Nat, state : {"none", "live", "deleting"},
                 finalizers : SUBSET Finalizers, labels : Labelings]
  /\ past \in History
  /\ stream \in Seq([n : Nat, phase : Phase,
                     object : [uid : Nat, state : {"none", "live", "deleting"},
                               finalizers : SUBSET Finalizers, labels : Labelings]])
  /\ events \in Nat
  /\ \A h \in handlers :
       h \in [n : Nat, stage : {"callback", "patch"},
              object : [uid : Nat, state : {"none", "live", "deleting"},
                        finalizers : SUBSET Finalizers, labels : Labelings]]

\* The live object of the name has the finalizer under failurePolicy Fail, if it is one
\* the chain is for.
Armed ==
  policy = "Fail" /\ object.state = "live" /\ ForAdmission(object, "UPDATE") =>
    Pepr \in object.finalizers

\* No event and no handler is about a later object than the present one, or none.
Within(s, n) == \A i \in DOMAIN s : 1 <= s[i].object.uid /\ s[i].object.uid <= n
Past ==
  /\ Within(stream, object.uid)
  /\ \A h \in handlers : 1 <= h.object.uid /\ h.object.uid <= object.uid

\* A handler of the present object patches it only after its callback.
CallbackFirst ==
  \A h \in handlers : h.stage = "patch" /\ h.object.uid = object.uid => past.released

\* As long as no callback has let the first object go, it is there and armed.
Held ==
  /\ object.uid = 0 => object.state = "none" /\ ~past.armed
  /\ object.state = "live" => ~past.armed
  /\ object.uid = 1 /\ past.armed /\ ~past.released =>
       object.state = "deleting" /\ Pepr \in object.finalizers

IInv == Typed /\ Armed /\ Past /\ CallbackFirst /\ Held

AnyObject ==
  [uid : Nat, state : {"none", "live", "deleting"}, finalizers : SUBSET Finalizers,
   labels : Labelings]
AnyEvent == [n : Nat, phase : Phase, object : AnyObject]

\* The binding for admission is for any operation.
LEMMA AnyOperation ==
  ASSUME module \in Modules, NEW o PROVE ForAdmission(o, "CREATE") <=> ForAdmission(o, "UPDATE")
<1> DEFINE b == [module.chain.binding EXCEPT !.isMutate = TRUE, !.isFinalize = TRUE, !.event = "*"]
           req(operation) == [operation |-> operation, kind |-> b.kind, object |-> Carried(o)]
           skip(operation) == shouldSkipRequest(b, req(operation), module.namespaces,
                                                getIgnoreNamespaces(module))
<1>1. Finalize(module.chain, "admission") = {b}
  BY DEF Finalize, Pushed, registerAdmission, registerWatch
<1>2. b.event = "*"
  BY FinalizerAssumption DEF WellTyped
<1>3. \A operation : /\ req(operation).kind = b.kind /\ req(operation).object = Carried(o)
                     /\ operationMatchesEvent(req(operation).operation, b.event)
  BY <1>2 DEF operationMatchesEvent
<1>4. ForAdmission(o, "CREATE") <=> ~skip("CREATE")
  BY <1>1 DEF ForAdmission
<1>5. ForAdmission(o, "UPDATE") <=> ~skip("UPDATE")
  BY <1>1 DEF ForAdmission
<1> HIDE DEF b, req
<1>6. skip("CREATE") <=> skip("UPDATE")
  BY <1>3 DEF shouldSkipRequest, mismatchedGroup, mismatchedVersion, mismatchedKind
<1> QED BY <1>4, <1>5, <1>6

\* What admission makes of a request for o: it leaves all but the finalizers alone, adds
\* at most Pepr's, and to a live object that the chain is for it does.
LEMMA AdmittedFacts ==
  ASSUME module \in Modules, NEW hooked \in BOOLEAN, NEW operation \in {"CREATE", "UPDATE"},
         NEW o \in AnyObject, NEW a, a = Admitted(hooked, operation, o)
  PROVE  /\ a \in AnyObject /\ a.uid = o.uid /\ a.state = o.state /\ a.labels = o.labels
         /\ o.finalizers \subseteq a.finalizers /\ a.finalizers \subseteq o.finalizers \cup {Pepr}
         /\ o.state = "deleting" /\ operation = "UPDATE" => a = o
         /\ hooked /\ a.state = "live" /\ ForAdmission(a, "UPDATE") => Pepr \in a.finalizers
<1>1. CASE ~(hooked /\ ForAdmission(o, operation))
  <2>1. a = o
    BY <1>1 DEF Admitted
  <2>2. ForAdmission(o, "UPDATE") => ForAdmission(o, operation)
    BY AnyOperation
  <2> QED BY <1>1, <2>1, <2>2 DEF AnyObject
<1>2. CASE hooked /\ ForAdmission(o, operation)
  <2> DEFINE fs == addFinalizer(operation, o.state = "deleting", o.finalizers)
  <2>1. a = [o EXCEPT !.finalizers = fs]
    BY <1>2 DEF Admitted
  <2>2. /\ fs \in SUBSET Finalizers /\ o.finalizers \subseteq fs /\ fs \subseteq o.finalizers \cup {Pepr}
        /\ o.state = "deleting" /\ operation = "UPDATE" => fs = o.finalizers
        /\ o.state # "deleting" => Pepr \in fs
    BY DEF addFinalizer, Finalizers, AnyObject
  <2> HIDE DEF fs
  <2> QED BY <2>1, <2>2 DEF AnyObject
<1> QED BY <1>1, <1>2

\* Whom the chain is for changes with the object only.
LEMMA StillFor ==
  ASSUME UNCHANGED <<module, place>>
  PROVE  ForAdmission(object, "UPDATE")' <=> ForAdmission(object', "UPDATE")
BY DEF ForAdmission, Carried

\* What an event made by a step adds to the stream.
LEMMA EmitFacts ==
  ASSUME Typed, NEW phase \in Phase, object' \in AnyObject, object.uid <= object'.uid, 1 <= object'.uid,
         Within(stream, object.uid), Emit(phase)
  PROVE  /\ stream' \in Seq(AnyEvent) /\ events' \in Nat
         /\ Within(stream', object'.uid)
<1> DEFINE e == EventOf(events + 1, phase, object')
<1>1. stream \in Seq(AnyEvent) /\ events \in Nat /\ object \in AnyObject
  BY DEF Typed, AnyEvent, AnyObject
<1>2. e \in AnyEvent /\ e.object.uid = object'.uid
  BY <1>1 DEF EventOf, AnyEvent
<1>3. stream' = Append(stream, e) /\ events' = events + 1
  BY DEF Emit
<1> HIDE DEF e
<1>4. /\ stream' \in Seq(AnyEvent) /\ DOMAIN stream' = 1..(Len(stream) + 1)
      /\ \A i \in 1..Len(stream) : stream'[i] = stream[i]
      /\ stream'[Len(stream) + 1] = e
  BY <1>1, <1>2, <1>3
<1>5. ASSUME NEW i \in DOMAIN stream'
      PROVE  1 <= stream'[i].object.uid /\ stream'[i].object.uid <= object'.uid
  <2>1. CASE i = Len(stream) + 1
    BY <1>2, <1>4, <2>1 DEF AnyObject
  <2>2. CASE i # Len(stream) + 1
    <3>1. i \in 1..Len(stream) /\ stream[i] \in AnyEvent /\ i \in DOMAIN stream
      BY <1>1, <1>4, <2>2
    <3>2. /\ stream[i].object.uid \in Nat
          /\ 1 <= stream[i].object.uid /\ stream[i].object.uid <= object.uid
      BY <3>1 DEF AnyEvent, AnyObject, Within
    <3>3. stream'[i] = stream[i] /\ object.uid \in Nat /\ object'.uid \in Nat
      BY <1>1, <1>4, <3>1 DEF AnyObject
    <3> QED BY <3>2, <3>3
  <2> QED BY <2>1, <2>2
<1> QED BY <1>1, <1>3, <1>4, <1>5 DEF Within

\* What the API server stores of an update that makes o of the object.
LEMMA StoredFacts ==
  ASSUME IInv, NEW o \in AnyObject, o.uid = object.uid, o.state = object.state,
         object.state # "none", Stored(o)
  PROVE  /\ object' \in AnyObject /\ object'.uid = object.uid
         /\ object'.finalizers = o.finalizers /\ object'.labels = o.labels
         /\ \/ object'.state = object.state
            \/ object.state = "deleting" /\ o.finalizers = {} /\ object'.state = "none"
         /\ stream' \in Seq(AnyEvent) /\ events' \in Nat
         /\ Within(stream', object'.uid)
<1>0. /\ object \in AnyObject /\ stream \in Seq(AnyEvent) /\ events \in Nat
      /\ Within(stream, object.uid) /\ 1 <= object.uid
  BY DEF IInv, Typed, Past, Held, AnyObject, AnyEvent
<1>1. CASE o = object
  BY <1>0, <1>1 DEF Stored
<1>2. CASE o # object
  <2>1. object' = [o EXCEPT !.state = IF o.state = "deleting" /\ o.finalizers = {} THEN "none"
                                      ELSE o.state]
    BY <1>2 DEF Stored
  <2>2. object' \in AnyObject /\ object'.uid = object.uid
    BY <1>0, <2>1 DEF AnyObject
  <2>3. PICK phase \in Phase : Emit(phase)
    BY <1>2 DEF Stored, Phase
  <2>4. object.uid <= object'.uid /\ 1 <= object'.uid /\ Typed
    BY <1>0, <2>2 DEF AnyObject, IInv
  <2> QED BY <1>0, <2>1, <2>2, <2>3, <2>4, EmitFacts DEF AnyObject
<1> QED BY <1>1, <1>2

\* Handlers and history that do not change stay what they were for the same object.
LEMMA SameObject ==
  ASSUME IInv, UNCHANGED <<policy, module, place, handlers>>,
         past' \in History, past'.released = past.released,
         object' \in AnyObject, object'.uid = object.uid,
         stream' \in Seq(AnyEvent), events' \in Nat,
         Within(stream', object'.uid)
  PROVE  Typed' /\ Past' /\ CallbackFirst'
BY DEF IInv, Typed, Past, CallbackFirst, AnyObject, AnyEvent

\* The start.
LEMMA InitIInv == Init => IInv
<1> SUFFICES ASSUME Init PROVE IInv
  OBVIOUS
<1>1. Typed
  BY FinalizerAssumption DEF Init, Typed, Untouched, History
<1>2. Past /\ CallbackFirst /\ Armed /\ Held
  BY DEF Init, Past, Within, CallbackFirst, Armed, Held, Untouched
<1> QED BY <1>1, <1>2 DEF IInv

\* What users and other controllers do keeps the invariant.
LEMMA CreateIInv ==
  ASSUME IInv, NEW fs \in SUBSET Foreign, NEW labels \in Labelings, NEW hooked \in Hooked,
         Create(fs, labels, hooked)
  PROVE  IInv'
<1> DEFINE o == [uid |-> object.uid + 1, state |-> "live", finalizers |-> fs, labels |-> labels]
<1>0. /\ object \in AnyObject /\ Typed /\ Within(stream, object.uid)
      /\ object.state # "none" => 1 <= object.uid
  BY DEF IInv, Typed, Past, Held, AnyObject
<1>1. /\ object' = Admitted(hooked, "CREATE", o) /\ module' = module /\ place' = place
      /\ past' = Untouched /\ handlers' = handlers /\ policy' = policy /\ Emit("Added")
  BY DEF Create
<1>2. o \in AnyObject /\ o.uid = object.uid + 1 /\ o.state = "live"
  BY <1>0 DEF AnyObject, Finalizers
<1> HIDE DEF o
<1>3. /\ object' \in AnyObject /\ object.uid <= object'.uid /\ 1 <= object'.uid
      /\ object'.uid = object.uid + 1 /\ object'.state = "live"
      /\ hooked /\ ForAdmission(object', "UPDATE") => Pepr \in object'.finalizers
  <2>1. hooked \in BOOLEAN /\ module \in Modules
    BY <1>0 DEF Hooked, Typed
  <2>2. /\ object' \in AnyObject /\ object'.uid = o.uid /\ object'.state = o.state
        /\ hooked /\ object'.state = "live" /\ ForAdmission(object', "UPDATE") =>
             Pepr \in object'.finalizers
    BY <1>1, <1>2, <2>1, AdmittedFacts
  <2> QED BY <1>0, <1>2, <2>2 DEF AnyObject
<1>4. /\ stream' \in Seq(AnyEvent) /\ events' \in Nat
      /\ Within(stream', object'.uid)
  BY <1>0, <1>1, <1>3, EmitFacts DEF Phase
<1>5. Typed'
  BY <1>0, <1>1, <1>3, <1>4 DEF Typed, AnyObject, AnyEvent, Untouched, History
<1>6. \A h \in handlers : h.object.uid \in Nat /\ 1 <= h.object.uid /\ h.object.uid <= object.uid
  BY DEF IInv, Typed, Past
<1>7. Past' /\ CallbackFirst'
  BY <1>0, <1>1, <1>3, <1>4, <1>6 DEF Past, CallbackFirst, AnyObject
<1>8. Armed'
  BY <1>1, <1>3, StillFor DEF Armed, Hooked
<1>9. Held'
  BY <1>0, <1>1, <1>3 DEF Held, Untouched, AnyObject
<1> QED BY <1>5, <1>7, <1>8, <1>9 DEF IInv

\* Updates, deletion and what other controllers remove keep it.
LEMMA OthersIInv ==
  ASSUME IInv,
         \/ \E fs \in SUBSET Finalizers, labels \in Labelings, hooked \in Hooked :
              Update(fs, labels, hooked)
         \/ Touch \/ Delete \/ \E f \in Foreign : Release(f)
  PROVE  IInv'
<1>0. /\ object \in AnyObject /\ Typed /\ Within(stream, object.uid)
      /\ object.state # "none" => 1 <= object.uid
  BY DEF IInv, Typed, Past, Held, AnyObject
<1>1. ASSUME NEW fs \in SUBSET Finalizers, NEW labels \in Labelings, NEW hooked \in Hooked,
             Update(fs, labels, hooked)
      PROVE  IInv'
  <2> DEFINE o == [object EXCEPT !.finalizers = fs, !.labels = labels]
             after == Admitted(hooked, "UPDATE", o)
  <2>1. object.state = "live" /\ Stored(after) /\ UNCHANGED <<policy, module, place, handlers, past>>
    BY <1>1 DEF Update
  <2>2. o \in AnyObject /\ o.uid = object.uid /\ o.state = "live"
    BY <1>0, <2>1 DEF AnyObject
  <2>3. hooked \in BOOLEAN /\ module \in Modules
    BY <1>0 DEF Hooked, Typed
  <2> HIDE DEF o
  <2>4. /\ after \in AnyObject /\ after.uid = object.uid /\ after.state = object.state
        /\ hooked /\ ForAdmission(after, "UPDATE") => Pepr \in after.finalizers
    BY <2>1, <2>2, <2>3, AdmittedFacts
  <2> HIDE DEF after
  <2>5. /\ object' \in AnyObject /\ object'.uid = object.uid /\ object'.finalizers = after.finalizers
        /\ object'.labels = after.labels /\ object'.state = "live"
        /\ stream' \in Seq(AnyEvent) /\ events' \in Nat
        /\ Within(stream', object'.uid)
    BY <2>1, <2>4, StoredFacts
  <2>6. object' = after
    BY <2>1, <2>4, <2>5 DEF AnyObject
  <2>10. past' \in History
    BY <1>0, <2>1 DEF Typed
  <2>7. Typed' /\ Past' /\ CallbackFirst'
    BY <2>1, <2>5, <2>10, SameObject
  <2>8. Armed'
    BY <2>1, <2>4, <2>6, StillFor DEF Armed, Hooked
  <2>9. Held'
    BY <2>1, <2>5 DEF Held, IInv
  <2> QED BY <2>7, <2>8, <2>9 DEF IInv
<1>2. CASE Touch
  <2>1. object' = object /\ UNCHANGED <<policy, module, place, handlers>> /\ Emit("Modified")
    BY <1>2 DEF Touch
  <2>6. /\ past' \in History /\ past'.armed = past.armed /\ past'.released = past.released
    BY <1>0, <1>2 DEF Touch, Typed, History
  <2>2. object' \in AnyObject /\ object.uid <= object'.uid /\ 1 <= object'.uid
    BY <1>0, <1>2, <2>1 DEF AnyObject, Touch
  <2>3. /\ stream' \in Seq(AnyEvent) /\ events' \in Nat
        /\ Within(stream', object'.uid)
    BY <1>0, <2>1, <2>2, EmitFacts DEF Phase
  <2>4. Typed' /\ Past' /\ CallbackFirst'
    BY <2>1, <2>2, <2>3, <2>6, SameObject
  <2>5. Armed' /\ Held'
    BY <2>1, <2>6, StillFor DEF Armed, Held, IInv
  <2> QED BY <2>4, <2>5 DEF IInv
<1>3. CASE Delete
  <2>1. /\ object.state = "live" /\ UNCHANGED <<policy, module, place, handlers>>
        /\ object' = [object EXCEPT !.state = IF object.finalizers = {} THEN "none" ELSE "deleting"]
        /\ past' = [past EXCEPT !.armed = Pepr \in object.finalizers]
    BY <1>3 DEF Delete
  <2>2. PICK phase \in Phase : Emit(phase)
    BY <1>3 DEF Delete, Phase
  <2>3. /\ object' \in AnyObject /\ object'.uid = object.uid
        /\ object.uid <= object'.uid /\ 1 <= object'.uid
        /\ object'.finalizers = object.finalizers
        /\ object'.state = IF object.finalizers = {} THEN "none" ELSE "deleting"
    BY <1>0, <2>1 DEF AnyObject
  <2>4. /\ stream' \in Seq(AnyEvent) /\ events' \in Nat
        /\ Within(stream', object'.uid)
    BY <1>0, <2>2, <2>3, EmitFacts
  <2> DEFINE found == Pepr \in object.finalizers
  <2>5. PICK b \in BOOLEAN : /\ b <=> found
                             /\ past' = [past EXCEPT !.armed = b]
    <3>1. found \in BOOLEAN
      OBVIOUS
    <3> WITNESS found \in BOOLEAN
    <3> QED BY <2>1
  <2>10. /\ past' \in History
         /\ past'.armed = b /\ past'.released = past.released
    BY <1>0, <2>5 DEF Typed, History
  <2>6. Typed'
    BY <1>0, <2>1, <2>3, <2>4, <2>10 DEF Typed, AnyObject, AnyEvent
  <2>7. Past' /\ CallbackFirst'
    BY <2>1, <2>3, <2>4, <2>10 DEF Past, CallbackFirst, IInv
  <2>8. Armed'
    BY <2>3 DEF Armed
  <2>9. Held'
    BY <2>1, <2>3, <2>5, <2>10 DEF Held, IInv
  <2> QED BY <2>6, <2>7, <2>8, <2>9 DEF IInv
<1>4. ASSUME NEW f \in Foreign, Release(f) PROVE IInv'
  <2> DEFINE o == [object EXCEPT !.finalizers = object.finalizers \ {f}]
  <2>1. /\ object.state = "deleting" /\ Stored(o)
        /\ UNCHANGED <<policy, module, place, handlers>>
    BY <1>4 DEF Release
  <2>8. /\ past' \in History /\ past'.armed = past.armed /\ past'.released = past.released
    BY <1>0, <1>4 DEF Release, Typed, History
  <2>2. /\ o \in AnyObject /\ o.uid = object.uid /\ o.state = object.state
        /\ o.finalizers = object.finalizers \ {f}
    BY <1>0 DEF AnyObject
  <2> HIDE DEF o
  <2>3. /\ object' \in AnyObject /\ object'.uid = object.uid
        /\ object'.finalizers = object.finalizers \ {f}
        /\ object'.state = "deleting" \/ (object.finalizers \ {f} = {} /\ object'.state = "none")
        /\ stream' \in Seq(AnyEvent) /\ events' \in Nat
        /\ Within(stream', object'.uid)
    BY <2>1, <2>2, StoredFacts
  <2>4. Typed' /\ Past' /\ CallbackFirst'
    BY <2>1, <2>3, <2>8, SameObject
  <2>5. Pepr # f
    BY FinalizerAssumption
  <2>6. Armed'
    BY <2>3 DEF Armed
  <2>7. Held'
    BY <2>1, <2>3, <2>5, <2>8 DEF Held, IInv
  <2> QED BY <2>4, <2>6, <2>7 DEF IInv
<1> QED BY <1>1, <1>2, <1>3, <1>4

\* The handler of an event is about the object of the event.
LEMMA DeliverIInv ==
  ASSUME IInv, Deliver PROVE IInv'
<1> DEFINE e == Head(stream)
<1>1. stream # << >> /\ stream' = Tail(stream) /\ UNCHANGED <<policy, module, place, object, events, past>>
  BY DEF Deliver
<1>2. stream \in Seq(AnyEvent) /\ object \in AnyObject
  BY DEF IInv, Typed, AnyEvent, AnyObject
<1>3. 1 \in DOMAIN stream /\ e = stream[1] /\ e \in AnyEvent
  BY <1>1, <1>2
<1>4. /\ stream' \in Seq(AnyEvent)
      /\ \A i \in DOMAIN stream' : i + 1 \in DOMAIN stream /\ stream'[i] = stream[i + 1]
  BY <1>1, <1>2, HeadTailProperties
<1>5. /\ \A h \in handlers' : h \in handlers
                             \/ h = [n |-> e.n, object |-> e.object, stage |-> "callback"]
  BY DEF Deliver
<1> HIDE DEF e
<1>6. e.n \in Nat /\ e.object \in AnyObject /\ 1 <= e.object.uid /\ e.object.uid <= object.uid
  BY <1>3 DEF AnyEvent, IInv, Past, Within
<1>7. ASSUME NEW h \in handlers' PROVE
        /\ h \in [n : Nat, stage : {"callback", "patch"}, object : AnyObject]
        /\ 1 <= h.object.uid /\ h.object.uid <= object.uid
        /\ h.stage = "patch" => h \in handlers
  <2>1. CASE h \in handlers
    BY <2>1 DEF IInv, Typed, Past, AnyObject
  <2>2. CASE h = [n |-> e.n, object |-> e.object, stage |-> "callback"]
    BY <1>6, <2>2
  <2> QED BY <1>5, <2>1, <2>2
<1>8. Typed'
  BY <1>1, <1>4, <1>7 DEF IInv, Typed, AnyEvent, AnyObject
<1>9. Past'
  BY <1>1, <1>4, <1>7 DEF IInv, Past, Within
<1>10. CallbackFirst'
  BY <1>1, <1>7 DEF IInv, CallbackFirst
<1>11. Armed' /\ Held'
  BY <1>1, StillFor DEF IInv, Armed, Held
<1> QED BY <1>8, <1>9, <1>10, <1>11 DEF IInv

\* A callback that ends lets the object go before its handler patches it.
LEMMA CallbackEndsIInv ==
  ASSUME IInv, NEW h \in handlers, NEW verdict \in Verdicts, CallbackEnds(h, verdict)
  PROVE  IInv'
<1> DEFINE patching == [h EXCEPT !.stage = "patch"]
<1>1. /\ UNCHANGED <<policy, module, place, object, stream, events>>
      /\ \A g \in handlers' : g \in handlers \/ (verdict # "keep" /\ g = patching)
  BY DEF CallbackEnds
<1>2. /\ past' \in History
      /\ past'.armed = past.armed /\ (past.released => past'.released)
      /\ verdict # "keep" /\ h.object.uid = object.uid => past'.released
  BY DEF CallbackEnds, IInv, Typed, History
<1>3. h \in [n : Nat, stage : {"callback", "patch"}, object : AnyObject]
  BY DEF IInv, Typed, AnyObject
<1>4. /\ patching \in [n : Nat, stage : {"callback", "patch"}, object : AnyObject]
      /\ patching.object = h.object
  BY <1>3
<1> HIDE DEF patching
<1>5. Typed'
  BY <1>1, <1>2, <1>4 DEF IInv, Typed, AnyObject
<1>6. Past'
  BY <1>1, <1>4 DEF IInv, Past, Within
<1>7. CallbackFirst'
  BY <1>1, <1>2, <1>4 DEF IInv, CallbackFirst
<1>8. Armed' /\ Held'
  BY <1>1, <1>2, StillFor DEF IInv, Armed, Held
<1> QED BY <1>5, <1>6, <1>7, <1>8 DEF IInv

\* A patch takes the finalizer from the object whose callback has let it go; one that
\* meets a later object of the name is admitted like any update.
LEMMA PatchIInv ==
  ASSUME IInv, NEW h \in handlers, NEW hooked \in Hooked, Patch(h, hooked)
  PROVE  IInv'
<1> DEFINE o == [object EXCEPT !.finalizers = removeFinalizer(h)]
           after == Admitted(hooked, "UPDATE", o)
<1>1. UNCHANGED <<policy, module, place, past>> /\ handlers' = handlers \ {h} /\ h.stage = "patch"
  BY DEF Patch
<1>2. CASE UNCHANGED <<object, stream, events>>
  BY <1>1, <1>2, StillFor DEF IInv, Typed, Armed, Past, Within, CallbackFirst, Held
<1>3. CASE object.state # "none" /\ Stored(after)
  <2>0. object \in AnyObject /\ object.state \in {"live", "deleting"}
    BY <1>3 DEF IInv, Typed, AnyObject
  <2>1. o \in AnyObject /\ o.uid = object.uid /\ o.state = object.state
    BY <2>0 DEF IInv, Typed, removeFinalizer, AnyObject
  <2>2. hooked \in BOOLEAN /\ module \in Modules
    BY DEF Hooked, IInv, Typed
  <2> HIDE DEF o
  <2>3. /\ after \in AnyObject /\ after.uid = object.uid /\ after.state = object.state
        /\ hooked /\ after.state = "live" /\ ForAdmission(after, "UPDATE") =>
             Pepr \in after.finalizers
    BY <2>1, <2>2, AdmittedFacts
  <2> HIDE DEF after
  <2>8. /\ object' \in AnyObject /\ object'.uid = object.uid
        /\ object'.finalizers = after.finalizers /\ object'.labels = after.labels
        /\ object'.state = object.state \/ (object.state = "deleting" /\ object'.state = "none")
        /\ stream' \in Seq(AnyEvent) /\ events' \in Nat
        /\ Within(stream', object'.uid)
    BY <1>3, <2>3, StoredFacts
  <2>4. Typed' /\ Past' /\ CallbackFirst'
    BY <1>1, <2>8 DEF IInv, Typed, Past, CallbackFirst, AnyObject, AnyEvent
  <2>9. object'.state = "live" => object' = after
    BY <2>3, <2>8 DEF AnyObject
  <2>5. Armed'
    BY <1>1, <2>3, <2>9, StillFor DEF Armed, Hooked
  <2>6. object.uid = 1 => past.released
    <3>1. 1 <= h.object.uid /\ h.object.uid <= object.uid /\ h.object.uid \in Nat
      BY DEF IInv, Past, Typed
    <3> QED BY <1>1, <3>1 DEF IInv, CallbackFirst
  <2>7. Held'
    BY <1>1, <1>3, <2>0, <2>8, <2>6 DEF IInv, Held
  <2> QED BY <2>4, <2>5, <2>7 DEF IInv
<1> QED BY <1>2, <1>3 DEF Patch

\* A handler whose patch fails is gone, and no object has changed.
LEMMA PatchFailsIInv ==
  ASSUME IInv, NEW h \in handlers, PatchFails(h) PROVE IInv'
<1>1. /\ UNCHANGED <<policy, module, place, object, stream, events>>
      /\ handlers' \subseteq handlers
  BY DEF PatchFails
<1>2. /\ past' \in History /\ past'.armed = past.armed /\ past'.released = past.released
  BY DEF PatchFails, IInv, Typed, History
<1>3. Typed' /\ Past' /\ CallbackFirst'
  BY <1>1, <1>2 DEF IInv, Typed, Past, Within, CallbackFirst
<1>4. Armed' /\ Held'
  BY <1>1, <1>2, StillFor DEF IInv, Armed, Held
<1> QED BY <1>3, <1>4 DEF IInv

\* A restart forgets handlers and events.
LEMMA RestartIInv ==
  ASSUME IInv, Restart PROVE IInv'
<1> DEFINE e == EventOf(events + 1, "Added", object)
<1>1. /\ UNCHANGED <<policy, module, place, object>> /\ handlers' = {} /\ events' = events + 1
      /\ stream' = IF object.state = "none" THEN << >> ELSE <<e>>
  BY DEF Restart
<1>2. /\ past' \in History
      /\ past'.armed = past.armed /\ past'.released = past.released
  <2> DEFINE b == past.missed \/ object.state = "deleting"
  <2>1. b \in BOOLEAN /\ past' = [past EXCEPT !.missed = b]
    BY DEF Restart
  <2> HIDE DEF b
  <2> QED BY <2>1 DEF IInv, Typed, History
<1>3. /\ object \in AnyObject /\ events \in Nat /\ e \in AnyEvent /\ e.object = object
      /\ object.state # "none" => 1 <= object.uid
  BY DEF IInv, Typed, Held, EventOf, AnyEvent, AnyObject, Phase
<1> HIDE DEF e
<1>4. stream' \in Seq(AnyEvent) /\ Within(stream', object.uid)
  <2>1. CASE object.state = "none"
    BY <1>1, <2>1 DEF Within
  <2>2. CASE object.state # "none"
    <3>1. stream' \in Seq(AnyEvent) /\ DOMAIN stream' = 1..1 /\ stream'[1] = e
      BY <1>1, <1>3, <2>2
    <3> QED BY <1>3, <2>2, <3>1 DEF Within, AnyObject
  <2> QED BY <2>1, <2>2
<1>5. Typed'
  <2>1. module' \in Modules /\ object' \in AnyObject /\ events' \in Nat /\ handlers' = {}
    BY <1>1, <1>3 DEF IInv, Typed
  <2> QED BY <1>2, <1>4, <2>1 DEF Typed, AnyEvent, AnyObject
<1>6. Past' /\ CallbackFirst' /\ Armed' /\ Held'
  BY <1>1, <1>2, <1>4, StillFor DEF IInv, Past, CallbackFirst, Armed, Held
<1> QED BY <1>5, <1>6 DEF IInv

\* IInv is inductive.
THEOREM Invariance == Spec => []IInv
<1>1. IInv /\ [Next]_vars => IInv'
  <2> SUFFICES ASSUME IInv, [Next]_vars PROVE IInv'
    OBVIOUS
  <2>1. CASE \E fs \in SUBSET Foreign, labels \in Labelings, hooked \in Hooked :
               Create(fs, labels, hooked)
    BY <2>1, CreateIInv
  <2>2. CASE \/ \E fs \in SUBSET Finalizers, labels \in Labelings, hooked \in Hooked :
                  Update(fs, labels, hooked)
             \/ Touch \/ Delete \/ \E f \in Foreign : Release(f)
    BY <2>2, OthersIInv
  <2>3. CASE Deliver
    BY <2>3, DeliverIInv
  <2>4. CASE \E h \in handlers, verdict \in Verdicts : CallbackEnds(h, verdict)
    BY <2>4, CallbackEndsIInv
  <2>5. CASE \E h \in handlers, hooked \in Hooked : Patch(h, hooked)
    BY <2>5, PatchIInv
  <2>8. CASE \E h \in handlers : PatchFails(h)
    BY <2>8, PatchFailsIInv
  <2>6. CASE Restart
    BY <2>6, RestartIInv
  <2>7. CASE UNCHANGED vars
    BY <2>7, StillFor DEF vars, IInv, Typed, Armed, Past, Within, CallbackFirst, Held
  <2> QED BY <2>1, <2>2, <2>3, <2>4, <2>5, <2>6, <2>7, <2>8 DEF Next
<1> QED BY <1>1, InitIInv, PTL DEF Spec

(***************************************************************************)
(* What a patch takes away.                                                *)
(***************************************************************************)

\* If o is of an event in the deletion of obj, obj is still being deleted, or gone, and
\* has got no finalizer since.
Outlived(o, obj) ==
  o.state = "deleting" /\ o.uid = obj.uid =>
    obj.state # "live" /\ obj.finalizers \subseteq o.finalizers

\* No event tells of less than there still is, and handlers are of deletions only.
Shrinking ==
  /\ \A i \in DOMAIN stream : Outlived(stream[i].object, object)
  /\ \A h \in handlers : h.object.state = "deleting" /\ Outlived(h.object, object)

\* An object of a name becomes another one, or loses finalizers once it is being deleted.
Moves(old, new) ==
  \/ new.uid = old.uid + 1
  \/ /\ new.uid = old.uid
     /\ old.state # "live" => new.state # "live" /\ new.finalizers \subseteq old.finalizers

LEMMA MovesOutlive ==
  ASSUME NEW old \in AnyObject, NEW new \in AnyObject, Moves(old, new),
         NEW o \in AnyObject, o.uid <= old.uid, Outlived(o, old)
  PROVE  Outlived(o, new)
<1>1. old.uid \in Nat /\ new.uid \in Nat /\ o.uid \in Nat
  BY DEF AnyObject
<1>2. CASE new.uid = old.uid + 1
  <2>1. o.uid # new.uid
    BY <1>1, <1>2
  <2> QED BY <2>1 DEF Outlived
<1>3. CASE new.uid = old.uid /\ (old.state # "live" => new.state # "live" /\ new.finalizers \subseteq old.finalizers)
  BY <1>3 DEF Outlived
<1> QED BY <1>2, <1>3 DEF Moves

\* Such a step keeps Shrinking, if its events are of the object and its handlers of
\* events.
LEMMA MovesShrink ==
  ASSUME IInv, IInv', Shrinking, Moves(object, object'),
         \A i \in DOMAIN stream' :
           (\E j \in DOMAIN stream : stream'[i] = stream[j]) \/ stream'[i].object = object',
         \A h \in handlers' :
           \/ \E g \in handlers : h.object = g.object
           \/ h.object.state = "deleting" /\ \E j \in DOMAIN stream : h.object = stream[j].object
  PROVE  Shrinking'
<1>1. object \in AnyObject /\ object' \in AnyObject
  BY DEF IInv, Typed, AnyObject
<1>2. \A j \in DOMAIN stream : /\ stream[j].object \in AnyObject
                               /\ stream[j].object.uid <= object.uid
                               /\ Outlived(stream[j].object, object)
  <2>1. stream \in Seq(AnyEvent)
    BY DEF IInv, Typed, AnyEvent, AnyObject
  <2>2. \A j \in DOMAIN stream : stream[j] \in AnyEvent
    BY <2>1
  <2> QED BY <2>2 DEF AnyEvent, Shrinking, IInv, Past, Within
<1>3. \A g \in handlers : /\ g.object \in AnyObject /\ g.object.uid <= object.uid
                           /\ g.object.state = "deleting" /\ Outlived(g.object, object)
  BY DEF IInv, Typed, Past, Shrinking, AnyObject
<1>4. \A j \in DOMAIN stream : Outlived(stream[j].object, object')
  BY <1>1, <1>2, MovesOutlive
<1>5. \A g \in handlers : Outlived(g.object, object')
  BY <1>1, <1>3, MovesOutlive
<1>6. Outlived(object', object')
  BY DEF Outlived
<1>7. \A i \in DOMAIN stream' : Outlived(stream'[i].object, object')
  BY <1>4, <1>6
<1>8. \A h \in handlers' : h.object.state = "deleting" /\ Outlived(h.object, object')
  BY <1>3, <1>4, <1>5
<1> QED BY <1>7, <1>8 DEF Shrinking

\* The only new event is of the object.
LEMMA EmitShrink ==
  ASSUME IInv, NEW phase, Emit(phase)
  PROVE  \A i \in DOMAIN stream' :
           (\E j \in DOMAIN stream : stream'[i] = stream[j]) \/ stream'[i].object = object'
<1> DEFINE e == EventOf(events + 1, phase, object')
<1>1. e.object = object' /\ stream' = Append(stream, e)
  BY DEF EventOf, Emit
<1>2. stream \in Seq(AnyEvent)
  BY DEF IInv, Typed, AnyEvent, AnyObject
<1> HIDE DEF e
<1>3. DOMAIN stream' = 1..(Len(stream) + 1) /\ DOMAIN stream = 1..Len(stream) /\ Len(stream) \in Nat
  BY <1>1, <1>2
<1>4. \A i \in DOMAIN stream' :
        (i \in DOMAIN stream /\ stream'[i] = stream[i]) \/ stream'[i] = e
  BY <1>1, <1>2, <1>3
<1> QED BY <1>1, <1>4

\* No step gives finalizers to an object that is being deleted.
LEMMA StepShrinking == IInv /\ IInv' /\ Shrinking /\ [Next]_vars => Shrinking'
<1> SUFFICES ASSUME IInv, IInv', Shrinking, [Next]_vars PROVE Shrinking'
  OBVIOUS
<1>0. /\ object \in AnyObject /\ object' \in AnyObject /\ module \in Modules
      /\ \A h \in handlers : h.object \in AnyObject
  BY DEF IInv, Typed, AnyObject
<1>1. ASSUME Moves(object, object'), handlers' \subseteq handlers,
             (\E phase : Emit(phase)) \/ stream' = stream
      PROVE  Shrinking'
  <2>1. \A i \in DOMAIN stream' :
          (\E j \in DOMAIN stream : stream'[i] = stream[j]) \/ stream'[i].object = object'
    BY <1>1, EmitShrink
  <2> QED BY <1>1, <2>1, MovesShrink
<1>2. ASSUME NEW o \in AnyObject, o.uid = object.uid, o.state = object.state, object.state # "none",
             object.state = "deleting" => o.finalizers \subseteq object.finalizers,
             Stored(o), handlers' \subseteq handlers
      PROVE  Shrinking'
  <2>1. /\ object'.uid = object.uid /\ object'.finalizers = o.finalizers
        /\ object'.state = object.state \/ (object.state = "deleting" /\ object'.state = "none")
    BY <1>2, StoredFacts
  <2>2. Moves(object, object')
    BY <1>0, <1>2, <2>1 DEF Moves, AnyObject
  <2>3. (\E phase : Emit(phase)) \/ stream' = stream
    BY <1>2 DEF Stored
  <2> QED BY <1>1, <1>2, <2>2, <2>3
<1>3. ASSUME NEW fs \in SUBSET Foreign, NEW labels \in Labelings, NEW hooked \in Hooked,
             Create(fs, labels, hooked)
      PROVE  Shrinking'
  <2> DEFINE o == [uid |-> object.uid + 1, state |-> "live", finalizers |-> fs, labels |-> labels]
  <2>1. object' = Admitted(hooked, "CREATE", o) /\ Emit("Added") /\ handlers' = handlers
    BY <1>3 DEF Create
  <2>2. o \in AnyObject /\ o.uid = object.uid + 1
    BY <1>0 DEF AnyObject, Finalizers
  <2> HIDE DEF o
  <2>3. hooked \in BOOLEAN
    BY DEF Hooked
  <2>4. object'.uid = object.uid + 1
    BY <1>0, <2>1, <2>2, <2>3, AdmittedFacts
  <2> QED BY <1>1, <2>1, <2>4 DEF Moves
<1>4. ASSUME NEW fs \in SUBSET Finalizers, NEW labels \in Labelings, NEW hooked \in Hooked,
             Update(fs, labels, hooked)
      PROVE  Shrinking'
  <2> DEFINE o == [object EXCEPT !.finalizers = fs, !.labels = labels]
  <2>1. object.state = "live" /\ Stored(Admitted(hooked, "UPDATE", o)) /\ handlers' = handlers
    BY <1>4 DEF Update
  <2>2. o \in AnyObject /\ o.uid = object.uid /\ o.state = object.state /\ hooked \in BOOLEAN
    BY <1>0 DEF AnyObject, Hooked
  <2> HIDE DEF o
  <2>3. PICK after : after = Admitted(hooked, "UPDATE", o)
    OBVIOUS
  <2>4. after \in AnyObject /\ after.uid = object.uid /\ after.state = object.state
    BY <1>0, <2>2, <2>3, AdmittedFacts
  <2> QED BY <1>2, <2>1, <2>3, <2>4
<1>5. CASE Touch
  BY <1>0, <1>1, <1>5 DEF Touch, Moves
<1>6. CASE Delete
  <2>1. /\ object.state = "live" /\ handlers' = handlers /\ \E phase : Emit(phase)
        /\ object' = [object EXCEPT !.state = IF object.finalizers = {} THEN "none" ELSE "deleting"]
    BY <1>6 DEF Delete
  <2>2. object'.uid = object.uid
    BY <1>0, <2>1 DEF AnyObject
  <2> QED BY <1>1, <2>1, <2>2 DEF Moves
<1>7. ASSUME NEW f \in Foreign, Release(f) PROVE Shrinking'
  <2>1. PICK o : o = [object EXCEPT !.finalizers = @ \ {f}]
    OBVIOUS
  <2>2. object.state = "deleting" /\ Stored(o) /\ handlers' = handlers
    BY <1>7, <2>1 DEF Release
  <2>3. /\ o \in AnyObject /\ o.uid = object.uid /\ o.state = object.state
        /\ o.finalizers \subseteq object.finalizers
    BY <1>0, <2>1 DEF AnyObject
  <2> QED BY <1>2, <2>2, <2>3
<1>8. CASE Deliver
  <2>1. stream # << >> /\ stream' = Tail(stream) /\ object' = object
    BY <1>8 DEF Deliver
  <2>2. stream \in Seq(AnyEvent)
    BY DEF IInv, Typed, AnyEvent, AnyObject
  <2>3. /\ 1 \in DOMAIN stream /\ Head(stream) = stream[1]
        /\ \A i \in DOMAIN stream' : i + 1 \in DOMAIN stream /\ stream'[i] = stream[i + 1]
    BY <2>1, <2>2, HeadTailProperties
  <2>4. \A h \in handlers' :
          \/ h \in handlers
          \/ h.object = Head(stream).object /\ Head(stream).object.state = "deleting"
    BY <1>8 DEF Deliver
  <2>5. Moves(object, object')
    BY <2>1 DEF Moves
  <2> QED BY <2>3, <2>4, <2>5, MovesShrink
<1>9. ASSUME NEW h \in handlers, NEW verdict \in Verdicts, CallbackEnds(h, verdict)
      PROVE  Shrinking'
  <2>1. stream' = stream /\ object' = object
    BY <1>9 DEF CallbackEnds
  <2>2. [h EXCEPT !.stage = "patch"].object = h.object
    BY DEF IInv, Typed
  <2>3. \A g \in handlers' : g \in handlers \/ g.object = h.object
    BY <1>9, <2>2 DEF CallbackEnds
  <2>4. Moves(object, object')
    BY <2>1 DEF Moves
  <2> QED BY <2>1, <2>3, <2>4, MovesShrink
<1>10. ASSUME NEW h \in handlers, NEW hooked \in Hooked, Patch(h, hooked) PROVE Shrinking'
  <2>1. PICK o : o = [object EXCEPT !.finalizers = removeFinalizer(h)]
    OBVIOUS
  <2>2. handlers' \subseteq handlers
    BY <1>10 DEF Patch
  <2>3. CASE UNCHANGED <<object, stream, events>>
    BY <1>1, <2>2, <2>3 DEF Moves
  <2>4. CASE /\ object.state # "none"
             /\ object.state = "deleting" => removeFinalizer(h) \subseteq object.finalizers
             /\ Stored(Admitted(hooked, "UPDATE", o))
    <3>1. /\ o \in AnyObject /\ o.uid = object.uid /\ o.state = object.state
          /\ o.finalizers = removeFinalizer(h) /\ hooked \in BOOLEAN
      BY <1>0, <2>1 DEF AnyObject, removeFinalizer, Hooked
    <3>2. PICK after : after = Admitted(hooked, "UPDATE", o)
      OBVIOUS
    <3>3. /\ after \in AnyObject /\ after.uid = object.uid /\ after.state = object.state
          /\ object.state = "deleting" => after = o
      BY <1>0, <3>1, <3>2, AdmittedFacts
    <3> QED BY <1>2, <2>2, <2>4, <3>1, <3>2, <3>3
  <2> QED BY <1>10, <2>1, <2>3, <2>4 DEF Patch
<1>13. ASSUME NEW h \in handlers, PatchFails(h) PROVE Shrinking'
  <2>1. object' = object /\ stream' = stream /\ handlers' \subseteq handlers
    BY <1>13 DEF PatchFails
  <2>2. Moves(object, object')
    BY <2>1 DEF Moves
  <2> QED BY <1>1, <2>1, <2>2
<1>11. CASE Restart
  <2>1. /\ handlers' = {} /\ object' = object
        /\ stream' = IF object.state = "none" THEN << >>
                     ELSE <<EventOf(events + 1, "Added", object)>>
    BY <1>11 DEF Restart
  <2>2. \A i \in DOMAIN stream' : stream'[i].object = object'
    BY <2>1 DEF EventOf
  <2>3. Moves(object, object')
    BY <2>1 DEF Moves
  <2> QED BY <2>1, <2>2, <2>3, MovesShrink
<1>12. CASE UNCHANGED vars
  BY <1>1, <1>12 DEF vars, Moves
<1> QED BY <1>3, <1>4, <1>5, <1>6, <1>7, <1>8, <1>9, <1>10, <1>11, <1>12, <1>13 DEF Next

\* A patch of a handler of the object leaves what other controllers have of it.
LEMMA PatchLeaves ==
  ASSUME IInv, Shrinking, NEW h \in handlers, NEW hooked \in BOOLEAN, Patch(h, hooked),
         h.object.uid = object.uid
  PROVE  object'.finalizers \cap Foreign = object.finalizers \cap Foreign
<1>1. object \in AnyObject /\ h.object \in AnyObject /\ module \in Modules
  BY DEF IInv, Typed, AnyObject
<1>2. object.state # "live" /\ object.finalizers \subseteq h.object.finalizers
  BY DEF Shrinking, Outlived
<1>3. PICK o : o = [object EXCEPT !.finalizers = removeFinalizer(h)]
  OBVIOUS
<1>4. CASE object' = object
  BY <1>4
<1>5. CASE /\ object.state # "none"
           /\ object.state = "deleting" => removeFinalizer(h) \subseteq object.finalizers
           /\ Stored(Admitted(hooked, "UPDATE", o))
  <2>1. object.state = "deleting"
    BY <1>1, <1>2, <1>5 DEF AnyObject
  <2>2. /\ o \in AnyObject /\ o.uid = object.uid /\ o.state = object.state
        /\ o.finalizers = removeFinalizer(h)
    BY <1>1, <1>3 DEF AnyObject, removeFinalizer
  <2>3. Admitted(hooked, "UPDATE", o) = o
    BY <1>1, <2>1, <2>2, AdmittedFacts
  <2>4. object'.finalizers = removeFinalizer(h)
    BY <1>5, <2>1, <2>2, <2>3, StoredFacts
  <2>5. removeFinalizer(h) \cap Foreign = h.object.finalizers \cap Foreign
    BY FinalizerAssumption DEF removeFinalizer
  <2> QED BY <1>2, <1>5, <2>1, <2>4, <2>5
<1> QED BY <1>3, <1>4, <1>5 DEF Patch

(***************************************************************************)
(* What is proved of every name.                                           *)
(***************************************************************************)

\* Objects, events and handlers are what they should be.
THEOREM TypeCorrect == Spec => []TypeOK
<1>1. IInv => TypeOK
  BY DEF IInv, Typed, TypeOK, History, Object, Event
<1> QED BY <1>1, Invariance, PTL

\* With failurePolicy Fail, no live object of the name is ever without the finalizer,
\* whatever handlers of earlier objects patch.
THEOREM ArmedAlways == Spec => []AlwaysArmed
<1>1. IInv => AlwaysArmed
  BY DEF IInv, Armed, AlwaysArmed
<1> QED BY <1>1, Invariance, PTL

\* The first object of a name that had the finalizer is gone only after a callback
\* that did not ask to keep it.
THEOREM FirstObjectFinalized == Spec => []FirstFinalized
<1>1. IInv => FirstFinalized
  BY DEF IInv, Typed, Held, FirstFinalized, Finalized
<1> QED BY <1>1, Invariance, PTL

\* However late a handler's patch, and whatever has been removed since its event, it
\* takes no finalizer of another controller from the object whose event it handles.
THEOREM OwnFinalizerOnly == Spec => PatchesOwnOnly
<1>1. Init => Shrinking
  BY DEF Init, Shrinking
<1>2. Spec => []Shrinking
  BY <1>1, StepShrinking, Invariance, PTL DEF Spec
<1>3. IInv /\ Shrinking =>
        \A h \in handlers, hooked \in BOOLEAN :
          Patch(h, hooked) /\ h.object.uid = object.uid =>
            object'.finalizers \cap Foreign = object.finalizers \cap Foreign
  BY PatchLeaves
<1> QED BY <1>2, <1>3, Invariance, PTL DEF PatchesOwnOnly
=============================================================================
