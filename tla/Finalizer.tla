----------------------------- MODULE Finalizer -----------------------------
(***************************************************************************)
(* Finalize(): the finalizer the admission controller injects, the watch   *)
(* handler that calls finalizeCallback for an object that is being deleted *)
(* and then removes the finalizer (core/capability.ts, finalizer.ts,       *)
(* processors/watch-processor.ts), and the API server that keeps a deleted *)
(* object for as long as it has finalizers.                                *)
(*                                                                         *)
(* The model follows one name, in a module with one chain. An object of    *)
(* that name may be deleted and created again; patches address the name,   *)
(* not the object. Finalize bindings are not queued: the handler of every  *)
(* event runs at once. Labels change only while an object is live.         *)
(***************************************************************************)
EXTENDS Compliance, Registration, FiniteSets

CONSTANTS
  Pepr,           \* the finalizer pepr.dev/finalizer
  Foreign,        \* the finalizers of other controllers
  Policies,       \* the failure policies the mutating webhook may have: "Fail" when
                  \* onError is reject, "Ignore" otherwise
  Modules,        \* the modules considered: [chain, namespaces : the capability's,
                  \* alwaysIgnore, admissionIgnore, watchIgnore]
  Places,         \* the names considered: [name, namespace]
  Labelings,      \* the labels an object may have
  Verdicts,       \* how finalizeCallback may end: "done" (true or void), "keep", "throw"
  MaxObjects,     \* bound on the objects of the name, one after the other
  MaxUpdates,     \* bound on the updates others make
  MaxCrashes,     \* bound on restarts of the watch controller
  MaxFailures     \* bound on its patches that fail

ASSUME FinalizerAssumption ==
  /\ Pepr \notin Foreign
  /\ Policies \subseteq {"Fail", "Ignore"}
  /\ \A m \in Modules : WellTyped(m.chain) /\ "Finalize" \in m.chain.methods
  /\ None \in Labelings
  /\ Verdicts \subseteq {"done", "keep", "throw"}
  /\ {MaxObjects, MaxUpdates, MaxCrashes, MaxFailures} \subseteq Nat

VARIABLES
  policy,    \* the webhook's failurePolicy
  module, place, \* chosen at the start
  object,    \* the object of the name, on the API server
  stream,    \* the events the watch has not handed over yet
  handlers,  \* the handlers of events that are still running
  events,    \* number of events made
  updates, crashes, failures,
  past       \* history of the object: what has been done to it

vars == <<policy, module, place, object, stream, handlers, events, updates, crashes, failures, past>>

Finalizers == Foreign \cup {Pepr}

\* uid numbers the objects of the name.
Object == [uid : Nat, state : {"none", "live", "deleting"},
           finalizers : SUBSET Finalizers, labels : Labelings]
Phase == {"Added", "Modified", "Deleted"}
Event == [n : Nat, phase : Phase, object : Object]
EventOf(n, phase, o) == [n |-> n, phase |-> phase, object |-> o]

\* armed: deletion found the finalizer there. released: a callback for the object
\* has ended and not asked to keep it. kept: one has asked to. missed: the watch
\* controller was down while it was being deleted. unpatched: the patch for its latest
\* event has failed.
Untouched ==
  [armed |-> FALSE, released |-> FALSE, kept |-> FALSE, missed |-> FALSE, unpatched |-> FALSE]

Init ==
  /\ policy \in Policies /\ module \in Modules /\ place \in Places
  /\ object = [uid |-> 0, state |-> "none", finalizers |-> {}, labels |-> None]
  /\ stream = << >>
  /\ handlers = {}
  /\ events = 0 /\ updates = 0 /\ crashes = 0 /\ failures = 0
  /\ past = Untouched

(***************************************************************************)
(* The filters of the chain, in its binding for admission and in the one   *)
(* for the watch.                                                          *)
(***************************************************************************)

\* What the filters look at.
Carried(o) ==
  [kind |-> module.chain.binding.kind.kind, name |-> place.name, namespace |-> place.namespace,
   labels |-> o.labels, annotations |-> None, deletionTimestamp |-> o.state = "deleting"]

ForAdmission(o, operation) ==
  \E b \in Finalize(module.chain, "admission") :
    ~shouldSkipRequest(b, [operation |-> operation, kind |-> b.kind, object |-> Carried(o)],
                       module.namespaces, getIgnoreNamespaces(module))

\* Mutant of watchIgnored: the list of the watch comes first.
watchIgnoredFirst ==
  IF module.watchIgnore # {} THEN module.watchIgnore ELSE module.alwaysIgnore

\* #createHooks: what the watch ignores if nothing is to be ignored always.
watchIgnored ==
  IF module.alwaysIgnore # {} THEN module.alwaysIgnore ELSE module.watchIgnore

ForWatch(o) ==
  \E b \in Finalize(module.chain, "watch") :
    ~filterNoMatchReason(b, Carried(o), module.namespaces, watchIgnored)

(***************************************************************************)
(* The API server, external.                                               *)
(***************************************************************************)

Emit(phase) ==
  /\ events' = events + 1
  /\ stream' = Append(stream, EventOf(events + 1, phase, object'))

\* What is stored of an update that makes o of the object: nothing when it changes
\* nothing, and no object any more when no finalizers are left of one that is being
\* deleted.
Stored(o) ==
  IF o = object THEN UNCHANGED <<object, stream, events>>
  ELSE /\ object' = [o EXCEPT !.state = IF @ = "deleting" /\ o.finalizers = {} THEN "none" ELSE @]
       /\ Emit(IF object'.state = "none" THEN "Deleted" ELSE "Modified")

\* The webhook is called for every request, or, if its failure may be ignored,
\* for some.
Hooked == IF policy = "Fail" THEN {TRUE} ELSE BOOLEAN

\* Mutant of addFinalizer: it leaves updates alone.
addFinalizerOnCreate(operation, deleting, fs) ==
  IF operation = "CREATE" THEN fs \cup {Pepr} ELSE fs

\* addFinalizer, for a request that leaves the object with finalizers fs.
addFinalizer(operation, deleting, fs) ==
  IF operation = "DELETE" \/ (operation = "UPDATE" /\ deleting) THEN fs ELSE fs \cup {Pepr}

\* A request that makes o of the object, after the webhook.
Admitted(hooked, operation, o) ==
  IF hooked /\ ForAdmission(o, operation)
  THEN [o EXCEPT !.finalizers = addFinalizer(operation, o.state = "deleting", @)]
  ELSE o

(***************************************************************************)
(* Users and other controllers.                                            *)
(***************************************************************************)

Create(fs, labels, hooked) ==
  /\ object.state = "none" /\ object.uid < MaxObjects
  /\ object' = Admitted(hooked, "CREATE",
       [uid |-> object.uid + 1, state |-> "live", finalizers |-> fs, labels |-> labels])
  /\ Emit("Added")
  /\ past' = Untouched
  /\ UNCHANGED <<policy, module, place, handlers, updates, crashes, failures>>

\* An update that applies a manifest, which says nothing of Pepr's finalizer, or that
\* leaves the finalizers alone.
Update(fs, labels, hooked) ==
  /\ object.state = "live" /\ updates < MaxUpdates
  /\ fs \subseteq Foreign \/ fs = object.finalizers
  /\ Stored(Admitted(hooked, "UPDATE", [object EXCEPT !.finalizers = fs, !.labels = labels]))
  /\ updates' = updates + 1
  /\ UNCHANGED <<policy, module, place, handlers, crashes, failures, past>>

\* Something else changes of an object that is being deleted.
Touch ==
  /\ object.state = "deleting" /\ updates < MaxUpdates
  /\ updates' = updates + 1
  /\ UNCHANGED object /\ Emit("Modified")
  /\ past' = [past EXCEPT !.unpatched = FALSE]
  /\ UNCHANGED <<policy, module, place, handlers, crashes, failures>>

Delete ==
  /\ object.state = "live"
  /\ object' = [object EXCEPT !.state = IF object.finalizers = {} THEN "none" ELSE "deleting"]
  /\ Emit(IF object.finalizers = {} THEN "Deleted" ELSE "Modified")
  /\ past' = [past EXCEPT !.armed = Pepr \in object.finalizers]
  /\ UNCHANGED <<policy, module, place, handlers, updates, crashes, failures>>

\* Another controller removes its finalizer.
Release(f) ==
  /\ object.state = "deleting" /\ f \in object.finalizers
  /\ Stored([object EXCEPT !.finalizers = @ \ {f}])
  /\ past' = [past EXCEPT !.unpatched = FALSE]
  /\ UNCHANGED <<policy, module, place, handlers, updates, crashes, failures>>

(***************************************************************************)
(* The watch controller.                                                   *)
(***************************************************************************)

\* Mutant of Deliver: the callback is not awaited.
DeliverUnawaited ==
  /\ stream # << >>
  /\ stream' = Tail(stream)
  /\ LET e == Head(stream)
     IN handlers' = IF \/ e.phase # "Modified" \/ ~ForWatch(e.object)
                       \/ e.object.state # "deleting"
                    THEN handlers
                    ELSE handlers \cup {[n |-> e.n, object |-> e.object, stage |-> "patch"]}
  /\ UNCHANGED <<policy, module, place, object, events, updates, crashes, failures, past>>

\* The handler of an event: phaseMatch of Event.UPDATE, the filters, and then
\* handleFinalizerRemoval, which calls finalizeCallback if the object has a deletion timestamp.
Deliver ==
  /\ stream # << >>
  /\ stream' = Tail(stream)
  /\ LET e == Head(stream)
     IN handlers' = IF \/ e.phase # "Modified" \/ ~ForWatch(e.object)
                       \/ e.object.state # "deleting"
                    THEN handlers
                    ELSE handlers \cup {[n |-> e.n, object |-> e.object, stage |-> "callback"]}
  /\ UNCHANGED <<policy, module, place, object, events, updates, crashes, failures, past>>

\* finalizeCallback ends: only false keeps the finalizer, a throw does not.
CallbackEnds(h, verdict) ==
  /\ h.stage = "callback"
  /\ handlers' = IF verdict = "keep" THEN handlers \ {h}
                 ELSE (handlers \ {h}) \cup {[h EXCEPT !.stage = "patch"]}
  /\ past' = IF h.object.uid # object.uid THEN past
             ELSE IF verdict = "keep" THEN [past EXCEPT !.kept = TRUE]
             ELSE [past EXCEPT !.released = TRUE]
  /\ UNCHANGED <<policy, module, place, object, stream, events, updates, crashes, failures>>

\* Mutant of removeFinalizer: all finalizers go.
removeFinalizers(h) == {}

\* The finalizers removeFinalizer leaves, of those the object had in the event.
removeFinalizer(h) == h.object.finalizers \ {Pepr}

\* The patch of removeFinalizer, which replaces the finalizers of the object of the
\* name. The API server refuses it when there is none, and new finalizers for an
\* object that is being deleted; admission sees an update of one that is not.
Patch(h, hooked) ==
  LET fs == removeFinalizer(h)
  IN /\ h.stage = "patch"
     /\ handlers' = handlers \ {h}
     /\ IF \/ object.state = "none"
           \/ object.state = "deleting" /\ ~(fs \subseteq object.finalizers)
        THEN UNCHANGED <<object, stream, events>>
        ELSE Stored(Admitted(hooked, "UPDATE", [object EXCEPT !.finalizers = fs]))
     /\ UNCHANGED <<policy, module, place, updates, crashes, failures, past>>

\* It fails before it is applied: the error is logged, the handler ends, and nothing
\* tries again until the object changes. One that fails after it was applied is a Patch.
PatchFails(h) ==
  /\ h.stage = "patch"
  /\ failures < MaxFailures /\ failures' = failures + 1
  /\ handlers' = handlers \ {h}
  /\ past' = IF h.n = events THEN [past EXCEPT !.unpatched = TRUE] ELSE past
  /\ UNCHANGED <<policy, module, place, object, stream, events, updates, crashes>>

\* The watch controller starts over: handlers and undelivered events are gone, and
\* the watch begins with a list, whose items are handed over as added.
Restart ==
  /\ crashes < MaxCrashes
  /\ crashes' = crashes + 1
  /\ handlers' = {}
  /\ events' = events + 1
  /\ stream' = IF object.state = "none" THEN << >>
               ELSE <<EventOf(events + 1, "Added", object)>>
  /\ past' = [past EXCEPT !.missed = @ \/ object.state = "deleting"]
  /\ UNCHANGED <<policy, module, place, object, updates, failures>>

Next ==
  \/ \E fs \in SUBSET Foreign, labels \in Labelings, hooked \in Hooked : Create(fs, labels, hooked)
  \/ \E fs \in SUBSET Finalizers, labels \in Labelings, hooked \in Hooked :
       Update(fs, labels, hooked)
  \/ Touch
  \/ Delete
  \/ \E f \in Foreign : Release(f)
  \/ Deliver
  \/ \E h \in handlers, verdict \in Verdicts : CallbackEnds(h, verdict)
  \/ \E h \in handlers, hooked \in Hooked : Patch(h, hooked)
  \/ \E h \in handlers : PatchFails(h)
  \/ Restart

Spec == Init /\ [][Next]_vars

\* Events are handed over, callbacks end, patches are answered, and the other
\* controllers remove their finalizers. Nothing makes anyone create, update or
\* delete the object, or the watch controller start over.
Fairness ==
  /\ WF_vars(\E f \in Foreign : Release(f))
  /\ WF_vars(Deliver)
  /\ WF_vars(\E h \in handlers, verdict \in Verdicts : CallbackEnds(h, verdict))
  /\ WF_vars(\E h \in handlers, hooked \in Hooked : Patch(h, hooked))

FairSpec == Spec /\ Fairness

(***************************************************************************)
(* Properties.                                                             *)
(***************************************************************************)

\* Objects, events and handlers are what they should be.
TypeOK ==
  /\ module \in Modules /\ object \in Object
  /\ stream \in Seq(Event) /\ events \in Nat
  /\ \A h \in handlers : h \in [n : Nat, stage : {"callback", "patch"}, object : Object]
  /\ past \in [armed : BOOLEAN, released : BOOLEAN, kept : BOOLEAN, missed : BOOLEAN,
              unpatched : BOOLEAN]

\* With failurePolicy Fail, no live object the chain is for is without the finalizer,
\* also when its labels have just made it one, or a handler of an earlier object of the
\* name patches it: the patch is admitted like any update.
AlwaysArmed ==
  policy = "Fail" /\ object.state = "live" /\ ForAdmission(object, "UPDATE") =>
    Pepr \in object.finalizers

\* The first object of a name that had the finalizer is gone only once a callback
\* for it has ended and not asked to keep it. A later object can be let go by a late
\* handler of the one before it, which patches by name.
Finalized(o) == past.armed /\ o.state = "none" => past.released
FirstFinalized == object.uid = 1 => Finalized(object)

\* A handler's patch takes no finalizer of another controller from the object whose
\* event it handles, however many finalizers have gone since the event.
PatchesOwnOnly ==
  [][\A h \in handlers, hooked \in BOOLEAN :
       Patch(h, hooked) /\ h.object.uid = object.uid =>
         object'.finalizers \cap Foreign = object.finalizers \cap Foreign]_vars

\* The deletion of an object that admission would put the finalizer on comes to its
\* end, unless a callback asked to keep the object, the watch controller was down while
\* it was being deleted, or the patch for its latest event has failed; a patch for an
\* earlier event may fail. The filters of the watch are those of admission.
Deleting(u) == object.uid = u /\ object.state = "deleting"
DeletionEnds ==
  \A u \in 1..MaxObjects :
    Deleting(u) /\ ForAdmission(object, "UPDATE") ~> 
      ~Deleting(u) \/ past.kept \/ past.missed \/ past.unpatched

\* Lifecycle events of a deleted object reach the callback also when the watch
\* controller starts over.
DeletionEndsAfterRestart ==
  \A u \in 1..MaxObjects : Deleting(u) ~> ~Deleting(u) \/ past.kept
=============================================================================
