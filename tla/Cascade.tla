------------------------------- MODULE Cascade -------------------------------
(***************************************************************************)
(* The store and the watcher engine (src/runtime/store.js,                 *)
(* src/runtime/watchers.js).  Every field of the page lives in one store;  *)
(* a write from outside opens a cascade, which schedules every watcher of  *)
(* the field, and drains first come first served until nothing is pending. *)
(* The writes a watcher body makes join the running cascade.  A watcher    *)
(* holds at most one pending entry, and one that fires more than           *)
(* MaxFirings times aborts the cascade.  Effects (the sends) are collected *)
(* on the side, last value per field, and delivered once it has settled.   *)
(*                                                                         *)
(* JavaScript runs a cascade to its end before anything else happens; here *)
(* every firing is a step, so that its intermediate states are states.     *)
(***************************************************************************)
EXTENDS Naturals, Sequences, Functions

CONSTANTS
    Fields,         \* the paths of the store
    Values,         \* what a field may hold
    Watchers,       \* the registered watchers
    WatchOrder,     \* ... in the order engine.watch was called
    FieldsOf,       \* [Watchers -> SUBSET Fields]: what each one watches
    Views,          \* those whose body writes the value to the page
    Senders,        \* those whose body enqueues the value as an effect
    SkipsOf,        \* [Watchers -> SUBSET Origins]: skipOrigins
    Body(_, _, _),  \* the writes of a body: watcher, its change, the store
    MaxFirings      \* maxFiringsPerWatcher

Origins == {"user", "server", "system", "replay"}

\* The wire does not send what came from it (server), nor what boot repaints
\* from its own queue (replay).
Outward(origin) == origin \notin {"server", "replay"}

\* What a change tells, and what a body writes: set refuses a body the origins
\* of the Wire and of the overlay.  (The one body that paints for the Wire,
\* the clearing of an empty context, belongs to RecordContexts.)
Changes(w) == [path : FieldsOf[w], value : Values, oldValue : Values, origin : Origins]
Writes == [path : Fields, value : Values, origin : Origins]

ASSUME EngineAssumption ==
    /\ Range(WatchOrder) = Watchers
    /\ FieldsOf \in [Watchers -> SUBSET Fields]
    /\ SkipsOf \in [Watchers -> SUBSET Origins]
    /\ Views \subseteq Watchers /\ Senders \subseteq Watchers
    /\ \A w \in Views \union Senders : \E f \in Fields : FieldsOf[w] = {f}
    /\ \A w \in Views : SkipsOf[w] = {}
    /\ \A w \in Senders : SkipsOf[w] = {"server", "replay"}
    /\ MaxFirings \in Nat \ {0}
    /\ \A w \in Watchers : \A c \in Changes(w), s \in [Fields -> Values] :
          LET writes == Body(w, c, s)
          IN  /\ writes \in Seq(Writes)
              /\ \A i \in DOMAIN writes : Outward(writes[i].origin)

VARIABLES
    store,      \* values: the value of every field
    dom,        \* what each view watcher last wrote to the page
    running,    \* is a cascade open?
    pending,    \* its queue of [watcher, change]: the last change of each entry
    firings,    \* how often each watcher fired in this cascade
    effects,    \* its effects, [path, value], in the order first enqueued
    outbox,     \* what the last cascade delivered
    aborted,    \* did the last cascade abort?
    torn,       \* history: has any cascade aborted?
    local       \* history: fields this cascade changed for user or system

cascadeVars == <<store, dom, running, pending, firings, effects, outbox, aborted,
                 torn, local>>

Change(path, value, old, origin) ==
    [path |-> path, value |-> value, oldValue |-> old, origin |-> origin]

(***************************************************************************)
(* Scheduling one change: every watcher of the field that does not skip    *)
(* its origin, in order, gets an entry, or has the change coalesced into   *)
(* the entry it already has (the body is given the last change).           *)
(***************************************************************************)
Wakes(w, change) ==
    change.path \in FieldsOf[w] /\ change.origin \notin SkipsOf[w]

Notified(queue, w, change) ==
    LET entry == [watcher |-> w, change |-> change]
    IN  IF ~Wakes(w, change) THEN queue
        ELSE IF \E i \in DOMAIN queue : queue[i].watcher = w
        THEN [i \in DOMAIN queue |-> IF queue[i].watcher = w THEN entry ELSE queue[i]]
        ELSE Append(queue, entry)

Schedule(queue, change) ==
    LET after[n \in 0..Len(WatchOrder)] ==
            IF n = 0 THEN queue ELSE Notified(after[n - 1], WatchOrder[n], change)
    IN  after[Len(WatchOrder)]

\* write(): the value-change guard, the assignment, the notification.
Put(state, write) ==
    LET old == state.store[write.path]
    IN  IF old = write.value THEN state
        ELSE [store   |-> [state.store EXCEPT ![write.path] = write.value],
              pending |-> Schedule(state.pending,
                              Change(write.path, write.value, old, write.origin)),
              local   |-> IF Outward(write.origin) THEN state.local \union {write.path}
                          ELSE state.local]

PutAll(state, writes) ==
    LET after[n \in 0..Len(writes)] ==
            IF n = 0 THEN state ELSE Put(after[n - 1], writes[n])
    IN  after[Len(writes)]

\* Mutant of Enqueue: a list of effects where the code keeps a Map.
EnqueueTwice(queue, path, value) == Append(queue, [path |-> path, value |-> value])

\* effects.set(path, value): a Map keeps the place of the first enqueue.
Enqueue(queue, path, value) ==
    IF \E i \in DOMAIN queue : queue[i].path = path
    THEN [i \in DOMAIN queue |-> IF queue[i].path = path
                                 THEN [path |-> path, value |-> value] ELSE queue[i]]
    ELSE Append(queue, [path |-> path, value |-> value])

-----------------------------------------------------------------------------
\* A page whose fields were seeded, and whose views were mounted from them.
CascadeInit(initial) ==
    /\ store = initial
    /\ dom = [w \in Views |-> initial[CHOOSE f \in FieldsOf[w] : TRUE]]
    /\ running = FALSE
    /\ pending = <<>>
    /\ firings = [w \in Watchers |-> 0]
    /\ effects = <<>>
    /\ outbox = <<>>
    /\ aborted = FALSE
    /\ torn = FALSE
    /\ local = {}

\* One external set, or a batch of them: the shell opens, the writes
\* schedule into it.  A single write the guard absorbs opens nothing.
Open(writes) ==
    LET quiet == [store |-> store, pending |-> <<>>, local |-> {}]
        after == PutAll(quiet, writes)
    IN  /\ ~running
        /\ after # quiet
        /\ store' = after.store
        /\ pending' = after.pending
        /\ local' = after.local
        /\ running' = TRUE
        /\ firings' = [w \in Watchers |-> 0]
        /\ effects' = <<>>
        /\ outbox' = <<>>
        /\ aborted' = FALSE
        /\ UNCHANGED <<dom, torn>>

\* The head of the queue is w's: its entry is gone before its body runs, so
\* the body's own writes may schedule it again.
AtHead(w) == running /\ pending # <<>> /\ Head(pending).watcher = w

RunBody(w) ==
    LET change == Head(pending).change
        after == PutAll([store |-> store, pending |-> Tail(pending), local |-> local],
                        Body(w, change, store))
    IN  /\ store' = after.store
        /\ pending' = after.pending
        /\ local' = after.local
        /\ dom' = IF w \in Views THEN [dom EXCEPT ![w] = change.value] ELSE dom
        /\ effects' = IF w \in Senders
                      THEN Enqueue(effects, change.path, change.value) ELSE effects
        /\ UNCHANGED <<running, outbox, aborted, torn>>

\* Mutants of Fire: a firing that is not counted; a watcher held to one firing
\* per cascade, not one pending entry.
FireUncounted(w) == AtHead(w) /\ RunBody(w) /\ UNCHANGED firings
FireOnceOnly(w) ==
    /\ AtHead(w)
    /\ firings' = [firings EXCEPT ![w] = @ + 1]
    /\ IF firings[w] = 0 THEN RunBody(w)
       ELSE /\ pending' = Tail(pending)
            /\ UNCHANGED <<store, dom, running, effects, outbox, aborted, torn, local>>

Fire(w) ==
    /\ AtHead(w)
    /\ firings[w] < MaxFirings
    /\ firings' = [firings EXCEPT ![w] = @ + 1]
    /\ RunBody(w)

\* The firing too many: the cascade ends there.  What the fields hold stays;
\* what was pending, and every effect, is dropped.
Abort(w) ==
    /\ AtHead(w)
    /\ firings[w] >= MaxFirings
    /\ running' = FALSE
    /\ pending' = <<>>
    /\ effects' = <<>>
    /\ aborted' = TRUE
    /\ torn' = TRUE
    /\ UNCHANGED <<store, dom, firings, outbox, local>>

\* Nothing is pending: the cascade closes and its effects are delivered.
Settle ==
    /\ running /\ pending = <<>>
    /\ running' = FALSE
    /\ outbox' = effects
    /\ effects' = <<>>
    /\ UNCHANGED <<store, dom, pending, firings, aborted, torn, local>>

-----------------------------------------------------------------------------
CascadeTypeOK ==
    /\ store \in [Fields -> Values]
    /\ dom \in [Views -> Values]
    /\ running \in BOOLEAN /\ aborted \in BOOLEAN /\ torn \in BOOLEAN
    /\ \A i \in DOMAIN pending :
          /\ pending[i].watcher \in Watchers
          /\ pending[i].change.path \in FieldsOf[pending[i].watcher]
          /\ pending[i].change.origin \in Origins
    /\ firings \in [Watchers -> 0..MaxFirings]
    /\ \A q \in {effects, outbox} : \A i \in DOMAIN q :
          q[i].path \in Fields /\ q[i].value \in Values
    /\ local \subseteq Fields
    /\ ~running => pending = <<>> /\ effects = <<>>
=============================================================================
