------------------------------ MODULE PageState ------------------------------
(***************************************************************************)
(* A page at work: the store and its cascades (Cascade), the routes        *)
(* (Router), the browser's history, and what feeds them - the user's       *)
(* inputs and button presses (binder.js handleInput), the Wire's receive   *)
(* path, the boot overlay, app code, navigation and the back and forward   *)
(* buttons (boot.js).                                                      *)
(***************************************************************************)
EXTENDS Cascade, Router, FiniteSets

CONSTANTS
    SyncUrl,        \* the watcher "router:sync-url"
    Derivers,       \* app watchers: their writes depend on the store only
    WrittenFields,  \* fields widgets, the Wire, the overlay and app code write
    BoundFields,    \* fields the Wire sends
    Contents,       \* what the user, the Wire and app code write in them
    Presses,        \* argument lists of field.set buttons: sequences of writes
    Urls,           \* URLs typed, linked, or given to nav.go
    Mounted,        \* the store as seeded, before the first URL is applied
    MaxMoves        \* bound on the events of a run

\* The URLs a history may hold: those given, those that states have, and what
\* they are corrected to.
GivenUrls == Urls \union ({PathFromState(s) : s \in [Fields -> Values]} \ {NoUrl})
AppUrls == GivenUrls \union {Corrected(url) : url \in GivenUrls}

\* A route's sets name parameters of its own pattern (the loader refuses
\* others); there is a router only where there are routes.
ASSUME PageAssumption ==
    /\ SyncUrl \in Watchers /\ FieldsOf[SyncUrl] = Targets /\ SkipsOf[SyncUrl] = {}
    /\ Len(Routes) \in Nat \ {0} /\ DOMAIN Routes = 1..Len(Routes)
    /\ \A r \in DOMAIN Routes :
          LET segs == Routes[r].segs
              sets == Routes[r].sets
          IN  /\ Len(segs) \in Nat /\ DOMAIN segs = 1..Len(segs)
              /\ \A k \in DOMAIN segs : segs[k].param \in BOOLEAN
              /\ \A i \in DOMAIN sets :
                    /\ sets[i].param \in BOOLEAN
                    /\ sets[i].param => \E k \in DOMAIN segs : segs[k] = Param(sets[i].value)
    /\ Derivers \subseteq Watchers
    /\ BoundFields = UNION {FieldsOf[w] : w \in Senders}
    /\ WrittenFields \subseteq Fields /\ Contents \subseteq Values
    /\ Presses \subseteq Seq([path : Fields, value : Values])
    /\ Mounted \in [Fields -> Values]
    /\ \A url \in AppUrls :
          /\ Assignments(url) \in Seq([path : Fields, value : Values])
          /\ Corrected(url) \in AppUrls
    /\ MaxMoves \in Nat

VARIABLES
    entries,    \* the session history of the tab
    at,         \* which entry is shown: location is entries[at]
    toApply,    \* assignments router.apply has still to make
    move,       \* history: the kind of the event being handled
    pushes,     \* history: entries pushed since it began
    planned,    \* history: how many assignments it began with
    moves       \* how many events there were

browserVars == <<entries, at, toApply, move, pushes, planned, moves>>
vars == <<cascadeVars, browserVars>>

Location == entries[at]

\* history.pushState: what lay ahead is gone.
PushState(url) ==
    /\ entries' = Append(SubSeq(entries, 1, at), url)
    /\ at' = at + 1
    /\ pushes' = pushes + 1

AtRest == ~running /\ toApply = <<>>

\* The first URL is applied silently, before anything is mounted or watched.
Init ==
    \E url \in Urls :
        /\ CascadeInit([f \in Fields |->
              LET given == {i \in DOMAIN Assignments(url) : Assignments(url)[i].path = f}
              IN  IF given = {} THEN Mounted[f]
                  ELSE Assignments(url)[CHOOSE i \in given : TRUE].value])
        /\ entries = <<Corrected(url)>>
        /\ at = 1
        /\ toApply = <<>>
        /\ move = "boot"
        /\ pushes = 0
        /\ planned = 0
        /\ moves = 0

Begins(kind) ==
    /\ AtRest
    /\ moves < MaxMoves
    /\ moves' = moves + 1
    /\ move' = kind

\* A keystroke in a bound widget: one write of origin user.
Input(field, value) ==
    /\ Begins("input")
    /\ Open(<<[path |-> field, value |-> value, origin |-> "user"]>>)
    /\ pushes' = 0 /\ planned' = 0
    /\ UNCHANGED <<entries, at, toApply>>

\* A field.set button: all its pairs are one batch.
FieldSet(press) ==
    /\ Begins("input")
    /\ Open([i \in DOMAIN press |->
               [path |-> press[i].path, value |-> press[i].value, origin |-> "user"]])
    /\ pushes' = 0 /\ planned' = 0
    /\ UNCHANGED <<entries, at, toApply>>

\* applyServerWrite, applyReplayWrite, and set from app code.
OtherWrite(field, value, origin) ==
    /\ Begins("input")
    /\ Open(<<[path |-> field, value |-> value, origin |-> origin]>>)
    /\ pushes' = 0 /\ planned' = 0
    /\ UNCHANGED <<entries, at, toApply>>

\* nav.go: the URL is pushed, then applied (a mismatch is corrected in place).
Navigate(url) ==
    /\ Begins("navigate")
    /\ entries' = IF url = Location THEN [entries EXCEPT ![at] = Corrected(url)]
                  ELSE Append(SubSeq(entries, 1, at), Corrected(url))
    /\ at' = IF url = Location THEN at ELSE at + 1
    /\ pushes' = IF url = Location THEN 0 ELSE 1
    /\ toApply' = Assignments(url)
    /\ planned' = Len(toApply')
    /\ UNCHANGED cascadeVars

\* Back or forward: the browser moves, then popstate applies the entry.
PopState(to) ==
    /\ to \in DOMAIN entries \ {at}
    /\ Begins("pop")
    /\ at' = to
    /\ entries' = [entries EXCEPT ![to] = Corrected(@)]
    /\ pushes' = 0
    /\ toApply' = Assignments(entries[to])
    /\ planned' = Len(toApply')
    /\ UNCHANGED cascadeVars

\* Mutant of ApplyNext: an absorbed assignment ends the loop.
ApplyUntilAbsorbed ==
    /\ ~running /\ toApply # <<>>
    /\ LET a == Head(toApply)
           write == <<[path |-> a.path, value |-> a.value, origin |-> "system"]>>
       IN  IF store[a.path] = a.value
           THEN UNCHANGED cascadeVars /\ toApply' = <<>>
           ELSE Open(write) /\ toApply' = Tail(toApply)
    /\ UNCHANGED <<entries, at, move, pushes, planned, moves>>

\* apply() sets its assignments one by one, each a cascade of its own: the
\* next one starts when the last has settled, or at once when it was absorbed.
ApplyNext ==
    /\ ~running /\ toApply # <<>>
    /\ LET a == Head(toApply)
           write == <<[path |-> a.path, value |-> a.value, origin |-> "system"]>>
       IN  IF store[a.path] = a.value THEN UNCHANGED cascadeVars ELSE Open(write)
    /\ toApply' = Tail(toApply)
    /\ UNCHANGED <<entries, at, move, pushes, planned, moves>>

\* A watcher fires; the outward one pushes the URL of the state it finds.
FireWatcher(w) ==
    /\ Fire(w)
    /\ LET url == PathFromState(store)
       IN  IF w = SyncUrl /\ url \notin {NoUrl, Location}
           THEN PushState(url)
           ELSE UNCHANGED <<entries, at, pushes>>
    /\ UNCHANGED <<toApply, move, planned, moves>>

\* The error leaves set, and with it the loop of apply.
AbortCascade(w) ==
    /\ Abort(w)
    /\ toApply' = <<>>
    /\ UNCHANGED <<entries, at, move, pushes, planned, moves>>

SettleCascade == Settle /\ UNCHANGED browserVars

Running == \/ \E w \in Watchers : FireWatcher(w) \/ AbortCascade(w)
           \/ SettleCascade
           \/ ApplyNext

Next ==
    \/ \E f \in WrittenFields, v \in Contents : Input(f, v)
    \/ \E press \in Presses : FieldSet(press)
    \/ \E f \in WrittenFields, v \in Contents, o \in {"server", "replay", "system"} :
           OtherWrite(f, v, o)
    \/ \E url \in Urls : Navigate(url)
    \/ \E to \in DOMAIN entries : PopState(to)
    \/ Running

\* JavaScript runs to completion: a cascade that has a step takes it.
Spec == Init /\ [][Next]_vars /\ WF_vars(Running)

-----------------------------------------------------------------------------
TypeOK ==
    /\ CascadeTypeOK
    /\ at \in DOMAIN entries
    /\ \A i \in DOMAIN toApply : toApply[i].path \in Fields
    /\ pushes \in Nat /\ planned \in Nat /\ moves \in 0..MaxMoves

\* All is well typed, and unless a cascade has aborted a page at rest shows in
\* every view the value its field holds: entries that coalesced several changes
\* lost none that mattered.
PageShowsStore ==
    /\ TypeOK
    /\ AtRest /\ ~torn => \A w \in Views : \A f \in FieldsOf[w] : dom[w] = store[f]

\* No app watcher would still change anything.
Agreed ==
    \A w \in Derivers :
        LET writes == Body(w, Change(CHOOSE f \in FieldsOf[w] : TRUE, 0, 0, "system"), store)
        IN  \A i \in DOMAIN writes : store[writes[i].path] = writes[i].value

\* What a settled cascade hands to the Wire is exactly the bound fields the
\* user or app code changed in it, each once and with the value it ended at:
\* a server write or a repaint is never echoed, though what a watcher derives
\* from it is sent.  An aborted cascade sends nothing.
OutboxIsLocalChanges ==
    ~running =>
        /\ aborted => outbox = <<>>
        /\ ~aborted =>
              /\ {outbox[i].path : i \in DOMAIN outbox} = local \intersect BoundFields
              /\ Cardinality(DOMAIN outbox) = Cardinality(local \intersect BoundFields)
              /\ \A i \in DOMAIN outbox : outbox[i].value = store[outbox[i].path]

\* Conditions on an application, for HistoryTells.  Its routes tell its states:
\* what a field holds can be read back off its text, no URL fits two routes, and
\* a route assigns a field once and every parameter once.
RoutesTell ==
    /\ \A v \in Values \ {Blank} : Coerce[Encode[v]] = v /\ Encode[v] # Encode[Blank]
    /\ \A url \in AppUrls : \A q, r \in DOMAIN Routes :
          Fits(Routes[q], url) /\ Fits(Routes[r], url) => q = r
    /\ \A r \in DOMAIN Routes :
          LET segs == Routes[r].segs
              sets == Routes[r].sets
              Given(name) == {i \in DOMAIN sets : sets[i].param /\ sets[i].value = name}
          IN  /\ \A i, j \in DOMAIN sets : sets[i].field = sets[j].field => i = j
              /\ \A k \in DOMAIN segs : segs[k].param => \E i \in DOMAIN sets : Given(segs[k].name) = {i}

\* And its watchers leave the fields that routes assign alone.
BodiesLeaveRoutes ==
    \A w \in Watchers : \A c \in Changes(w), s \in [Fields -> Values] :
        \A i \in DOMAIN Body(w, c, s) : Body(w, c, s)[i].path \notin Targets

\* The address bar and the history tell the selection.  At rest, unless a
\* cascade has aborted or no route tells the state, a reload keeps it:
\* applying the URL shown would change no field.  A keystroke, a press of
\* several pairs, or a write from the Wire pushes at most one entry; the back
\* button at most one per assignment made so far, a navigation one more.
HistoryTells ==
    /\ AtRest /\ ~torn /\ PathFromState(store) # NoUrl =>
          \A i \in DOMAIN Assignments(Location) :
              LET a == Assignments(Location)[i] IN store[a.path] = a.value
    /\ pushes <= (IF move \in {"boot", "pop"} THEN 0 ELSE 1) + planned - Len(toApply)

\* Every event's cascades come to an end: by settling, with every app watcher
\* content, or by the firing bound when they keep changing each other's fields.
CascadesEnd == (~AtRest) ~> (AtRest /\ (torn \/ Agreed))

\* What the fixtures' README says of navigation: it is exactly typing the URL
\* (one entry), and the back and forward buttons walk the entries (they add
\* none).  The code applies a route's assignments one by one, and the outward
\* watcher pushes the URL of every half-made selection that fits a route.
NavigationAddsOneEntry ==
    /\ move = "navigate" => pushes <= 1
    /\ move = "pop" => pushes = 0
=============================================================================
