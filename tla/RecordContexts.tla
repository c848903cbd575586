---------------------------- MODULE RecordContexts ----------------------------
(***************************************************************************)
(* One record context of a page: its selection, the loads that fill its     *)
(* fields when the selection changes or the feed reopens, the keystrokes    *)
(* sent from it and the broadcasts painted into it.  Answers to fetches and *)
(* POSTs travel on connections of their own, the broadcasts in order on the *)
(* event feed; nothing orders one connection against another.               *)
(*                                                                         *)
(* The context is a dynamic one under conflict="lww": row and text are what  *)
(* is at stake here, pins and the queue are the subject of SyncTabs.         *)
(* Every value written is a new number.                                     *)
(***************************************************************************)
EXTENDS Naturals, Sequences, FiniteSets

CONSTANTS Rows,
          NumFields,   \* the context's bound fields, fetched one after the other
          MaxWrites,   \* bound: keystrokes and writes by others
          MaxSelects,  \* bound: changes of the selection
          MaxFaults    \* bound: failed or refused fetches, feed losses

NoRow  == "none"       \* the empty selection
Fields == 1..NumFields

ASSUME ContextConstants ==
  /\ NoRow \notin Rows /\ NumFields \in Nat \ {0}
  /\ MaxWrites \in Nat /\ MaxSelects \in Nat /\ MaxFaults \in Nat

Undefined == MaxWrites + 1   \* what an empty or refused field shows

VARIABLES
  server,    \* [Rows -> [Fields -> value]]
  stamp,     \* values written so far
  selects, faults,
  selected,  \* the selection, a row or NoRow
  gen,       \* the context's generation
  loading,   \* is the context in the set "loading"?
  loads,     \* loadContext calls running: [gen, id, field, status, val, late]
  shown,     \* [Fields -> [row, val]]: the text, and the row it was loaded for
  edits,     \* POSTs on their way: [row, field, val]
  feed,      \* broadcasts on their way: [row, field, val, own]
  up,        \* is the feed connected?
  heals,     \* reopenings whose refetch has not started yet
  \* History, read by properties only:
  broken,    \* the latest load failed
  raced      \* fields in which one of the known races has happened

wire == <<server, edits, feed, up, heals>>
vars == <<server, stamp, selects, faults, selected, gen, loading, loads, shown,
          edits, feed, up, heals, broken, raced>>

Init ==
  /\ server = [r \in Rows |-> [f \in Fields |-> 0]]
  /\ stamp = 0 /\ selects = 0 /\ faults = 0
  /\ selected = NoRow /\ gen = 0 /\ loading = FALSE /\ loads = {}
  /\ shown = [f \in Fields |-> [row |-> NoRow, val |-> Undefined]]
  /\ edits = {} /\ feed = <<>> /\ up = TRUE /\ heals = 0
  /\ broken = FALSE /\ raced = {}

Fault == faults < MaxFaults /\ faults' = faults + 1

\* Own writes of a field that the server has not taken yet.
Unapplied(r, f) == {e \in edits : e.row = r /\ e.field = f}

\* Own writes of a field whose echo is still to come.
Unechoed(r, f, q) ==
  Unapplied(r, f) # {} \/ \E i \in DOMAIN q : q[i].row = r /\ q[i].field = f /\ q[i].own

-----------------------------------------------------------------------------
(* loadContext: a new generation; an empty selection clears the fields and  *)
(* leaves the loading set alone; otherwise the first fetch goes out.        *)

Asked(g, r, f) == [gen |-> g, id |-> r, field |-> f, status |-> "asked",
                   val |-> Undefined, late |-> FALSE]

Load(r) ==
  /\ gen' = gen + 1
  /\ IF r = NoRow
     THEN /\ shown' = [f \in Fields |-> [row |-> NoRow, val |-> Undefined]]
          /\ UNCHANGED <<loads, loading>>
     ELSE /\ loads' = loads \cup {Asked(gen', r, 1)}
          /\ loading' = TRUE
          /\ UNCHANGED shown
  /\ broken' = FALSE /\ raced' = {}

\* The watcher on the selection runs loadContext in the same cascade.
Select(r) ==
  /\ selects < MaxSelects /\ r # selected
  /\ selects' = selects + 1
  /\ selected' = r
  /\ Load(r)
  /\ UNCHANGED <<stamp, faults, wire>>

\* The server reads the field.  An own write it has not taken yet makes the
\* answer old already.
Serve(l) ==
  /\ l \in loads /\ l.status = "asked"
  /\ loads' = (loads \ {l}) \cup
                {[l EXCEPT !.status = "answered", !.val = server[l.id][l.field],
                           !.late = Unapplied(l.id, l.field) # {}]}
  /\ UNCHANGED <<stamp, selects, faults, selected, gen, loading, shown, wire, broken, raced>>

\* 4xx or 5xx with a body: the field reads undefined.
ServeRefused(l) ==
  /\ l \in loads /\ l.status = "asked" /\ Fault
  /\ loads' = (loads \ {l}) \cup {[l EXCEPT !.status = "answered", !.late = TRUE]}
  /\ UNCHANGED <<stamp, selects, selected, gen, loading, shown, wire, broken, raced>>

\* Mutant of Painted: the generation is not looked at.
PaintedStale(l) ==
  /\ shown' = [shown EXCEPT ![l.field] = [row |-> l.id, val |-> l.val]]
  /\ raced' = IF l.late THEN raced \cup {l.field} ELSE raced \ {l.field}
  /\ IF l.field < NumFields
     THEN loads' = (loads \ {l}) \cup {Asked(l.gen, l.id, l.field + 1)} /\ UNCHANGED loading
     ELSE loads' = loads \ {l} /\ loading' = FALSE

\* Only the current generation paints; after the last field sends resume.
Painted(l) ==
  IF l.gen # gen
  THEN loads' = loads \ {l} /\ UNCHANGED <<shown, raced, loading>>
  ELSE /\ shown' = [shown EXCEPT ![l.field] = [row |-> l.id, val |-> l.val]]
       /\ raced' = IF l.late THEN raced \cup {l.field} ELSE raced \ {l.field}
       /\ IF l.field < NumFields
          THEN loads' = (loads \ {l}) \cup {Asked(l.gen, l.id, l.field + 1)} /\ UNCHANGED loading
          ELSE loads' = loads \ {l} /\ loading' = FALSE

Arrives(l) ==
  /\ l \in loads /\ l.status = "answered"
  /\ Painted(l)
  /\ UNCHANGED <<stamp, selects, faults, selected, gen, wire, broken>>

\* Mutant of Fails: the loading flag is not cleared on the way out.
FailsLoading(l) ==
  /\ l \in loads /\ Fault
  /\ loads' = loads \ {l}
  /\ broken' = (broken \/ l.gen = gen)
  /\ raced' = IF l.gen = gen THEN raced \cup {f \in Fields : f >= l.field} ELSE raced
  /\ UNCHANGED <<stamp, selects, selected, gen, loading, shown, wire>>

\* The fetch rejects: nothing is painted, "finally" resumes sends.
Fails(l) ==
  /\ l \in loads /\ Fault
  /\ loads' = loads \ {l}
  /\ loading' = IF l.gen = gen THEN FALSE ELSE loading
  /\ broken' = (broken \/ l.gen = gen)
  /\ raced' = IF l.gen = gen THEN raced \cup {f \in Fields : f >= l.field} ELSE raced
  /\ UNCHANGED <<stamp, selects, selected, gen, shown, wire>>

-----------------------------------------------------------------------------
(* Keystrokes: the store has the text at once; what is sent, and for which  *)
(* row, is decided in the same cascade.                                     *)

Typed(f) ==
  /\ stamp < MaxWrites
  /\ stamp' = stamp + 1
  /\ shown' = [shown EXCEPT ![f].val = stamp']

\* Mutant of Key: sends are not suspended while the row loads.
KeyUnsuspended(f) ==
  /\ Typed(f)
  /\ IF selected = NoRow
     THEN UNCHANGED <<edits, raced>>
     ELSE /\ edits' = edits \cup {[row |-> selected, field |-> f, val |-> stamp']}
          /\ raced' = IF Unapplied(selected, f) # {} THEN raced \cup {f} ELSE raced
  /\ UNCHANGED <<server, selects, faults, selected, gen, loading, loads, feed, up, heals, broken>>

Key(f) ==
  /\ Typed(f)
  /\ CASE selected = NoRow -> UNCHANGED <<edits, raced>>
       [] selected # NoRow /\ loading -> raced' = raced \cup {f} /\ UNCHANGED edits
       [] OTHER ->
            /\ edits' = edits \cup {[row |-> selected, field |-> f, val |-> stamp']}
            /\ raced' = IF Unapplied(selected, f) # {} THEN raced \cup {f} ELSE raced
  /\ UNCHANGED <<server, selects, faults, selected, gen, loading, loads, feed, up, heals, broken>>

-----------------------------------------------------------------------------
(* The server and the feed.                                                *)

Write(r, f, v, own) ==
  /\ server' = [server EXCEPT ![r][f] = v]
  /\ feed' = IF up THEN Append(feed, [row |-> r, field |-> f, val |-> v, own |-> own]) ELSE feed

EditApplied(e) ==
  /\ e \in edits
  /\ edits' = edits \ {e}
  /\ Write(e.row, e.field, e.val, TRUE)
  /\ UNCHANGED <<stamp, selects, faults, selected, gen, loading, loads, shown, up, heals,
                 broken, raced>>

ForeignWrite(r, f) ==
  /\ stamp < MaxWrites
  /\ stamp' = stamp + 1
  /\ Write(r, f, stamp', FALSE)
  /\ UNCHANGED <<selects, faults, selected, gen, loading, loads, shown, edits, up, heals,
                 broken, raced>>

\* An echo is ignored, a broadcast for another row is unbound, the rest is
\* painted.  It overtakes an answer that is on its way for the same field.
Deliver ==
  /\ feed # <<>>
  /\ LET m == Head(feed)
     IN  /\ feed' = Tail(feed)
         /\ loads' = {IF l.id = m.row /\ l.field = m.field /\ l.status = "answered"
                      THEN [l EXCEPT !.late = TRUE] ELSE l : l \in loads}
         /\ IF m.row = selected /\ ~m.own
            THEN /\ shown' = [shown EXCEPT ![m.field] = [row |-> m.row, val |-> m.val]]
                 /\ raced' = IF Unechoed(m.row, m.field, feed')
                             THEN raced \cup {m.field} ELSE raced \ {m.field}
            ELSE UNCHANGED <<shown, raced>>
  /\ UNCHANGED <<server, stamp, selects, faults, selected, gen, loading, edits, up, heals, broken>>

\* There is no replay: what a dead feed misses is gone.
FeedDrops ==
  /\ up /\ Fault
  /\ up' = FALSE /\ feed' = <<>>
  /\ UNCHANGED <<server, stamp, selects, selected, gen, loading, loads, shown, edits, heals,
                 broken, raced>>

\* Mutant of FeedOpens: the reopened feed heals nothing.
FeedOpensOnly ==
  /\ ~up
  /\ up' = TRUE
  /\ UNCHANGED <<server, stamp, selects, faults, selected, gen, loading, loads, shown, edits,
                 feed, heals, broken, raced>>

FeedOpens ==
  /\ ~up
  /\ up' = TRUE /\ heals' = heals + 1
  /\ UNCHANGED <<server, stamp, selects, faults, selected, gen, loading, loads, shown, edits,
                 feed, broken, raced>>

\* The resync it awaited first is over: every context is loaded again.
Refetch ==
  /\ heals > 0
  /\ heals' = heals - 1
  /\ Load(selected)
  /\ UNCHANGED <<server, stamp, selects, faults, selected, edits, feed, up>>

Next ==
  \/ \E r \in Rows \cup {NoRow} : Select(r)
  \/ \E l \in loads : Serve(l) \/ ServeRefused(l) \/ Arrives(l) \/ Fails(l)
  \/ \E f \in Fields : Key(f)
  \/ \E e \in edits : EditApplied(e)
  \/ \E r \in Rows, f \in Fields : ForeignWrite(r, f)
  \/ Deliver \/ FeedDrops \/ FeedOpens \/ Refetch

\* A fetch ends: the server answers or the browser gives up.
Fairness == WF_vars(\E l \in loads : Serve(l) \/ Arrives(l))

Spec == Init /\ [][Next]_vars /\ Fairness

-----------------------------------------------------------------------------
(* Properties.                                                             *)

Values == 0..Undefined

\* Types of all variables.
TypeOK ==
  /\ server \in [Rows -> [Fields -> Values]]
  /\ stamp \in 0..MaxWrites /\ selects \in 0..MaxSelects /\ faults \in 0..MaxFaults
  /\ selected \in Rows \cup {NoRow} /\ gen \in Nat /\ heals \in Nat
  /\ {loading, up, broken} \subseteq BOOLEAN /\ raced \subseteq Fields
  /\ loads \subseteq [gen : 1..gen, id : Rows, field : Fields, status : {"asked", "answered"},
                      val : Values, late : BOOLEAN]
  /\ shown \in [Fields -> [row : Rows \cup {NoRow}, val : Values]]
  /\ edits \subseteq [row : Rows, field : Fields, val : Values]
  /\ feed \in Seq([row : Rows, field : Fields, val : Values, own : BOOLEAN])

\* What is sent for a row was typed on that row's text, however selections,
\* loads of earlier selections and broadcasts interleave - unless the load of
\* the selected row failed: NeverMisfiled is what the documentation is after.
MisfiledOnlyIfBroken ==
  [][\A e \in edits' \ edits : shown[e.field].row = e.row \/ broken]_vars

\* docs/apskel-design.md:1907-1911: fetched values are painted through the
\* server-origin door so that it cannot happen that "the DOM keeps the old row's
\* text and the next keystroke autosaves it into the new row".
NeverMisfiled ==
  [][\A e \in edits' \ edits : shown[e.field].row \in {NoRow, e.row}]_vars

Settled == loads = {} /\ edits = {} /\ feed = <<>> /\ up /\ heals = 0 /\ selected # NoRow

\* All is well typed, and when all is delivered the page shows what the server holds, feed losses
\* included, except in a field where a known race happened: an answer
\* overtaken by a broadcast or older than an own write, a failed or refused
\* fetch, a keystroke while loading, two own writes in flight, a broadcast
\* painted over an own write still to be echoed.
FreshUnlessRaced ==
  /\ TypeOK
  /\ Settled => \A f \in Fields : shown[f].val = server[selected][f] \/ f \in raced

\* Sends are suspended for a while only (wireClient.js:249-277): whatever a
\* selection supersedes, the context of a selected row stops loading.
SendsResume == loading ~> (~loading \/ selected = NoRow)

=============================================================================
