----------------------------- MODULE Collections ----------------------------
(***************************************************************************)
(* A collection on a page (attachCollectionSync of wireClient.js, with the *)
(* instances of binder.js makeCollectionController): rows fetched by a     *)
(* select, and between fetches the membership maintained from broadcasts.  *)
(* A table source judges each broadcast by itself; a query source fetches  *)
(* again.  The select and its answer travel on one connection, the         *)
(* broadcasts on another, in order; a new fetch supersedes the older by    *)
(* its generation.                                                         *)
(*                                                                         *)
(* A row has a group, the column the filter compares (or the query's       *)
(* parameter does), and an ord, the column order= names.                   *)
(***************************************************************************)
EXTENDS Integers, Sequences, FiniteSets, SequencesExt

CONSTANTS
    Colls,      \* collections: [query, literals, ref, order, bound, sends, limit]
    Ids, Groups, Ords,
    Start,      \* the table's rows at first, a function on a subset of Ids
    Empty,      \* the selection that is no row, ""
    Selections, \* what is selected: groups, or Empty
    Unknown,    \* a column that did not come with the row
    MaxWrites, MaxSelects, MaxFaults   \* bounds on writes, selections, faults

ASSUME CollectionsAssumption ==
    /\ Ids \subseteq Nat /\ Ords \subseteq Int
    /\ Empty \notin Groups /\ Selections \subseteq Groups \union {Empty} /\ Unknown \notin Ords
    /\ {MaxWrites, MaxSelects, MaxFaults} \subseteq Nat

VARIABLES
    coll,       \* the collection: query or table source; the literals of its
                \* filter, and whether the selection is compared too; order 1,
                \* -1 or 0; does its template bind ord; do inserts carry ord;
                \* limit (0: none)
    sel,        \* the selection its filter or parameter refers to
    db, born,   \* the server's rows; the ids ever used
    feed,       \* "up", "down", or "opened": reopened and not yet healed
    events,     \* broadcasts sent and not yet handled
    page,       \* rows: the Map, in its order; dom: the instances, in theirs;
                \* shown: the values in the store at their paths
    gen,        \* the generation of the newest fetch
    fetches,    \* the fetches under way: [gen, sel, rows, at]
    sent,       \* history: broadcasts so far
    fault,      \* history: what the page's content lacks, since its last fetch
    since,      \* history: rows that joined since then; was ord edited?
    spent       \* how much of each bound is used

vars == <<coll, sel, db, born, feed, events, page, gen, fetches, sent, fault, since, spent>>


-----------------------------------------------------------------------------
(* The filter: literals and the selection, compared as strings; a query's   *)
(* SQL compares its parameter.                                              *)
Filtered == coll.literals # {} \/ coll.ref
Matches(group, s) == ~Filtered \/ group \in coll.literals \/ (coll.ref /\ group = s)

\* No row can match: the selection is empty and nothing else is compared.
EmptyContext(s) == coll.ref /\ coll.literals = {} /\ s = Empty

\* A row before another under order=, as JavaScript compares what the Map
\* holds: a column that did not come compares as "not less".
Outranks(v, w) ==
    /\ v # w
    /\ IF v # Unknown /\ w # Unknown /\ v < w THEN coll.order = 1 ELSE coll.order = -1

\* The server's select: filter, order and limit; ties, and rows without an
\* order, come by id.
Selected(s) ==
    LET ids == {i \in DOMAIN db : Matches(db[i].grp, s)}
        Before(i, j) == IF coll.order # 0 /\ db[i].ord # db[j].ord
                        THEN Outranks(db[i].ord, db[j].ord) ELSE i < j
        all == SetToSortSeq(ids, Before)
    IN  IF coll.limit = 0 THEN all ELSE SubSeq(all, 1, IF Len(all) < coll.limit THEN Len(all) ELSE coll.limit)

\* A row as the select returns it: the columns the template binds.
Fetched(i) == [id |-> i, grp |-> db[i].grp, ord |-> IF coll.bound THEN db[i].ord ELSE Unknown]

-----------------------------------------------------------------------------
(* The page: Map and instances.                                             *)
IdsOf(rows) == {rows[k].id : k \in DOMAIN rows}
Blank == [rows |-> <<>>, dom |-> <<>>, shown |-> <<>>]

Filled(rows) ==
    [rows |-> rows, dom |-> [k \in DOMAIN rows |-> rows[k].id],
     shown |-> [i \in IdsOf(rows) |-> rows[CHOOSE k \in DOMAIN rows : rows[k].id = i]]]

\* Map.set keeps the place of a key it has; a new instance goes before the
\* one named, or last; an instance that exists stays as it is.
MapSet(rows, r) ==
    IF r.id \in IdsOf(rows) THEN [k \in DOMAIN rows |-> IF rows[k].id = r.id THEN r ELSE rows[k]]
    ELSE Append(rows, r)
InsertBefore(ids, id, before) ==
    IF before \notin ToSet(ids) THEN Append(ids, id)
    ELSE InsertAt(ids, CHOOSE k \in DOMAIN ids : ids[k] = before, id)

\* Mutant of Added: the instance is made again.
AddedAgain(r, before) ==
    [rows |-> MapSet(page.rows, r), dom |-> InsertBefore(page.dom, r.id, before),
     shown |-> (r.id :> r) @@ page.shown]

Added(r, before) ==
    IF r.id \in DOMAIN page.shown THEN [page EXCEPT !.rows = MapSet(@, r)]
    ELSE [rows |-> MapSet(page.rows, r), dom |-> InsertBefore(page.dom, r.id, before),
          shown |-> (r.id :> r) @@ page.shown]

Removed(id) ==
    [rows |-> SelectSeq(page.rows, LAMBDA r : r.id # id),
     dom |-> SelectSeq(page.dom, LAMBDA i : i # id),
     shown |-> [i \in DOMAIN page.shown \ {id} |-> page.shown[i]]]

Edited(id, col, value) ==
    [page EXCEPT !.rows = [k \in DOMAIN @ |-> IF @[k].id = id THEN [@[k] EXCEPT ![col] = value] ELSE @[k]],
                 !.shown[id][col] = value]

\* positionFor(): the first row of the Map the new one outranks; 0 for none.
PositionFor(r) ==
    LET over == {k \in DOMAIN page.rows : Outranks(r.ord, page.rows[k].ord)}
    IN  IF coll.order = 0 \/ over = {} THEN 0
        ELSE page.rows[CHOOSE k \in over : \A l \in over : k <= l].id

-----------------------------------------------------------------------------
(* Fetching.                                                                *)
NoneSince == [joined |-> 0, edited |-> FALSE]
Rest(p, what) == page' = p /\ fault' = what /\ since' = NoneSince
Keep == UNCHANGED <<page, fault, since>>

\* refetch(), up to the call: an empty context clears without one.
Refetch(s) ==
    /\ gen' = gen + 1
    /\ IF EmptyContext(s)
       THEN Rest(Blank, "none") /\ UNCHANGED fetches
       ELSE fetches' = fetches \union {[gen |-> gen', sel |-> s, rows |-> Unknown, at |-> 0]} /\ Keep

\* The server runs the select.
Answer(f) ==
    /\ f.rows = Unknown
    /\ LET list == Selected(f.sel)
       IN  fetches' = (fetches \ {f}) \union
                {[f EXCEPT !.rows = [k \in DOMAIN list |-> Fetched(list[k])], !.at = sent]}
    /\ UNCHANGED <<coll, sel, db, born, feed, events, gen, page, sent, fault, since, spent>>

\* What the page has handled or missed of the broadcasts.
Handled == sent - Len(events)

\* The answer arrives: dropped when superseded.
Deliver(f) ==
    /\ f.rows # Unknown
    /\ fetches' = fetches \ {f}
    /\ IF f.gen = gen
       THEN Rest(Filled(f.rows), IF Handled <= f.at THEN "none" ELSE IF fault = "failed" THEN fault ELSE "raced")
       ELSE Keep
    /\ UNCHANGED <<coll, sel, db, born, feed, events, gen, sent, spent>>

\* The fetch rejects: what was on the page stays there.  Or it is refused,
\* and the page is cleared.
FetchFails(f) ==
    /\ spent.faults < MaxFaults
    /\ spent' = [spent EXCEPT !.faults = @ + 1]
    /\ fetches' = fetches \ {f}
    /\ IF f.gen # gen THEN Keep
       ELSE Rest(Blank, "failed") \/ (fault' = "failed" /\ UNCHANGED <<page, since>>)
    /\ UNCHANGED <<coll, sel, db, born, feed, events, gen, sent>>

-----------------------------------------------------------------------------
(* Broadcasts, one at a time.                                               *)
Joins(p) == page' = p /\ since' = [since EXCEPT !.joined = @ + 1] /\ UNCHANGED <<gen, fetches, fault>>
Shows(p) == page' = p /\ UNCHANGED <<gen, fetches, fault, since>>

Inserted(e) ==
    LET r == [id |-> e.id, grp |-> e.grp, ord |-> e.ord]
    IN  IF ~Matches(e.grp, sel) THEN Shows(page)
        ELSE IF coll.order # 0 /\ ~coll.sends THEN Refetch(sel)
        ELSE Joins(Added(r, PositionFor(r)))

Deleted(e) ==
    IF e.id \in IdsOf(page.rows) THEN Shows(Removed(e.id)) ELSE Shows(page)

\* A member changes, or leaves; a row that now matches is fetched with all.
Changed(e) ==
    IF e.id \in IdsOf(page.rows)
    THEN IF Filtered /\ e.col = "grp" /\ ~Matches(e.value, sel)
         THEN Shows(Removed(e.id))
         ELSE /\ page' = Edited(e.id, e.col, e.value) /\ UNCHANGED <<gen, fetches, fault>>
              /\ since' = [since EXCEPT !.edited = @ \/ e.col = "ord"]
    ELSE IF Filtered /\ e.col = "grp" /\ Matches(e.value, sel)
    THEN Refetch(sel) ELSE Shows(page)

HandleEvent ==
    /\ events # <<>>
    /\ events' = Tail(events)
    /\ LET e == Head(events)
       IN  CASE coll.query -> Refetch(sel)
             [] ~coll.query /\ e.type = "insert" -> Inserted(e)
             [] ~coll.query /\ e.type = "delete" -> Deleted(e)
             [] ~coll.query /\ e.type = "change" -> Changed(e)
    /\ UNCHANGED <<coll, sel, db, born, feed, sent, spent>>

-----------------------------------------------------------------------------
\* The selection moves: the watcher on the filter's references, or the
\* query's arguments, fetches.
Select(s) ==
    /\ spent.selects < MaxSelects
    /\ s # sel
    /\ sel' = s
    /\ spent' = [spent EXCEPT !.selects = @ + 1]
    /\ IF coll.ref THEN Refetch(s) ELSE UNCHANGED <<gen, fetches>> /\ Keep
    /\ UNCHANGED <<coll, db, born, feed, events, sent>>

\* A write at the server, and its broadcast to whoever listens.
Write(rows, e) ==
    /\ spent.writes < MaxWrites
    /\ spent' = [spent EXCEPT !.writes = @ + 1]
    /\ db' = rows
    /\ born' = born \union {e.id}
    /\ sent' = sent + 1
    /\ events' = IF feed = "down" THEN events ELSE Append(events, e)
    /\ UNCHANGED <<coll, sel, feed, gen, page, fetches, fault, since>>

InsertRow(i, g, o) ==
    /\ i \notin born
    /\ Write((i :> [grp |-> g, ord |-> o]) @@ db,
             [type |-> "insert", id |-> i, grp |-> g, ord |-> IF coll.sends THEN o ELSE Unknown])
DeleteRow(i) ==
    /\ i \in DOMAIN db
    /\ Write([j \in DOMAIN db \ {i} |-> db[j]], [type |-> "delete", id |-> i])
ChangeRow(i, col, v) ==
    /\ i \in DOMAIN db /\ db[i][col] # v
    /\ Write([db EXCEPT ![i][col] = v], [type |-> "change", id |-> i, col |-> col, value |-> v])

\* The feed drops, with what was on its way; it reopens; and the reopening
\* pulls everything again, unless something before it in the heal rejects.
FeedDrops ==
    /\ feed # "down" /\ spent.faults < MaxFaults
    /\ feed' = "down" /\ events' = <<>>
    /\ spent' = [spent EXCEPT !.faults = @ + 1]
    /\ UNCHANGED <<coll, sel, db, born, gen, page, fetches, sent, fault, since>>
FeedOpens ==
    /\ feed = "down"
    /\ feed' = "opened"
    /\ UNCHANGED <<coll, sel, db, born, events, gen, page, fetches, sent, fault, since, spent>>
\* Mutant of Heal: the collections are not among what is pulled again.
HealContexts ==
    /\ feed = "opened"
    /\ feed' = "up"
    /\ UNCHANGED <<coll, sel, db, born, events, gen, page, fetches, sent, fault, since, spent>>
Heal ==
    /\ feed = "opened"
    /\ feed' = "up"
    /\ Refetch(sel)
    /\ UNCHANGED <<coll, sel, db, born, events, sent, spent>>
HealFails ==
    /\ feed = "opened"
    /\ feed' = "up"
    /\ fault' = "failed"
    /\ UNCHANGED <<coll, sel, db, born, events, gen, page, fetches, sent, since, spent>>

Init ==
    /\ coll \in Colls
    /\ sel \in Selections
    /\ db = Start /\ born = DOMAIN Start
    /\ feed = "up" /\ events = <<>> /\ sent = 0
    /\ page = Blank
    /\ gen = 1
    /\ fetches = IF EmptyContext(sel) THEN {}
                 ELSE {[gen |-> 1, sel |-> sel, rows |-> Unknown, at |-> 0]}
    /\ fault = "none" /\ since = NoneSince
    /\ spent = [writes |-> 0, selects |-> 0, faults |-> 0]

Next ==
    \/ \E f \in fetches : Answer(f) \/ Deliver(f) \/ FetchFails(f)
    \/ HandleEvent
    \/ \E s \in Selections : Select(s)
    \/ \E i \in Ids : \/ \E g \in Groups, o \in Ords : InsertRow(i, g, o)
                      \/ DeleteRow(i)
                      \/ \E g \in Groups : ChangeRow(i, "grp", g)
                      \/ \E o \in Ords : ChangeRow(i, "ord", o)
    \/ FeedDrops \/ FeedOpens \/ Heal \/ HealFails

Spec == Init /\ [][Next]_vars

-----------------------------------------------------------------------------
TypeOK ==
    /\ DOMAIN db \subseteq born /\ born \subseteq Ids
    /\ feed \in {"up", "down", "opened"}
    /\ fault \in {"none", "raced", "failed"}
    /\ \A f \in fetches : f.gen \in 1..gen /\ f.at <= sent
    /\ \A f, g \in fetches : f.gen = g.gen => f = g
    /\ feed = "down" => events = <<>>
    /\ Len(events) <= sent

InOrder(p) ==
    \A k, l \in DOMAIN p.dom : k < l =>
        ~Outranks(p.shown[p.dom[l]].ord, p.shown[p.dom[k]].ord)

\* All is well typed; the Map and the instances hold the same rows, each
\* once; and they stand in the order of the ordered column while at most one
\* row joined since the fetch, and none was edited in that column.
RowsAreInstances ==
    /\ TypeOK
    /\ IdsOf(page.rows) = ToSet(page.dom) /\ DOMAIN page.shown = ToSet(page.dom)
    /\ IsInjective(page.dom) /\ Len(page.rows) = Len(page.dom)
    /\ coll.order # 0 /\ coll.bound /\ since.joined <= 1 /\ ~since.edited => InOrder(page)

Settled == events = <<>> /\ fetches = {} /\ feed = "up"
ShownRight(i) ==
    page.shown[i].grp = db[i].grp /\ page.shown[i].ord \in {Unknown, db[i].ord}

\* A page at rest shows of a table the rows its filter selects, with their
\* values, unless its last fetch was overtaken by a broadcast or failed.
\* With a limit: of those rows, and once rows have come and gone not the first
\* ones any more.  Of a query it shows exactly what that selects, in its
\* order, unless its last fetch failed: no broadcast overtakes its answer unseen.
MembersFollow ==
    Settled =>
        /\ ~coll.query /\ fault = "none" =>
            /\ ToSet(page.dom) \subseteq DOMAIN db
            /\ \A i \in ToSet(page.dom) : ShownRight(i)
            /\ LET all == {i \in DOMAIN db : Matches(db[i].grp, sel)}
               IN  IF coll.limit = 0 THEN ToSet(page.dom) = all
                   ELSE ToSet(page.dom) \subseteq all
        /\ coll.query /\ fault # "failed" =>
            page.dom = Selected(sel) /\ \A i \in ToSet(page.dom) : ShownRight(i)

\* What the comment in positionFor promises of every insert: it stands
\* before the first row it outranks.
OrderAlwaysKept ==
    coll.order # 0 /\ coll.bound /\ ~since.edited => InOrder(page)
=============================================================================
