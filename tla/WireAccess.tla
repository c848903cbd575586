------------------------------ MODULE WireAccess -----------------------------
(***************************************************************************)
(* The Wire's doors (src/server/wireServer.js): who may read and write a   *)
(* row, by the rule of its table and the walk to its owner, and who is     *)
(* told of a write that was accepted.  Each handler is a chain of awaits   *)
(* on one database connection, which answers queries in the order they     *)
(* were issued: the queue holds the requests waiting for an answer, and    *)
(* when the head's arrives its handler goes on to its next query, behind   *)
(* whatever other requests have issued meanwhile.  So a row may change     *)
(* hands, or go, between a guard's walk and the write it lets through.     *)
(*                                                                         *)
(* Receipts and revisions are modelled elsewhere (InsertReceipts,          *)
(* SyncTabs); the database refuses a row whose foreign key points nowhere  *)
(* and the deletion of a row that is referenced, and gives out no id twice. *)
(***************************************************************************)
EXTENDS DataGraph

CONSTANTS
    Apps,           \* applications a server is started for, by name
    Served,         \* the names of those whose requests are explored
    Users, Nobody,  \* identities; Nobody: no token, no owner, NULL
    Requests,       \* requests that may arrive: records, see below
    Start,          \* the rows at start, a function from <<table, id>>
    MaxRequests     \* bound on the requests of a run

\* The tables a server knows: of the graph, of the schema, and the identities'.
Tables(a) == {"users"} \union {f.child : f \in a.fks} \union
                {a.nodes[i].tag : i \in DOMAIN a.nodes}

\* Where a foreign key of a row may lead.
Leads(rows, f, value) ==
    value = Nobody \/ f.parent = "users" \/ <<f.parent, value>> \in DOMAIN rows

\* Nodes come in document order and keep to the menus of rules (the loader
\* refuses others); the rows at start fit every application's schema.
ASSUME AccessAssumption ==
    /\ Served \subseteq DOMAIN Apps /\ Nobody \notin Users /\ MaxRequests \in Nat
    /\ \A n \in DOMAIN Apps :
          LET nodes == Apps[n].nodes
          IN  /\ Len(nodes) \in Nat /\ DOMAIN nodes = 1..Len(nodes)
              /\ \A i \in DOMAIN nodes :
                    /\ nodes[i].parent \in 0..(i - 1)
                    /\ nodes[i].read \in {"public", "users", "owner", Absent}
                    /\ nodes[i].write \in {"users", "owner", "none", Absent}
              /\ IsFiniteSet({f.col : f \in Apps[n].fks})
              /\ \A f \in Apps[n].fks : f.col # Absent
              /\ \A key \in DOMAIN Start :
                    /\ key[1] \in Tables(Apps[n])
                    /\ \A f \in Apps[n].fks : f.child = key[1] =>
                          /\ f.col \in DOMAIN Start[key].fk
                          /\ Leads(Start, f, Start[key].fk[f.col])
    /\ Start = [key \in DOMAIN Start |-> Start[key]]
    /\ \A key \in DOMAIN Start : /\ key = <<key[1], key[2]>> /\ key[2] # Nobody
                                 /\ DOMAIN Start[key] = {"fk", "val", "members"}
    /\ \A r \in Requests : r.user \in Users \union {Nobody} /\ r.id # Nobody

VARIABLES
    app,        \* the application's name, fixed at start-up
    up,         \* did it load and start?
    resolved,   \* what start-up worked out for each of its tables
    db,         \* the rows: <<table, id>> to [fk, val, members]
    born,       \* the rows there ever were
    queue,      \* requests with a query under way, in the order issued
    cast,       \* the last broadcast: what, and to which feeds
    done,       \* the last answered request and what became of it
    mirror,     \* history: the rows as somebody told everything holds them
    asked       \* how many requests arrived

vars == <<app, up, resolved, db, born, queue, cast, done, mirror, asked>>

\* The feeds connected: one of every user and one without a token.
Feeds == Users \union {Nobody}

\* What start-up resolved, by application and table: the rules, the owner
\* walk, the stamp; and for the reference below, the tables of the line of
\* ancestors of the rules' node, with the columns that lead up it.
Line(a, table) ==
    LET nodes == {i \in Ruled(a.nodes) : a.nodes[i].tag = table}
        i == CHOOSE j \in nodes : TRUE
        line == IF nodes = {} THEN <<>> ELSE <<i>> \o Ancestors(a.nodes, i)
    IN  [k \in DOMAIN line |->
            [table |-> a.nodes[line[k]].tag,
             cols |-> IF k = Len(line) THEN {}
                      ELSE {f.col : f \in {g \in a.fks :
                              /\ g.child = a.nodes[line[k]].tag
                              /\ g.parent = a.nodes[line[k + 1]].tag
                              /\ a.nodes[line[k]].via \in {Absent, g.col}}}]]

Resolve(a) ==
    [t \in Tables(a) |->
        [read |-> RulesFor(a, t).read, write |-> RulesFor(a, t).write,
         walk |-> IF t \in OwnerRuled(a) THEN Walk(a, t) ELSE <<>>,
         stamp |-> IF t \in InsertTables(a) THEN Stamp(a, t) ELSE Absent,
         inserts |-> IF t \in InsertTables(a) THEN a.inserts[t] ELSE {},
         deletes |-> t \in a.deletes,
         keys |-> {f \in a.fks : f.child = t},
         line |-> Line(a, t)]]

Rules(table) == resolved[table]
Keys(table) == Rules(table).keys

-----------------------------------------------------------------------------
\* ownerOf(): the joined rows from the table up to the last hop's column.
\* Nobody when a row is missing, a column is NULL, or there is no walk.
Up(rows, key, column) == IF key \in DOMAIN rows THEN rows[key].fk[column] ELSE Nobody

Climbed(rows, walk, id) ==
    LET at[k \in 0..Len(walk)] ==
            IF k = 0 THEN id ELSE Up(rows, <<walk[k].child, at[k - 1]>>, walk[k].column)
    IN  at[Len(walk)]

OwnerOf(rows, table, id) ==
    LET walk == Rules(table).walk
    IN  IF table = "users" THEN id
        ELSE IF walk = <<>> THEN Nobody
        ELSE Climbed(rows, walk, id)

\* The reference: a row belongs to the users its foreign keys lead to along
\* the edges of the graph above its table, the nearest users table ending it.
Above(rows, ids, edge) ==
    {rows[<<edge.table, x>>].fk[c] :
        x \in {y \in ids : <<edge.table, y>> \in DOMAIN rows}, c \in edge.cols}

LedTo(rows, line, id) ==
    LET tops == {k \in 2..Len(line) : line[k].table = "users"}
        top == CHOOSE t \in tops : \A s \in tops : t <= s
        at[k \in 0..(top - 1)] == IF k = 0 THEN {id} ELSE Above(rows, at[k - 1], line[k])
    IN  IF tops = {} THEN {} ELSE at[top - 1]

Owners(rows, table, id) ==
    IF table = "users" THEN {id} ELSE LedTo(rows, Rules(table).line, id) \ {Nobody}

May(rows, mode, user, table, id) ==
    LET rule == IF mode = "read" THEN Rules(table).read ELSE Rules(table).write
    IN  \/ rule = "public"
        \/ rule = "users" /\ user # Nobody
        \/ rule = "owner" /\ user # Nobody /\ Owners(rows, table, id) = {user}

-----------------------------------------------------------------------------
(***************************************************************************)
(* A request: [type, table, id, col, value, user], with at = the query it  *)
(* waits for, owner = what the guard walked to, moved = history: the row   *)
(* its guard looks at changed hands or went while the request was here.    *)
(* An insert's id is the new row's, its col and value the row it names     *)
(* first on the walk; its guard looks at that parent row.                  *)
(***************************************************************************)
Mode(r) == IF r.type \in {"get", "getMembers", "select", "options"}
           THEN "read" ELSE "write"
RuleOf(r) == IF Mode(r) = "read" THEN Rules(r.table).read ELSE Rules(r.table).write
Lists(r) == r.type \in {"select", "options"}

\* What the guard walks: the row, or the first hop's row of one to be born.
Watched(r) ==
    IF r.type # "insert" THEN <<r.table, r.id>>
    ELSE LET walk == Rules(r.table).walk
         IN  IF walk # <<>> /\ walk[1].column = r.col
             THEN <<walk[1].parent, r.value>> ELSE <<r.table, Nobody>>

Stamped(r) == r.type = "insert" /\ Rules(r.table).stamp # Absent

\* The guards, up to the first await: what they refuse without a query.
Refused(r) ==
    \/ r.table \notin DOMAIN resolved
    \/ RuleOf(r) = "none"
    \/ (RuleOf(r) # "public" \/ r.type = "insert") /\ r.user = Nobody
    \/ Lists(r) /\ RuleOf(r) = "owner"
    \/ r.table = "users" /\ RuleOf(r) = "owner" /\ r.id # r.user
    \/ r.type = "insert" /\ Rules(r.table).inserts = {}
    \/ r.type = "delete" /\ ~Rules(r.table).deletes
    \/ /\ r.type = "insert" /\ ~Stamped(r) /\ RuleOf(r) = "owner"
       /\ Watched(r)[2] = Nobody

\* A users row is its own owner: no query is made.
Walks(r) == RuleOf(r) = "owner" /\ ~Stamped(r) /\ r.table # "users"

First(r) == IF Walks(r) THEN "walk" ELSE IF Mode(r) = "read" THEN "read" ELSE "apply"

Answer(r, outcome) ==
    [n |-> asked, type |-> r.type, table |-> r.table, id |-> r.id, user |-> r.user,
     moved |-> r.moved, outcome |-> outcome]

Init ==
    /\ app \in DOMAIN Apps
    /\ up = ComesUp(Apps[app])
    /\ resolved = IF up THEN Resolve(Apps[app]) ELSE <<>>
    /\ db = Start /\ born = DOMAIN Start
    /\ queue = <<>>
    /\ cast = <<>>
    /\ done = <<>>
    /\ mirror = Start
    /\ asked = 0

Arrive(r) ==
    /\ up /\ app \in Served
    /\ asked < MaxRequests
    /\ asked' = asked + 1
    /\ LET req == [type |-> r.type, table |-> r.table, id |-> r.id, col |-> r.col,
                   value |-> r.value, user |-> r.user, row |-> Absent, at |-> First(r),
                   owner |-> Nobody, moved |-> FALSE]
       IN  IF Refused(r)
           THEN done' = Answer(req, "refused") /\ UNCHANGED queue
           ELSE queue' = Append(queue, req) /\ UNCHANGED done
    /\ UNCHANGED <<app, up, resolved, db, born, cast, mirror>>

\* The head's query was answered: its handler issues the next one.
Head1(step) == queue # <<>> /\ Head(queue).at = step
Proceed(r) == queue' = Append(Tail(queue), r)

\* Mutant of WalkGuard: any row with an owner is let through.
WalkGuardAnyone ==
    /\ Head1("walk")
    /\ LET r == Head(queue)
           w == Watched(r)
       IN  /\ OwnerOf(db, w[1], w[2]) # Nobody
           /\ Proceed([r EXCEPT !.owner = r.user,
                                !.at = IF Mode(r) = "read" THEN "read" ELSE "apply"])
    /\ UNCHANGED <<app, up, resolved, db, born, cast, done, mirror, asked>>

\* guardData, guardMembers and their likes: the owner walk.
WalkGuard ==
    /\ Head1("walk")
    /\ LET r == Head(queue)
           w == Watched(r)
           owner == OwnerOf(db, w[1], w[2])
       IN  IF owner = r.user
           THEN /\ Proceed([r EXCEPT !.owner = owner,
                              !.at = IF Mode(r) = "read" THEN "read" ELSE "apply"])
                /\ UNCHANGED done
           ELSE IF r.type = "delete"
           THEN Proceed([r EXCEPT !.at = "exists"]) /\ UNCHANGED done
           ELSE queue' = Tail(queue) /\ done' = Answer(r, "denied")
    /\ UNCHANGED <<app, up, resolved, db, born, cast, mirror, asked>>

\* A delete that was not the owner's: a missing row answers success.
CheckExists ==
    /\ Head1("exists")
    /\ LET r == Head(queue)
       IN  done' = Answer(r, IF <<r.table, r.id>> \in DOMAIN db THEN "denied" ELSE "missing")
    /\ queue' = Tail(queue)
    /\ UNCHANGED <<app, up, resolved, db, born, cast, mirror, asked>>

\* get, getMembers, select and options: the query that reads.
Read ==
    /\ Head1("read")
    /\ done' = Answer(Head(queue), "read")
    /\ queue' = Tail(queue)
    /\ UNCHANGED <<app, up, resolved, db, born, cast, mirror, asked>>

-----------------------------------------------------------------------------
\* broadcast(): the feeds the read rule lets hear of it.
Audience(table, owner) ==
    LET read == Rules(table).read
    IN  {f \in Feeds : /\ read = "users" => f # Nobody
                       /\ read = "owner" => owner # Nobody /\ f = owner}

\* What a listener that is told everything does with it.
Written(row, r) ==
    CASE r.type = "setMembers" -> [row EXCEPT !.members = r.value]
      [] r.type # "setMembers" /\ r.col = "val" -> [row EXCEPT !.val = r.value]
      [] OTHER -> [row EXCEPT !.fk[r.col] = r.value]
Told(rows, r) ==
    LET key == <<r.table, r.id>>
    IN  CASE r.type = "insert" ->
               [k \in DOMAIN rows \union {key} |-> IF k = key THEN r.row ELSE rows[k]]
          [] r.type = "delete" -> [k \in DOMAIN rows \ {key} |-> rows[k]]
          [] OTHER -> [k \in DOMAIN rows |-> IF k = key THEN Written(rows[k], r) ELSE rows[k]]

Cast(r, owner) ==
    /\ cast' = [n |-> asked, type |-> r.type, table |-> r.table, id |-> r.id,
                user |-> r.user, moved |-> r.moved, to |-> Audience(r.table, owner)]
    /\ mirror' = Told(mirror, r)
    /\ done' = Answer(r, "done")

\* Mutant of Accepted: whoever wrote it passes for the owner.
AcceptedAsOwn(r, waiting) == queue' = waiting /\ Cast(r, r.user)

\* broadcastAccepted(): the guard's owner is reused, an insert's is the one
\* who inserted; otherwise an owner-read table is walked once more.
Accepted(r, waiting) ==
    LET owner == IF r.type = "insert" THEN r.user ELSE r.owner
    IN  IF Rules(r.table).read = "owner" /\ owner = Nobody
        THEN queue' = Append(waiting, [r EXCEPT !.at = "audience"])
             /\ UNCHANGED <<cast, mirror, done>>
        ELSE queue' = waiting /\ Cast(r, owner)

\* Requests whose row changed hands, or went, with this write.
Moved(requests, rows) ==
    [i \in DOMAIN requests |->
        LET w == Watched(requests[i])
        IN  [requests[i] EXCEPT !.moved = @ \/ Owners(rows, w[1], w[2]) # Owners(db, w[1], w[2])
                                            \/ (w \in DOMAIN rows) # (w \in DOMAIN db)]]

\* Mutant of Born: the ownership stamp is left empty.
BornUnstamped(r) ==
    [fk |-> [c \in {f.col : f \in Keys(r.table)} |-> IF c = r.col THEN r.value ELSE Nobody],
     val |-> "new", members |-> {}]

Born(r) ==
    LET cols == {f.col : f \in Keys(r.table)}
    IN  [fk |-> [c \in cols |-> IF c = Rules(r.table).stamp THEN r.user
                                ELSE IF c = r.col THEN r.value ELSE Nobody],
         val |-> "new", members |-> {}]

\* The database's constraints: what is written to a foreign key leads somewhere.
KeyHolds(r) ==
    \A f \in Keys(r.table) :
        IF r.type = "insert" THEN Leads(db, f, Born(r).fk[f.col])
        ELSE r.type # "setMembers" /\ f.col = r.col => Leads(db, f, r.value)

\* The row a request would write, when it inserts one.
WithRow(r) == IF r.type = "insert" THEN [r EXCEPT !.row = Born(r)] ELSE r

\* The rows after the request's own statement, or db when it fails or finds
\* nothing to do.
After(r) ==
    LET key == <<r.table, r.id>>
    IN  CASE r.type = "insert" -> IF KeyHolds(r) /\ key \notin born
                                  THEN Told(db, WithRow(r)) ELSE db
          [] r.type = "delete" ->
                IF \/ key \in DOMAIN db /\ db[key].members # {}
                   \/ \E k \in DOMAIN db : \E f \in Keys(k[1]) :
                      /\ f.parent = r.table
                      /\ db[k].fk[f.col] = r.id
                THEN db ELSE Told(db, r)
          [] OTHER -> IF key \in DOMAIN db /\ KeyHolds(r) THEN Told(db, r) ELSE db

\* Did the statement take effect (rowCount, or no error)?  The members of a
\* row that is not there are refused by the join table, unless there are none.
TookEffect(r) ==
    LET there == <<r.table, r.id>> \in DOMAIN db
    IN  CASE r.type \in {"insert", "delete"} -> After(r) # db
          [] r.type = "setMembers" -> there \/ r.value = {}
          [] OTHER -> there /\ KeyHolds(r)

\* Mutant of Apply: accepted whatever became of the statement.
ApplyUnchecked ==
    /\ Head1("apply")
    /\ LET r == WithRow(Head(queue))
           rows == After(r)
       IN  /\ db' = rows /\ born' = born \union DOMAIN rows
           /\ Accepted(Moved(<<r>>, rows)[1], Moved(Tail(queue), rows))
    /\ UNCHANGED <<app, up, resolved, asked>>

\* The statement of a set, setMembers, insert or delete, and what follows:
\* refused (a key that points nowhere, a row still referenced), nothing
\* there, or accepted and broadcast.
Apply ==
    /\ Head1("apply")
    /\ LET r == WithRow(Head(queue))
           rows == After(r)
       IN  IF TookEffect(r)
           THEN /\ db' = rows /\ born' = born \union DOMAIN rows
                /\ Accepted(IF r.type = "delete" THEN r ELSE Moved(<<r>>, rows)[1],
                            Moved(Tail(queue), rows))
           ELSE /\ done' = Answer(r, IF <<r.table, r.id>> \in DOMAIN db
                                     THEN "rejected" ELSE "missing")
                /\ queue' = Tail(queue)
                /\ UNCHANGED <<db, born, cast, mirror>>
    /\ UNCHANGED <<app, up, resolved, asked>>

\* The walk broadcastAccepted makes when the guard made none.
WalkAudience ==
    /\ Head1("audience")
    /\ LET r == Head(queue)
       IN  Cast(r, OwnerOf(db, r.table, r.id))
    /\ queue' = Tail(queue)
    /\ UNCHANGED <<app, up, resolved, db, born, asked>>

Handle == WalkGuard \/ CheckExists \/ Read \/ Apply \/ WalkAudience
Next == Handle \/ \E r \in Requests : Arrive(r)

Spec == Init /\ [][Next]_vars

-----------------------------------------------------------------------------
TypeOK ==
    /\ up \in BOOLEAN /\ asked \in 0..MaxRequests
    /\ Len(queue) <= asked
    /\ \A i \in DOMAIN queue :
          /\ queue[i].at \in {"walk", "exists", "read", "apply", "audience"}
          /\ queue[i].owner \in Users \union {Nobody}
          /\ queue[i].at = "audience" => Rules(queue[i].table).read = "owner"
    /\ DOMAIN db \subseteq born
    /\ up => \A key \in DOMAIN db : \A f \in Keys(key[1]) :
          f.col \in DOMAIN db[key].fk /\ Leads(db, f, db[key].fk[f.col])

\* An application that comes up can keep its rules: the walk of every
\* owner-ruled table ends at its nearest users table whatever the rows; and in
\* every table it inserts into under an owner rule and without a stamp, the
\* column that names the row above may be given, and a row belongs to whom
\* that row belongs to - where the rules of the table above are on the same
\* line of the graph: birth asks that table's own walk.
UpMeansSound ==
    up => \A t \in DOMAIN resolved :
        /\ "owner" \in {Rules(t).read, Rules(t).write} => \A key \in DOMAIN db :
              key[1] = t => {OwnerOf(db, t, key[2])} \ {Nobody} = Owners(db, t, key[2])
        /\ Rules(t).inserts # {} /\ Rules(t).write = "owner" /\ Rules(t).stamp = Absent =>
              LET hop == Rules(t).walk[1]
              IN  /\ hop.column \in Rules(t).inserts
                  /\ Rules(hop.parent).walk = Tail(Rules(t).walk) =>
                        \A key \in DOMAIN db : key[1] = t =>
                            Owners(db, t, key[2]) =
                                Owners(db, hop.parent, db[key].fk[hop.column])

\* Whatever is read or written, the rule of its table allowed it when the
\* statement ran - not only when the guard looked - unless the row its guard
\* walked from changed hands or went in between.  And a deletion is refused
\* only while the row is there: the retry of one that took effect is answered
\* as done.
AllowedWhenRun ==
    [][/\ Handle =>
             LET r == Head(queue)
             IN  /\ ~r.moved /\ r.type # "insert"
                 /\ \/ r.at = "read" /\ ~Lists(r)
                    \/ r.at = "apply" /\ TookEffect(r)
                 => May(db, Mode(r), r.user, r.table, r.id)
       /\ done' # done /\ done'.type = "delete" /\ done'.outcome = "denied"
             => <<done'.table, done'.id>> \in DOMAIN db']_vars

\* A row inserted under an owner rule belongs to whoever inserted it, unless
\* its parent changed hands meanwhile, the stamp filled at birth is not the
\* column the owner walk takes to users, or the table above has its rules on
\* another line of the graph than the row's own walk.
BornOwned ==
    [][\A key \in DOMAIN db' \ DOMAIN db :
          LET r == Head(queue)
              walk == Rules(r.table).walk
          IN  /\ Rules(r.table).write = "owner" /\ ~r.moved
              /\ IF Stamped(r)
                 THEN walk[1].column = Rules(r.table).stamp /\ walk[1].parent = "users"
                 ELSE Rules(walk[1].parent).walk = Tail(walk)
              => Owners(db', key[1], key[2]) = {r.user}]_vars

\* Whatever moves between the walk and the broadcast, a write is told to no
\* user but the one who made it and those who may read the row by then.  And it
\* is told to all who may read it (of a deletion: might, before it) and nobody
\* else, with three exceptions: a row that changed hands while the request ran,
\* a deletion nobody walked from before the row was gone, and a row inserted by
\* someone it does not belong to.  Feeds stay as they are meanwhile.
AudienceIsReaders ==
    [][cast' # cast =>
        /\ \A f \in cast'.to : f = cast'.user \/ May(db', "read", f, cast'.table, cast'.id)
        /\ /\ ~cast'.moved
           /\ cast'.type = "delete" /\ Rules(cast'.table).read = "owner"
                => Rules(cast'.table).write = "owner"
           /\ cast'.type = "insert" /\ Rules(cast'.table).read = "owner"
                => Owners(db', cast'.table, cast'.id) = {cast'.user}
           => cast'.to = {f \in Feeds : May(IF cast'.type = "delete" THEN db ELSE db', "read",
                                             f, cast'.table, cast'.id)}]_vars

\* All is well typed, and once every request is answered a listener that heard every broadcast, in
\* order, holds the rows the database holds: none was sent for a write that
\* did not happen, none is missing, and they come in the order of the writes.
MirrorFollows == TypeOK /\ (queue = <<>> => mirror = db)

\* What broadcastAccepted's comment says: who may read decides who may watch.
\* The code takes whoever inserts a row for its owner.
WatchersMayRead ==
    [][cast' # cast /\ cast'.type = "insert" /\ ~cast'.moved
       => \A f \in cast'.to : May(db', "read", f, cast'.table, cast'.id)]_vars
=============================================================================
