------------------------------ MODULE DataGraph ------------------------------
(***************************************************************************)
(* The data graph of an application, and what the server works out from it *)
(* before it serves anything: the rules and owner walks the loader reads   *)
(* off the graph (loader.js buildData), and the columns, ownership stamps  *)
(* and join tables start-up finds in the live schema (wireServer.js        *)
(* resolvePermissionColumns, resolveCollections, resolveSetFieldEdges).    *)
(*                                                                         *)
(* An application is a record: its graph nodes in document order, each     *)
(* [tag, parent, via, join, read, write] with the index of its parent (0   *)
(* at a root); the columns its collections and create actions insert, by   *)
(* table, and the tables its collections delete from; its set fields       *)
(* [table, edge, stored]; and the foreign keys [child, col, parent, ref]   *)
(* and plain columns <<table, col>> of its schema.  Absent marks an        *)
(* attribute that is not written.                                          *)
(***************************************************************************)
EXTENDS Naturals, Sequences, FiniteSets

CONSTANT Absent

IdentityTables == {"users", "devices", "user_devices"}
Or(attribute, default) == IF attribute = Absent THEN default ELSE attribute

\* The ancestors of node i, innermost first, as walkGraphNode is handed them.
Ancestors(nodes, i) ==
    LET up[j \in 0..Len(nodes)] ==
            IF j = 0 THEN <<>> ELSE <<j>> \o up[nodes[j].parent]
    IN  up[nodes[i].parent]

\* The path from node i to its nearest users ancestor, one hop per edge, each
\* with the via= of its child side; <<>> when there is none.
Hops(nodes, i) ==
    LET path == <<i>> \o Ancestors(nodes, i)
        tops == {k \in 2..Len(path) : nodes[path[k]].tag = "users"}
    IN  IF tops = {} THEN <<>>
        ELSE [k \in 1..((CHOOSE t \in tops : \A s \in tops : t <= s) - 1) |->
                [child |-> nodes[path[k]].tag, parent |-> nodes[path[k + 1]].tag,
                 via |-> nodes[path[k]].via]]

\* The nodes that declare rules, and what the loader refuses about them.
Ruled(nodes) == {i \in DOMAIN nodes : nodes[i].read # Absent \/ nodes[i].write # Absent}

LoadError(app) ==
    \E i \in Ruled(app.nodes) :
        LET n == app.nodes[i]
        IN  \/ n.tag \in IdentityTables
            \/ \E j \in Ruled(app.nodes) : j # i /\ app.nodes[j].tag = n.tag
            \/ "owner" \in {n.read, n.write} /\ Hops(app.nodes, i) = <<>>

PermissionOf(app, table) ==
    LET at == {i \in Ruled(app.nodes) : app.nodes[i].tag = table}
    IN  IF at = {} THEN [read |-> "users", write |-> "users", hops |-> <<>>]
        ELSE LET i == CHOOSE j \in at : TRUE
             IN  [read |-> Or(app.nodes[i].read, "users"),
                  write |-> Or(app.nodes[i].write, "users"),
                  hops |-> Hops(app.nodes, i)]

\* rulesFor: the identity tables are locked, a table without a node's rules
\* is open to every user.
RulesFor(app, table) ==
    IF table \in IdentityTables THEN [read |-> "owner", write |-> "none", hops |-> <<>>]
    ELSE PermissionOf(app, table)

-----------------------------------------------------------------------------
\* The column a hop follows: via= when written, else the only foreign key.
HopColumns(app, hop) ==
    LET candidates == {fk.col : fk \in {f \in app.fks :
                           f.child = hop.child /\ f.parent = hop.parent}}
    IN  IF hop.via = Absent THEN candidates ELSE candidates \intersect {hop.via}

OwnerRuled(app) ==
    {t \in {app.nodes[i].tag : i \in DOMAIN app.nodes} \ IdentityTables :
        "owner" \in {PermissionOf(app, t).read, PermissionOf(app, t).write}}

WalkError(app) ==
    \E t \in OwnerRuled(app) :
        LET hops == PermissionOf(app, t).hops
        IN  \E k \in DOMAIN hops : Cardinality(HopColumns(app, hops[k])) # 1

\* Once started, the hops of an owner-ruled table with their columns.
Walk(app, table) ==
    LET hops == PermissionOf(app, table).hops
    IN  [k \in DOMAIN hops |->
            [child |-> hops[k].child, parent |-> hops[k].parent,
             column |-> CHOOSE c \in HopColumns(app, hops[k]) : TRUE]]

\* The ownership stamp: the one foreign key of the table to users.
StampColumns(app, table) ==
    {fk.col : fk \in {f \in app.fks : f.child = table /\ f.parent = "users"}}
Stamp(app, table) ==
    IF StampColumns(app, table) = {} THEN Absent
    ELSE CHOOSE c \in StampColumns(app, table) : TRUE

InsertTables(app) == DOMAIN app.inserts

\* Mutant of BornDead: only the stamp and the walk's existence are asked for.
BornDeadWalkless(app, table) ==
    /\ Stamp(app, table) = Absent
    /\ PermissionOf(app, table).write = "owner"
    /\ PermissionOf(app, table).hops = <<>>

\* A row inserted here could belong to nobody: no stamp, and the column the
\* owner walk starts from is not among the inserted.
BornDead(app, table) ==
    /\ Stamp(app, table) = Absent
    /\ PermissionOf(app, table).write = "owner"
    /\ ~(/\ PermissionOf(app, table).hops # <<>>
         /\ Walk(app, table)[1].column \in app.inserts[table])

InsertError(app) ==
    \E t \in InsertTables(app) :
        \/ Cardinality(StampColumns(app, t)) > 1
        \/ BornDead(app, t)

\* join= of the first node declared for the edge.
EdgeJoin(app, s) ==
    LET at == {i \in DOMAIN app.nodes :
                 app.nodes[i].tag = s.edge /\ app.nodes[i].parent # 0
                    /\ app.nodes[app.nodes[i].parent].tag = s.table}
    IN  IF at = {} THEN Absent ELSE app.nodes[CHOOSE i \in at : \A j \in at : i <= j].join

JoinCandidates(app, s) ==
    {t \in {f.child : f \in app.fks} \ {s.table, s.edge} :
        /\ \E f \in app.fks : f.child = t /\ f.parent = s.table
        /\ \E f \in app.fks : f.child = t /\ f.parent = s.edge}
JoinTables(app, s) ==
    IF EdgeJoin(app, s) = Absent THEN JoinCandidates(app, s)
    ELSE JoinCandidates(app, s) \intersect {EdgeJoin(app, s)}

\* resolveOneEdge: no column of the edge's name, one join table that is not a
\* graph node itself, one foreign key to each end, to the stored column.
EdgeError(app) ==
    \E s \in app.sets :
        \/ <<s.table, s.edge>> \in app.columns
        \/ Cardinality(JoinTables(app, s)) # 1
        \/ \E j \in JoinTables(app, s) :
              LET toParent == {f \in app.fks : f.child = j /\ f.parent = s.table}
                  toChild == {f \in app.fks : f.child = j /\ f.parent = s.edge}
              IN  \/ \E i \in DOMAIN app.nodes : app.nodes[i].tag = j
                  \/ Cardinality(toParent) # 1 \/ Cardinality(toChild) # 1
                  \/ \E f \in toChild : f.ref # s.stored

\* The application loads and its server starts.
ComesUp(app) ==
    /\ ~LoadError(app) /\ ~WalkError(app) /\ ~InsertError(app) /\ ~EdgeError(app)
=============================================================================
