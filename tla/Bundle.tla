------------------------------- MODULE Bundle -------------------------------
(***************************************************************************)
(* What is read off a loaded application (Names): the fields the wire      *)
(* fetches and accepts, the columns of the collections, the conflict       *)
(* policies that decide what is queued (serialize.js, syncClient.js), and  *)
(* the rows stamped from a collection's template (binder.js).              *)
(***************************************************************************)
EXTENDS Names

Up == phase = "up"

\* Mutant of Uses: of the references, not of what calls are called with.
UsesOfSites == SelectSeq([i \in DOMAIN bindings |-> [b |-> bindings[i], site |-> i]],
                         LAMBDA u : sites[u.site].as # "argument")

\* Every binding the bundle is read off, in order: of each reference, and of
\* each argument of a call.
Uses ==
    LET of(i) == <<[b |-> bindings[i], site |-> i]>>
                    \o [k \in DOMAIN bindings[i].args |-> [b |-> bindings[i].args[k], site |-> i]]
    IN  SelectSeq(FlattenSeq([i \in DOMAIN bindings |-> of(i)]),
                  LAMBDA u : sites[u.site].as # "argument")

BoundUses == SelectSeq(Uses, LAMBDA u : u.b.kind = "bound")
First(uses) == SelectSeq([k \in DOMAIN uses |-> [use |-> uses[k], at |-> k]],
                         LAMBDA e : \A j \in 1..(e.at - 1) : uses[j].b.path # e.use.b.path)

\* The bound fields, one per store path; a template's are its collection's.
Entry(b) ==
    [path |-> b.path, context |-> b.target, table |-> nodes[b.target].table,
     field |-> b.path[Len(b.path)],
     policy |-> IF nodes[b.target].conflict = Absent THEN "offline-readonly"
                ELSE nodes[b.target].conflict]
BoundFields ==
    LET own == SelectSeq(BoundUses, LAMBDA u : /\ nodes[u.b.target].table # Absent
                                               /\ ~IsCollection(u.b.target))
        first == First(own)
    IN  [k \in DOMAIN first |-> Entry(first[k].use.b)]
QueryFields == {u.b.path : u \in {v \in Range(BoundUses) : /\ nodes[v.b.target].table = Absent
                                                           /\ ~IsCollection(v.b.target)}}
Columns(n) == {u.b.path[Len(u.b.path)] : u \in {v \in Range(BoundUses) : v.b.target = n}}

Policy(entries) == IF entries = <<>> THEN "offline-readonly" ELSE entries[Len(entries)].policy

\* What an insert into a table is captured under: the last of its fields.
InsertPolicy(table) == Policy(SelectSeq(BoundFields, LAMBDA e : e.table = table))

\* Mutant of CapturePolicy: the table's, as for an insert.
CapturePolicyOfTable(table, field) == InsertPolicy(table)

\* What an edit of a field is captured under: the first that names it.  What
\* the server holds it to: the last.
CapturePolicy(table, field) ==
    LET of == SelectSeq(BoundFields, LAMBDA e : e.table = table /\ e.field = field)
    IN  IF of = <<>> THEN InsertPolicy(table) ELSE of[1].policy
ServerPolicy(table, field) ==
    Policy(SelectSeq(BoundFields, LAMBDA e : e.table = table /\ e.field = field))

-----------------------------------------------------------------------------
\* Stamping a row: a path rooted at the collection gains the row's key.
Rows == {"[1]", "[2]"}
Within(n, m) == m \in Range(Chain(n))

\* Mutant of Stamped: the collection's own fields are left behind.
StampedInner(n, row, path) ==
    LET base == nodes[n].path
    IN  IF IsPrefix(base, path) /\ Len(path) > Len(base) + 1
        THEN base \o <<row>> \o SubSeq(path, Len(base) + 1, Len(path)) ELSE path

Stamped(n, row, path) ==
    LET base == nodes[n].path
    IN  IF IsPrefix(base, path)
        THEN base \o <<row>> \o SubSeq(path, Len(base) + 1, Len(path)) ELSE path

-----------------------------------------------------------------------------
Bindings(i) == {bindings[i]} \union Range(bindings[i].args)

TypeOK ==
    /\ phase \in {"build", "declare", "resolve", "check", "up", "refused"}
    /\ Len(locals) = Len(nodes)
    /\ \A n \in DOMAIN nodes \ {Root} :
        /\ nodes[n].path = Append(nodes[nodes[n].up].path, nodes[n].name)
        /\ nodes[n].scope = Root \/ IsComposite(nodes[nodes[n].scope].type)
    /\ \A i \in DOMAIN bindings : \A b \in Bindings(i) : b.target \in DOMAIN nodes \union {0}

\* All is well typed, and every instance is found by its path, as findByPath and absolute references
\* look for it: no two instances share one, across the files they come from.
PathsLead ==
    TypeOK /\ \A n \in DOMAIN nodes :
        LET names == nodes[n].path
            at[i \in 1..Len(names)] == IF i = 1 THEN Root ELSE Child(at[i - 1], names[i])
        IN  at[Len(names)] = n /\ \A m \in DOMAIN nodes : nodes[m].path = names => m = n

\* Two mounts of one composite are alike inside: what its definition says in
\* bare and in named references each of them finds in itself, at the same place.
StampsAlike ==
    \A i \in DOMAIN bindings :
        LET base == nodes[sites[i].scope].path
            Inner(j) == SubSeq(bindings[j].path, Len(nodes[sites[j].scope].path) + 1,
                               Len(bindings[j].path))
        IN  sites[i].file # "app" /\ bindings[i].kind \in {"local", "named"} =>
                /\ IsPrefix(base, bindings[i].path)
                /\ \A j \in DOMAIN bindings :
                    /\ sites[j].file = sites[i].file /\ sites[j].item = sites[i].item
                    /\ sites[j].ref = sites[i].ref
                    => Inner(j) = Inner(i)

\* A bare name means what its own file declares, wherever in that file, or the
\* mount passes: nothing else makes it found, and nothing else makes it fail.
BareReadsByFile ==
    LET Says(i) ==
            LET name == sites[i].ref.path[1]
            IN  \/ name \in Params(sites[i].scope)
                \/ \E k \in DOMAIN File(sites[i].file) : \E r \in Range(File(sites[i].file)[k].refs) :
                       r.ref.form = "declare" /\ r.ref.path[1] = name
    IN  /\ \A i \in DOMAIN bindings : sites[i].ref.form = "local" => Says(i)
        /\ culprit # 0 /\ sites[culprit].ref.form = "local" => ~Says(culprit)

\* Whatever bound field a page reads, as text or as an argument of a call, the
\* bundle fetches, unless it is an argument of the source it would come from.
ReadsAreFetched ==
    Up => \A i \in DOMAIN bindings : \A b \in Bindings(i) :
            b.kind = "bound" /\ sites[i].as # "argument" =>
                IF IsCollection(b.target) THEN b.path[Len(b.path)] \in Columns(b.target)
                ELSE \/ b.path \in QueryFields
                     \/ \E e \in Range(BoundFields) : e.path = b.path

\* The page queues an edit under the policy the server checks it by, unless
\* two contexts of that column disagree: then it is the first against the last.
\* An application without identities queues no insert: no table a create
\* action names is captured under a policy that queues.
PoliciesAgree ==
    Up =>
        /\ \A e \in Range(BoundFields) :
            \/ \E f \in Range(BoundFields) :
                  f.table = e.table /\ f.field = e.field /\ f.policy # e.policy
            \/ CapturePolicy(e.table, e.field) = e.policy /\ ServerPolicy(e.table, e.field) = e.policy
        /\ ~UsesAuth => \A table \in InsertTargets : InsertPolicy(table) = "offline-readonly"

\* A reference in a row's template reaches, from two rows, two places of their
\* own when it is bound inside the template, and one place when it is bound
\* outside, unless a local has the name of the collection.
RowsApart ==
    Up => \A n \in Contexts : \A i \in DOMAIN bindings : \A b \in Bindings(i) :
            /\ IsCollection(n) /\ Within(sites[i].owner, n) /\ b.target # 0
            /\ b.path # nodes[n].path
            => (Stamped(n, "[1]", b.path) # Stamped(n, "[2]", b.path) <=> Within(b.target, n))
=============================================================================
