-------------------------------- MODULE Names -------------------------------
(***************************************************************************)
(* An application is loaded: loader.js stamps its elements, and those of   *)
(* the composite definitions it mounts, into one tree of instances, and    *)
(* pathResolver.js binds every reference in it.                            *)
(*                                                                         *)
(* An application is a record: files, the elements and references of the   *)
(* <app> and of each composite in document order, each with the index of   *)
(* the element around it (0 at the top of the file); edges, the parent and *)
(* child tables of its data graph.  A type without a file is a primitive.  *)
(* A reference is [form, path, args]: the names it is written with, and,   *)
(* of a call, its arguments.  A site is a reference and what it stands as: *)
(* text, the field of an input, a record=, the <set> of a route, or an     *)
(* argument of a source= (resolved with its context, collected nowhere).   *)
(***************************************************************************)
EXTENDS Naturals, Sequences, FiniteSets, SequencesExt

CONSTANTS Absent, Apps

VARIABLES
    app,        \* the application that is loaded
    todo,       \* what the loader has still to visit, depth first
    nodes,      \* the instances, the root first
    sites,      \* the references, in the order they are met
    locals,     \* the declared locals of each scope, by instance
    bindings,   \* what each site is bound to, once all are
    phase,      \* "build", "declare", "resolve", "check", "up" or "refused"
    culprit     \* history: the first site that could not be bound, or 0

vars == <<app, todo, nodes, sites, locals, bindings, phase, culprit>>

Root == 1
Regions == {"identity", "sync"}
File(name) == app.files[name]
IsComposite(type) == type \in DOMAIN app.files \ {"app"}
Params(n) == nodes[n].params
Contexts == {n \in DOMAIN nodes : nodes[n].table # Absent \/ nodes[n].source # Absent}
IsCollection(n) == n \in Contexts /\ nodes[n].record = "none"

\* An instance and its ancestors, innermost first, and the first of a
\* sequence that lies in a set, or 0.
Chain(n) ==
    LET up[i \in 0..Len(nodes)] == IF i = 0 THEN <<>> ELSE <<i>> \o up[nodes[i].up]
    IN  up[n]
FirstIn(seq, S) ==
    LET at == {k \in DOMAIN seq : seq[k] \in S}
    IN  IF at = {} THEN 0 ELSE seq[CHOOSE k \in at : \A j \in at : k <= j]

Child(n, name) == FirstIn([i \in DOMAIN nodes |-> i],
                          {c \in DOMAIN nodes : nodes[c].up = n /\ nodes[c].name = name})
Named(name) == {n \in DOMAIN nodes \ {Root} : nodes[n].name = name}

-----------------------------------------------------------------------------
(* Building the tree.                                                       *)

\* The direct contents of an item, to be visited under an instance, in the
\* scope they were written in.
Visits(file, item, up, scope, stack) ==
    LET inside == SelectSeq([k \in DOMAIN File(file) |-> k], LAMBDA k : File(file)[k].in = item)
    IN  [k \in DOMAIN inside |->
            [file |-> file, item |-> inside[k], up |-> up, scope |-> scope, stack |-> stack]]

Site(ref, as, owner, v) ==
    [ref |-> ref, as |-> as, owner |-> owner, scope |-> v.scope, file |-> v.file, item |-> v.item]

\* Mutant of BuildError: siblings may share a name.
BuildErrorSiblings(v, el) ==
    \/ el.name = "app"
    \/ v.up = Root /\ el.name \in Regions
    \/ el.conflict # Absent /\ el.table = Absent
    \/ v.scope # Root /\ \E n \in Named(el.name) : nodes[n].scope = v.scope
    \/ el.type \in v.stack

\* Two elements written in different files may meet as siblings: a mount's
\* content and its definition.
BuildError(v, el) ==
    \/ el.name = "app"
    \/ v.up = Root /\ el.name \in Regions
    \/ Child(v.up, el.name) # 0
    \/ el.conflict # Absent /\ el.table = Absent
    \/ v.scope # Root /\ \E n \in Named(el.name) : nodes[n].scope = v.scope
    \/ el.type \in v.stack

Refuse(at) ==
    /\ phase' = "refused" /\ culprit' = at
    /\ UNCHANGED <<app, todo, nodes, sites, locals, bindings>>

\* A piece of text, or the <set> of a route.
BuildText(v, el) ==
    /\ sites' = Append(sites, Site(el.refs[1].ref, el.refs[1].as, v.up, v))
    /\ todo' = Tail(todo) /\ UNCHANGED <<nodes, locals>>

\* A composite is stamped afresh below its mount, which is the scope of all
\* its definition holds; content stays in the scope it was written in.
Inside(v, el, n) ==
    (IF IsComposite(el.type) THEN Visits(el.type, 0, n, n, v.stack \union {el.type}) ELSE <<>>)
        \o Visits(v.file, v.item, n, v.scope, v.stack)

BuildInstance(v, el) ==
    LET n == Len(nodes) + 1
    IN  /\ nodes' = Append(nodes, [name |-> el.name, type |-> el.type, up |-> v.up, scope |-> v.scope,
                                   path |-> Append(nodes[v.up].path, el.name), params |-> el.params,
                                   table |-> el.table, source |-> el.source, record |-> el.record,
                                   conflict |-> el.conflict])
        /\ locals' = Append(locals, {})
        /\ sites' = sites \o [k \in DOMAIN el.refs |-> Site(el.refs[k].ref, el.refs[k].as, n, v)]
        /\ todo' = Inside(v, el, n) \o Tail(todo)

Build ==
    /\ phase = "build" /\ todo # <<>>
    /\ LET v == Head(todo)
           el == File(v.file)[v.item]
       IN  IF el.is = "element" /\ BuildError(v, el) THEN Refuse(0)
           ELSE /\ IF el.is = "element" THEN BuildInstance(v, el) ELSE BuildText(v, el)
                /\ UNCHANGED <<app, bindings, phase, culprit>>

Built ==
    /\ phase = "build" /\ todo = <<>>
    /\ phase' = "declare" /\ UNCHANGED <<app, todo, nodes, sites, locals, bindings, culprit>>

-----------------------------------------------------------------------------
(* Binding the references.                                                  *)
Declarations == {i \in DOMAIN sites : sites[i].ref.form = "declare"}
DeclaredBy(i) == sites[i].ref.path[1]

\* The declaration pass: every {name = default}, before any read is bound.
Declare ==
    /\ phase = "declare"
    /\ LET twice == {i \in Declarations :
                        \/ DeclaredBy(i) \in Params(sites[i].scope)
                        \/ \E j \in Declarations : /\ j < i /\ sites[j].scope = sites[i].scope
                                                   /\ DeclaredBy(j) = DeclaredBy(i)}
       IN  IF twice # {} THEN Refuse(0)
           ELSE /\ locals' = [n \in DOMAIN nodes |->
                                {DeclaredBy(i) : i \in {j \in Declarations : sites[j].scope = n}}]
                /\ phase' = "resolve"
                /\ UNCHANGED <<app, todo, nodes, sites, bindings, culprit>>

Failed == [kind |-> "failed", target |-> 0, path |-> <<>>, args |-> <<>>]
Literal == [kind |-> "literal", target |-> 0, path |-> <<>>, args |-> <<>>]
At(kind, n, field) == [kind |-> kind, target |-> n, path |-> nodes[n].path \o field, args |-> <<>>]
Found(kind, n, field) == IF n = 0 THEN Failed ELSE At(kind, n, field)
Rest(ref) == Tail(ref.path)

\* Mutant of ResolveLocal: only a local that is declared further up.
ResolveLocalBelow(site) ==
    LET name == site.ref.path[1]
        above == {i \in Declarations : /\ sites[i].scope = site.scope /\ DeclaredBy(i) = name
                                       /\ \E j \in DOMAIN sites : i <= j /\ sites[j] = site}
    IN  Found("local", IF name \in Params(site.scope) \/ above # {} THEN site.scope ELSE 0, <<name>>)

ResolveLocal(site) ==
    LET name == site.ref.path[1]
    IN  Found("local", IF name \in Params(site.scope) \union locals[site.scope] THEN site.scope ELSE 0,
              <<name>>)

\* The nearest data context, the owner itself included; a query takes no input.
ResolveBound(site) ==
    LET n == FirstIn(Chain(site.owner), Contexts)
    IN  IF n # 0 /\ nodes[n].source # Absent /\ site.as = "field" THEN Failed
        ELSE Found("bound", n, site.ref.path)

\* Mutant of ResolveNamed: the first in the app, wherever it is written.
ResolveNamedFirst(site) ==
    LET all == Named(site.ref.path[1])
    IN  Found("named", FirstIn([i \in DOMAIN nodes |-> i], all), Rest(site.ref))

\* Written in the app: the only one of that name anywhere; in a definition:
\* the one in the same mount of it.
ResolveNamed(site) ==
    LET all == Named(site.ref.path[1])
        own == IF site.scope = Root THEN all ELSE {n \in all : nodes[n].scope = site.scope}
    IN  Found("named", IF Cardinality(own) = 1 THEN CHOOSE n \in own : TRUE ELSE 0, Rest(site.ref))

ResolveUpward(site) ==
    Found("upward", FirstIn(Tail(Chain(site.owner)), Named(site.ref.path[1])), Rest(site.ref))

\* Names are taken as children from the root as far as they go; what is left
\* is the field, which at the root must be there.
ResolveAbsolute(site) ==
    LET names == site.ref.path
        walk[i \in 0..Len(names)] ==
            IF i = 0 THEN [n |-> Root, used |-> 0]
            ELSE LET here == walk[i - 1]
                     next == IF here.used = i - 1 THEN Child(here.n, names[i]) ELSE 0
                 IN  IF next = 0 THEN here ELSE [n |-> next, used |-> i]
        end == walk[Len(names)]
    IN  IF names[1] \in Regions THEN At("absolute", Root, names)
        ELSE IF end.used = 0 /\ names[1] \notin Params(Root) \union locals[Root] THEN Failed
        ELSE At("absolute", end.n, SubSeq(names, end.used + 1, Len(names)))

\* The framework's own parts of the store, app.identity and app.sync.
InRegion(path) == Len(path) >= 2 /\ path[2] \in Regions
ResolveRef(site) ==
    LET b == CASE site.ref.form \in {"local", "declare"} -> ResolveLocal(site)
               [] site.ref.form = "bound" -> ResolveBound(site)
               [] site.ref.form = "named" -> ResolveNamed(site)
               [] site.ref.form = "upward" -> ResolveUpward(site)
               [] site.ref.form = "absolute" -> ResolveAbsolute(site)
               [] site.ref.form = "literal" -> Literal
    IN  IF site.as = "set" /\ InRegion(b.path) THEN Failed ELSE b

\* The odd arguments of apskel.field.set are written.
ArgAs(fn, k) == IF fn = "field.set" /\ k % 2 = 1 THEN "set" ELSE "value"

\* A call is its name, its literals (the table of a create) and its bound
\* arguments.
ResolveCall(site) ==
    LET fn == site.ref.path[1]
        args == [k \in DOMAIN site.ref.args |->
                    ResolveRef([site EXCEPT !.ref = site.ref.args[k], !.as = ArgAs(fn, k)])]
    IN  IF Failed \in Range(args) THEN Failed
        ELSE [kind |-> "call", target |-> 0, path |-> site.ref.path, args |-> args]

Resolved(site) == IF site.ref.form = "call" THEN ResolveCall(site) ELSE ResolveRef(site)

Resolve ==
    /\ phase = "resolve"
    /\ LET bound == [i \in DOMAIN sites |-> Resolved(sites[i])]
           lost == {i \in DOMAIN sites : bound[i] = Failed}
       IN  IF lost # {} THEN Refuse(CHOOSE i \in lost : \A j \in lost : i <= j)
           ELSE /\ bindings' = bound /\ phase' = "check"
                /\ UNCHANGED <<app, todo, nodes, sites, locals, culprit>>

-----------------------------------------------------------------------------
(* What an application must have beyond references that resolve.            *)
CallsOf(fns) == {i \in DOMAIN bindings : bindings[i].kind = "call" /\ bindings[i].path[1] \in fns}
UsesAuth == CallsOf({"auth.login"}) # {}

\* A collection inside a context follows an edge of the graph.
NestedWrong ==
    \E n \in Contexts :
        LET around == FirstIn(Tail(Chain(n)), Contexts)
        IN  /\ IsCollection(n) /\ around # 0
            /\ \/ nodes[around].source # Absent \/ nodes[n].source # Absent
               \/ <<nodes[around].table, nodes[n].table>> \notin app.edges

Queueing == {n \in DOMAIN nodes : nodes[n].conflict \in {"detect", "lww"}}
InsertTargets ==
    {nodes[n].table : n \in {m \in Contexts : IsCollection(m) /\ nodes[m].table # Absent}}
        \union {bindings[i].path[2] : i \in CallsOf({"data.create"})}

\* Inserts that could be queued and have no device to be receipted for.
QueuesUnowned == ~UsesAuth /\ \E n \in Queueing : nodes[n].table \in InsertTargets

\* A conflict nobody could see, or resolve.
ParksSilently ==
    /\ \E n \in Queueing : nodes[n].conflict = "detect"
    /\ \/ ~\E i \in DOMAIN bindings :
            /\ bindings[i].kind = "absolute" /\ sites[i].as # "argument"
            /\ Len(bindings[i].path) >= 3 /\ bindings[i].path[2] = "sync"
       \/ CallsOf({"sync.keepMine", "sync.takeTheirs"}) = {}

Check ==
    /\ phase = "check"
    /\ IF NestedWrong \/ QueuesUnowned \/ ParksSilently THEN Refuse(0)
       ELSE phase' = "up" /\ UNCHANGED <<app, todo, nodes, sites, locals, bindings, culprit>>

-----------------------------------------------------------------------------
Init ==
    /\ app \in Apps
    /\ nodes = <<[name |-> "app", type |-> "app", up |-> 0, scope |-> Root, path |-> <<"app">>,
                  params |-> {"title"}, table |-> Absent, source |-> Absent, record |-> "none",
                  conflict |-> Absent]>>
    /\ todo = Visits("app", 0, Root, Root, {})
    /\ sites = <<>> /\ locals = <<{}>> /\ bindings = <<>>
    /\ phase = "build" /\ culprit = 0

Next == Build \/ Built \/ Declare \/ Resolve \/ Check
Spec == Init /\ [][Next]_vars
=============================================================================
