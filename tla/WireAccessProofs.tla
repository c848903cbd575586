--------------------------- MODULE WireAccessProofs ---------------------------
(***************************************************************************)
(* What holds at the Wire's doors for any applications, rows, users and    *)
(* requests: start-up settles for every owner-ruled table a walk that ends *)
(* at its owner; whatever is read or written was allowed when the          *)
(* statement ran; the feeds that hear of a write are the writer's and      *)
(* those that may read the row; and a listener that hears everything holds *)
(* the rows.                                                               *)
(***************************************************************************)
EXTENDS WireAccess, CommonLemmas

-----------------------------------------------------------------------------
(* What start-up settles about each table.                                 *)

\* The recursion up the ancestors unrolls, since parents come first.
LEMMA AncestorsAreNodes ==
  ASSUME NEW nodes, NEW N \in Nat, N = Len(nodes),
         \A i \in 1..N : nodes[i].parent \in 0..(i - 1)
  PROVE  \A i \in 1..N : Ancestors(nodes, i) \in Seq(1..N)
<1>. DEFINE Unrolled(g, m) == g = [j \in 0..m |-> IF j = 0 THEN <<>> ELSE <<j>> \o g[nodes[j].parent]]
            Good == {m \in 0..N : \E g : Unrolled(g, m)}
<1>1. 0 \in Good
  <2>1. Unrolled([j \in 0..0 |-> <<>>], 0)
    OBVIOUS
  <2>. HIDE DEF Unrolled
  <2>2. \E g : Unrolled(g, 0)
    BY <2>1
  <2>. QED BY <2>2
<1>2. ASSUME NEW b \in 1..N, b - 1 \in Good PROVE b \in Good
  <2>1. PICK g : Unrolled(g, b - 1)
    BY <1>2
  <2>. DEFINE h == [j \in 0..b |-> IF j = b THEN <<b>> \o g[nodes[b].parent] ELSE g[j]]
  <2>2. ASSUME NEW j \in 0..b
        PROVE  h[j] = IF j = 0 THEN <<>> ELSE <<j>> \o h[nodes[j].parent]
    <3>1. CASE j = 0
      BY <2>1, <3>1
    <3>2. CASE j # 0
      <4>1. nodes[j].parent \in 0..(j - 1) /\ nodes[j].parent \in 0..b /\ nodes[j].parent # b
        BY <3>2
      <4>2. h[nodes[j].parent] = g[nodes[j].parent]
        BY <4>1
      <4>3. CASE j = b
        BY <3>2, <4>2, <4>3
      <4>4. CASE j # b
        <5>1. j \in 0..(b - 1)
          BY <4>4
        <5>2. g[j] = <<j>> \o g[nodes[j].parent]
          BY <2>1, <3>2, <5>1
        <5>. QED BY <3>2, <4>2, <4>4, <5>2
      <4>. QED BY <4>3, <4>4
    <3>. QED BY <3>1, <3>2
  <2>3. Unrolled(h, b)
    BY <2>2
  <2>. HIDE DEF Unrolled, h
  <2>4. \E k : Unrolled(k, b)
    BY <2>3
  <2>. QED BY <2>4
<1>3. N \in Good
  <2>1. \A b \in 1..N : b - 1 \in Good => b \in Good
    BY <1>2
  <2>. HIDE DEF Good
  <2>2. \A n \in 0..N : n \in Good
    BY <1>1, <2>1, Climb
  <2>. QED BY <2>2
<1>. DEFINE f == CHOOSE g : Unrolled(g, N)
<1>4. Unrolled(f, N)
  BY <1>3
<1>5. \A i \in 1..N : Ancestors(nodes, i) = f[nodes[i].parent]
  BY DEF Ancestors
<1>. HIDE DEF f
<1>6. f[0] = <<>> /\ \A j \in 1..N : f[j] = <<j>> \o f[nodes[j].parent]
  <2>1. \A j \in 0..N : f[j] = IF j = 0 THEN <<>> ELSE <<j>> \o f[nodes[j].parent]
    BY <1>4, Zenon
  <2>2. 0 \in 0..N /\ \A j \in 1..N : j \in 0..N /\ j # 0
    OBVIOUS
  <2>. QED BY <2>1, <2>2, Zenon
<1>. HIDE DEF Unrolled
<1>. DEFINE Below == {m \in 0..N : \A j \in 0..m : f[j] \in Seq(1..N)}
<1>7. \A n \in 0..N : n \in Below
  <2>1. 0 \in Below
    <3>1. <<>> \in Seq(1..N) /\ 0 \in 0..N /\ \A j \in 0..0 : j = 0
      OBVIOUS
    <3>. QED BY <1>6, <3>1
  <2>2. ASSUME NEW n \in 1..N, n - 1 \in Below PROVE n \in Below
    <3>1. nodes[n].parent \in 0..(n - 1) /\ f[nodes[n].parent] \in Seq(1..N)
      BY <2>2
    <3>2. f[n] = <<n>> \o f[nodes[n].parent]
      BY <1>6
    <3>. DEFINE g == f[nodes[n].parent]
    <3>. HIDE DEF g
    <3>3. f[n] \in Seq(1..N)
      <4>1. g \in Seq(1..N)
        BY <3>1 DEF g
      <4>2. <<n>> \o g \in Seq(1..N)
        BY <4>1, <<n>> \in Seq(1..N), ConcatProperties
      <4>. QED BY <3>2, <4>2 DEF g
    <3>4. \A j \in 0..n : j = n \/ j \in 0..(n - 1)
      OBVIOUS
    <3>. QED BY <2>2, <3>3, <3>4
  <2>. HIDE DEF Below
  <2>3. \A n \in 1..N : n - 1 \in Below => n \in Below
    BY <2>2
  <2>. QED BY <2>1, <2>3, Climb
<1>8. \A j \in 0..N : f[j] \in Seq(1..N)
  BY <1>7
<1>. QED
  <2>. TAKE i \in 1..N
  <2>1. nodes[i].parent \in 0..N
    OBVIOUS
  <2>. QED BY <1>5, <1>8, <2>1

\* A walk goes hop by hop along the line of the graph above its table, by the
\* only foreign key of each edge, and ends at the nearest users table.
OnLine(rules, t) ==
  LET walk == rules[t].walk
      line == rules[t].line
  IN  /\ walk \in Seq({walk[k] : k \in DOMAIN walk}) /\ Len(walk) \in Nat \ {0}
      /\ Len(line) \in Nat /\ Len(line) > Len(walk)
      /\ walk[1].child = t /\ walk[1].parent \in DOMAIN rules
      /\ \E f \in rules[t].keys : f.col = walk[1].column /\ f.parent = walk[1].parent
      /\ \A k \in 1..Len(walk) :
            /\ walk[k].child # "users" /\ line[k].table = walk[k].child
            /\ line[k].cols = {walk[k].column} /\ line[k + 1].table = walk[k].parent
      /\ line[Len(walk) + 1].table = "users"

\* What start-up settles about a table.
Settled(rules, t) ==
  /\ rules[t].read \in {"public", "users", "owner"}
  /\ rules[t].write \in {"users", "owner", "none"}
  /\ \A f \in rules[t].keys : f.child = t /\ f.col # Absent
  /\ t \in IdentityTables => /\ rules[t].read = "owner" /\ rules[t].write = "none"
                             /\ rules[t].walk = <<>> /\ rules[t].line = <<>>
  /\ t \notin IdentityTables /\ "owner" \in {rules[t].read, rules[t].write} => rules[t].walk # <<>>
  /\ rules[t].walk # <<>> => t \notin IdentityTables /\ OnLine(rules, t)
  /\ rules[t].inserts # {} /\ rules[t].write = "owner" /\ rules[t].stamp = Absent =>
        rules[t].walk[1].column \in rules[t].inserts /\ rules[t].walk[1].parent # "users"

\* An application as the assumption has it: parents first, rules of the menus.
Proper(a) ==
  /\ Len(a.nodes) \in Nat /\ DOMAIN a.nodes = 1..Len(a.nodes)
  /\ \A i \in DOMAIN a.nodes :
        /\ a.nodes[i].parent \in 0..(i - 1)
        /\ a.nodes[i].read \in {"public", "users", "owner", Absent}
        /\ a.nodes[i].write \in {"users", "owner", "none", Absent}
  /\ IsFiniteSet({f.col : f \in a.fks})
  /\ \A f \in a.fks : f.col # Absent

\* The line of the node that rules a table, and the walk read off it.
LEMMA WalkIsOnLine ==
  ASSUME NEW a, Proper(a), ComesUp(a), NEW t \in OwnerRuled(a)
  PROVE  OnLine(Resolve(a), t)
<1>. DEFINE nodes == a.nodes
            N == Len(nodes)
            at == {j \in Ruled(nodes) : nodes[j].tag = t}
            i == CHOOSE j \in at : TRUE
            path == <<i>> \o Ancestors(nodes, i)
            tops == {k \in 2..Len(path) : nodes[path[k]].tag = "users"}
            T == CHOOSE k \in tops : \A s \in tops : k <= s
            walk == Resolve(a)[t].walk
            line == Resolve(a)[t].line
<1>1. N \in Nat /\ DOMAIN nodes = 1..N /\ \A j \in 1..N : nodes[j].parent \in 0..(j - 1)
  BY DEF Proper
<1>2. /\ t \notin IdentityTables /\ t \in Tables(a)
      /\ "owner" \in {PermissionOf(a, t).read, PermissionOf(a, t).write}
  BY DEF OwnerRuled, Tables
<1>3. at # {}
  BY <1>2 DEF PermissionOf
<1>4. i \in at /\ i \in Ruled(nodes) /\ i \in 1..N /\ nodes[i].tag = t
  BY <1>1, <1>3 DEF Ruled
<1>5. path \in Seq(1..N) /\ Len(path) \in Nat /\ DOMAIN path = 1..Len(path) /\ path[1] = i
  <2>1. Ancestors(nodes, i) \in Seq(1..N)
    <3>. HIDE DEF nodes, N, i
    <3>. QED BY <1>1, <1>4, AncestorsAreNodes DEF N
  <2>. DEFINE A == Ancestors(nodes, i)
  <2>2. <<i>> \in Seq(1..N) /\ Len(<<i>>) = 1 /\ <<i>>[1] = i
    <3>. HIDE DEF i
    <3>. QED BY <1>4
  <2>. HIDE DEF A, i
  <2>3. /\ <<i>> \o A \in Seq(1..N) /\ Len(<<i>> \o A) = Len(<<i>>) + Len(A)
        /\ \A k \in 1..(Len(<<i>>) + Len(A)) :
              (<<i>> \o A)[k] = IF k <= Len(<<i>>) THEN <<i>>[k] ELSE A[k - Len(<<i>>)]
    BY <2>1, <2>2, ConcatProperties DEF A
  <2>4. Len(A) \in Nat
    BY <2>1 DEF A
  <2>5. (<<i>> \o A)[1] = i
    BY <2>2, <2>3, <2>4
  <2>6. path = <<i>> \o A
    BY DEF A
  <2>. HIDE DEF path
  <2>. QED BY <2>3, <2>5, <2>6
<1>. DEFINE hops == PermissionOf(a, t).hops
            Hop(k) == [child |-> nodes[path[k]].tag, parent |-> nodes[path[k + 1]].tag,
                       via |-> nodes[path[k]].via]
<1>6. "owner" \in {nodes[i].read, nodes[i].write} /\ hops = Hops(nodes, i)
  BY <1>2, <1>3 DEF PermissionOf, Or
<1>7. hops # <<>>
  <2>1. ~LoadError(a)
    BY DEF ComesUp
  <2>. HIDE DEF i, hops
  <2>. QED BY <1>4, <1>6, <2>1 DEF LoadError
<1>8. tops # {}
  BY <1>6, <1>7 DEF Hops
<1>9. T \in 2..Len(path) /\ nodes[path[T]].tag = "users" /\ \A k \in 2..(T - 1) : nodes[path[k]].tag # "users"
  <2>1. tops \in SUBSET Nat
    <3>. HIDE DEF path
    <3>. QED OBVIOUS
  <2>2. T = Min(tops)
    BY DEF Min
  <2>3. T \in tops /\ \A s \in tops : T <= s
    <3>. HIDE DEF tops, T
    <3>. QED BY <1>8, <2>1, <2>2, MinOf
  <2>. HIDE DEF T, path
  <2>4. \A k \in 2..(T - 1) : k \in 2..Len(path) /\ ~(T <= k)
    BY <1>5, <2>3
  <2>. QED BY <2>3, <2>4
<1>10. hops = [k \in 1..(T - 1) |-> Hop(k)]
  BY <1>6, <1>8 DEF Hops
<1>. DEFINE Cols(k) == HopColumns(a, Hop(k))
            Column(hop) == CHOOSE c \in HopColumns(a, hop) : TRUE
<1>11. walk = [k \in 1..(T - 1) |->
                 [child |-> nodes[path[k]].tag, parent |-> nodes[path[k + 1]].tag,
                  column |-> Column(Hop(k))]]
  <2>1. walk = Walk(a, t)
    <3>. HIDE DEF i, T
    <3>. QED BY <1>2 DEF Resolve
  <2>2. Walk(a, t) = [k \in DOMAIN hops |-> [child |-> hops[k].child, parent |-> hops[k].parent,
                                             column |-> Column(hops[k])]]
    BY DEF Walk
  <2>. HIDE DEF hops, walk, path, T, Column
  <2>3. DOMAIN hops = 1..(T - 1) /\ \A k \in 1..(T - 1) : hops[k] = Hop(k)
    BY <1>10
  <2>. QED BY <2>1, <2>2, <2>3
<1>12. ASSUME NEW k \in 1..(T - 1)
       PROVE  \E c : Cols(k) = {c}
  <2>1. Cardinality(Cols(k)) = 1
    <3>1. ~WalkError(a)
      BY DEF ComesUp
    <3>2. k \in DOMAIN hops /\ hops[k] = Hop(k)
      <4>. HIDE DEF hops, T, path
      <4>. QED BY <1>10
    <3>. HIDE DEF hops, T, path
    <3>3. Cardinality(HopColumns(a, hops[k])) = 1
      BY <3>1, <3>2 DEF WalkError, hops
    <3>. QED BY <3>2, <3>3
  <2>2. Cols(k) \subseteq {f.col : f \in a.fks}
    <3>. DEFINE hop == Hop(k)
    <3>. HIDE DEF hop
    <3>1. HopColumns(a, hop) \subseteq {f.col : f \in a.fks}
      BY DEF HopColumns
    <3>. QED BY <3>1 DEF hop
  <2>3. IsFiniteSet({f.col : f \in a.fks})
    BY DEF Proper
  <2>. DEFINE C == Cols(k)
              F == {f.col : f \in a.fks}
  <2>. HIDE DEF C, F
  <2>4. IsFiniteSet(C)
    BY <2>2, <2>3, FS_Subset DEF C, F
  <2>5. \E c : C = {c}
    BY <2>1, <2>4, FS_Singleton DEF C
  <2>. QED BY <2>5 DEF C
<1>13. line = [k \in 1..Len(path) |->
                 [table |-> nodes[path[k]].tag,
                  cols |-> IF k = Len(path) THEN {}
                           ELSE {f.col : f \in {g \in a.fks :
                                   /\ g.child = nodes[path[k]].tag
                                   /\ g.parent = nodes[path[k + 1]].tag
                                   /\ nodes[path[k]].via \in {Absent, g.col}}}]]
  <2>1. line = Line(a, t)
    <3>. HIDE DEF i, T
    <3>. QED BY <1>2 DEF Resolve
  <2>2. Line(a, t) = [k \in DOMAIN path |->
                 [table |-> nodes[path[k]].tag,
                  cols |-> IF k = Len(path) THEN {}
                           ELSE {f.col : f \in {g \in a.fks :
                                   /\ g.child = nodes[path[k]].tag
                                   /\ g.parent = nodes[path[k + 1]].tag
                                   /\ nodes[path[k]].via \in {Absent, g.col}}}]]
    BY <1>3 DEF Line
  <2>. HIDE DEF path, line
  <2>. QED BY <1>5, <2>1, <2>2
<1>14. ASSUME NEW k \in 1..(T - 1)
       PROVE  /\ line[k].table = walk[k].child /\ line[k + 1].table = walk[k].parent
              /\ line[k].cols = {walk[k].column} /\ walk[k].child # "users"
  <2>1. k \in 1..Len(path) /\ k + 1 \in 1..Len(path) /\ k # Len(path) /\ k \in Nat
    <3>. HIDE DEF path, T
    <3>1. T \in Nat /\ Len(path) \in Nat /\ T <= Len(path)
      BY <1>5, <1>9
    <3>. QED BY <3>1
  <2>2. /\ walk[k].child = nodes[path[k]].tag /\ walk[k].parent = nodes[path[k + 1]].tag
        /\ walk[k].column = Column(Hop(k))
    <3>. HIDE DEF path, T, walk, Column
    <3>. QED BY <1>11
  <2>3. Cols(k) = {walk[k].column}
    <3>. HIDE DEF walk
    <3>1. walk[k].column = CHOOSE c \in Cols(k) : TRUE
      BY <2>2
    <3>. HIDE DEF Cols
    <3>. QED BY <1>12, <3>1
  <2>4. line[k].cols = Cols(k)
    <3>1. line[k].cols = {f.col : f \in {g \in a.fks :
                                   /\ g.child = nodes[path[k]].tag
                                   /\ g.parent = nodes[path[k + 1]].tag
                                   /\ nodes[path[k]].via \in {Absent, g.col}}}
      <4>. HIDE DEF path, line
      <4>. QED BY <1>13, <2>1
    <3>. HIDE DEF path, line
    <3>. QED BY <3>1 DEF HopColumns
  <2>5. line[k].table = nodes[path[k]].tag /\ line[k + 1].table = nodes[path[k + 1]].tag
    <3>. HIDE DEF path, line
    <3>. QED BY <1>13, <2>1
  <2>6. nodes[path[k]].tag # "users"
    <3>1. CASE k = 1
      BY <1>2, <1>4, <1>5, <3>1 DEF IdentityTables
    <3>2. CASE k # 1
      <4>1. k \in 2..(T - 1)
        <5>. HIDE DEF T
        <5>. QED BY <3>2
      <4>. QED BY <1>9, <4>1
    <3>. QED BY <3>1, <3>2
  <2>. HIDE DEF walk, line, Cols
  <2>. QED BY <2>2, <2>3, <2>4, <2>5, <2>6
<1>15. T - 1 \in Nat \ {0} /\ 1 \in 1..(T - 1) /\ T \in 1..Len(path)
  <2>. HIDE DEF path, T
  <2>. QED BY <1>5, <1>9
<1>16. walk \in Seq({walk[k] : k \in DOMAIN walk}) /\ Len(walk) = T - 1
  <2>1. DOMAIN walk = 1..(T - 1) /\ walk = [k \in 1..(T - 1) |-> walk[k]]
    <3>. HIDE DEF path, T, Column
    <3>. QED BY <1>11
  <2>. HIDE DEF walk, T
  <2>. QED BY <1>15, <2>1
<1>17. Len(line) = Len(path) /\ line[T].table = "users"
  <2>1. line = [k \in 1..Len(path) |-> line[k]] /\ line[T].table = nodes[path[T]].tag
    <3>. HIDE DEF path, T, line
    <3>. QED BY <1>13, <1>15
  <2>. HIDE DEF path, line, T
  <2>. QED BY <1>5, <1>9, <2>1
<1>18. walk[1].child = t /\ walk[1].parent \in DOMAIN Resolve(a)
  <2>1. walk[1].child = nodes[path[1]].tag /\ walk[1].parent = nodes[path[2]].tag
    <3>. HIDE DEF path, T, Column
    <3>. QED BY <1>11, <1>15
  <2>2. path[2] \in 1..N
    <3>. HIDE DEF path, T
    <3>. QED BY <1>5, <1>9, ElementOfSeq
  <2>3. nodes[path[2]].tag \in DOMAIN Resolve(a)
    <3>. HIDE DEF path
    <3>. QED BY <1>1, <2>2 DEF Resolve, Tables
  <2>. QED BY <1>4, <1>5, <2>1, <2>3
<1>19. \E f \in Resolve(a)[t].keys : f.col = walk[1].column /\ f.parent = walk[1].parent
  <2>0. Hop(1).parent = walk[1].parent
    <3>1. \A k \in 1..(T - 1) : walk[k].parent = nodes[path[k + 1]].tag
      <4>. HIDE DEF path, T, walk, Column
      <4>. QED BY <1>11
    <3>. HIDE DEF path, T, walk
    <3>. QED BY <1>15, <3>1
  <2>1. walk[1].column \in Cols(1) /\ walk[1].child = t /\ Hop(1).child = t
    <3>1. walk[1].column = CHOOSE c \in Cols(1) : TRUE
      <4>1. \A k \in 1..(T - 1) : walk[k].column = Column(Hop(k))
        <5>. HIDE DEF path, T, walk, Column
        <5>. QED BY <1>11
      <4>2. walk[1].column = Column(Hop(1))
        <5>. HIDE DEF path, T, walk, Column
        <5>. QED BY <1>15, <4>1
      <4>. HIDE DEF walk, path
      <4>. QED BY <4>2
    <3>2. \E c : Cols(1) = {c}
      <4>. HIDE DEF Cols, T
      <4>. QED BY <1>12, <1>15
    <3>. HIDE DEF walk, Cols, path
    <3>. QED BY <1>4, <1>5, <1>18, <3>1, <3>2 DEF Cols
  <2>2. Resolve(a)[t].keys = {f \in a.fks : f.child = t}
    BY <1>2 DEF Resolve
  <2>. DEFINE hop == Hop(1)
  <2>3. hop.child = t /\ hop.parent = walk[1].parent /\ walk[1].column \in HopColumns(a, hop)
    BY <2>0, <2>1
  <2>. HIDE DEF hop, walk
  <2>. QED BY <2>2, <2>3 DEF HopColumns
<1>. HIDE DEF path, T
<1>20. Len(walk) + 1 = T /\ Len(line) > Len(walk) /\ Len(line) \in Nat /\ Len(walk) \in Nat \ {0}
  <2>. HIDE DEF walk, line
  <2>. QED BY <1>5, <1>15, <1>16, <1>17, <1>9
<1>21. \A k \in 1..Len(walk) :
            /\ walk[k].child # "users" /\ line[k].table = walk[k].child
            /\ line[k].cols = {walk[k].column} /\ line[k + 1].table = walk[k].parent
  <2>. HIDE DEF walk, line
  <2>. QED BY <1>14, <1>16
<1>22. line[Len(walk) + 1].table = "users"
  BY <1>17, <1>20
<1>. QED BY <1>16, <1>18, <1>19, <1>20, <1>21, <1>22 DEF OnLine

LEMMA StartSettles ==
  ASSUME NEW a, Proper(a), ComesUp(a), NEW t \in Tables(a)
  PROVE  Settled(Resolve(a), t)
<1>. DEFINE R == Resolve(a)[t]
            nodes == a.nodes
            at == {j \in Ruled(nodes) : nodes[j].tag = t}
            i == CHOOSE j \in at : TRUE
<1>1. /\ R.read = RulesFor(a, t).read /\ R.write = RulesFor(a, t).write
      /\ R.walk = IF t \in OwnerRuled(a) THEN Walk(a, t) ELSE <<>>
      /\ R.stamp = IF t \in InsertTables(a) THEN Stamp(a, t) ELSE Absent
      /\ R.inserts = IF t \in InsertTables(a) THEN a.inserts[t] ELSE {}
      /\ R.keys = {f \in a.fks : f.child = t} /\ R.line = Line(a, t)
  BY DEF Resolve
<1>2. \A f \in R.keys : f.child = t /\ f.col # Absent
  BY <1>1 DEF Proper
<1>3. at # {} => i \in Ruled(nodes) /\ i \in DOMAIN nodes /\ nodes[i].tag = t
  BY DEF Ruled
<1>4. CASE t \in IdentityTables
  <2>1. at = {}
    BY <1>3, <1>4 DEF ComesUp, LoadError
  <2>2. R.line = <<>>
    BY <1>1, <2>1 DEF Line
  <2>3. t \notin OwnerRuled(a)
    BY <1>4 DEF OwnerRuled
  <2>4. R.read = "owner" /\ R.write = "none" /\ R.walk = <<>>
    BY <1>1, <1>4, <2>3 DEF RulesFor
  <2>. HIDE DEF R
  <2>. QED BY <1>2, <1>4, <2>2, <2>4 DEF Settled, R
<1>5. CASE t \notin IdentityTables
  <2>1. R.read = PermissionOf(a, t).read /\ R.write = PermissionOf(a, t).write
    BY <1>1, <1>5 DEF RulesFor
  <2>2. /\ at = {} => R.read = "users" /\ R.write = "users"
        /\ at # {} => R.read = Or(nodes[i].read, "users") /\ R.write = Or(nodes[i].write, "users")
    BY <2>1 DEF PermissionOf
  <2>3. R.read \in {"public", "users", "owner"} /\ R.write \in {"users", "owner", "none"}
    <3>1. at # {} => /\ nodes[i].read \in {"public", "users", "owner", Absent}
                     /\ nodes[i].write \in {"users", "owner", "none", Absent}
      <4>. HIDE DEF i
      <4>. QED BY <1>3 DEF Proper
    <3>. HIDE DEF R, at, i
    <3>. QED BY <2>2, <3>1 DEF Or
  <2>4. "owner" \in {R.read, R.write} => t \in OwnerRuled(a)
    <3>1. "owner" \in {R.read, R.write} => at # {}
      <4>. HIDE DEF R, at
      <4>. QED BY <2>2
    <3>. HIDE DEF R, at, i
    <3>. QED BY <1>3, <1>5, <2>1, <3>1 DEF OwnerRuled
  <2>5. /\ R.walk # <<>> => t \in OwnerRuled(a)
        /\ t \in OwnerRuled(a) => OnLine(Resolve(a), t) /\ R.walk # <<>> /\ R.walk = Walk(a, t)
    <3>1. t \in OwnerRuled(a) => OnLine(Resolve(a), t)
      BY WalkIsOnLine
    <3>2. OnLine(Resolve(a), t) => R.walk # <<>>
      <4>1. OnLine(Resolve(a), t) => Len(R.walk) # 0
        BY DEF OnLine
      <4>. HIDE DEF R
      <4>. QED BY <4>1
    <3>. HIDE DEF R
    <3>. QED BY <1>1, <3>1, <3>2
  <2>6. ASSUME R.inserts # {}, R.write = "owner", R.stamp = Absent
        PROVE  R.walk[1].column \in R.inserts /\ R.walk[1].parent # "users"
    <3>1. t \in InsertTables(a)
      <4>. HIDE DEF R
      <4>. QED BY <1>1, <2>6
    <3>2. ~BornDead(a, t)
      BY <3>1 DEF ComesUp, InsertError
    <3>3. Stamp(a, t) = Absent /\ PermissionOf(a, t).write = "owner" /\ R.inserts = a.inserts[t]
      <4>. HIDE DEF R
      <4>. QED BY <1>1, <2>1, <2>6, <3>1
    <3>4. R.walk[1].column \in R.inserts
      <4>. HIDE DEF R
      <4>. QED BY <2>1, <2>4, <2>5, <2>6, <3>2, <3>3 DEF BornDead
    <3>5. PICK f \in R.keys : f.col = R.walk[1].column /\ f.parent = R.walk[1].parent
      <4>1. OnLine(Resolve(a), t)
        <5>. HIDE DEF R
        <5>. QED BY <2>4, <2>5, <2>6
      <4>. QED BY <4>1 DEF OnLine
    <3>6. f.parent = "users" => f.col \in StampColumns(a, t)
      <4>. HIDE DEF R
      <4>. QED BY <1>1, <3>5 DEF StampColumns
    <3>7. StampColumns(a, t) = {} \/ Stamp(a, t) \in StampColumns(a, t)
      BY DEF Stamp
    <3>8. Absent \notin StampColumns(a, t)
      BY DEF Proper, StampColumns
    <3>. HIDE DEF R
    <3>. QED BY <3>3, <3>4, <3>5, <3>6, <3>7, <3>8
  <2>. HIDE DEF R
  <2>. QED BY <1>2, <1>5, <2>3, <2>4, <2>5, <2>6 DEF Settled, R
<1>. QED BY <1>4, <1>5


-----------------------------------------------------------------------------
(* Whom a row belongs to: the server's walk and the graph agree.           *)

\* The ids a climb goes through; and the owners a line leads to, level by
\* level, up to its nearest users table, N levels up.
Climbs(g, rows, walk, id) ==
  /\ g[0] = id
  /\ \A k \in 1..Len(walk) : g[k] = Up(rows, <<walk[k].child, g[k - 1]>>, walk[k].column)
  /\ Climbed(rows, walk, id) = g[Len(walk)]
ClimbsLine(g, rows, line, id, N) ==
  /\ g[0] = {id}
  /\ \A k \in 1..N : g[k] = Above(rows, g[k - 1], line[k])
  /\ LedTo(rows, line, id) = g[N]

LEMMA ClimbUnrolls ==
  ASSUME NEW rows, NEW walk, NEW id, Len(walk) \in Nat
  PROVE  \E g : Climbs(g, rows, walk, id)
<1>. DEFINE N == Len(walk)
            Unrolled(g, m) == g = [k \in 0..m |-> IF k = 0 THEN id ELSE Up(rows, <<walk[k].child, g[k - 1]>>, walk[k].column)]
            Good == {m \in 0..N : \E g : Unrolled(g, m)}
<1>0. N \in Nat
  OBVIOUS
<1>. HIDE DEF N
<1>1. 0 \in Good
  <2>1. Unrolled([k \in 0..0 |-> id], 0)
    BY <1>0
  <2>. HIDE DEF Unrolled
  <2>2. (\E g : Unrolled(g, 0)) /\ 0 \in 0..N
    BY <1>0, <2>1
  <2>. QED BY <2>2
<1>2. ASSUME NEW b \in 1..N, b - 1 \in Good PROVE b \in Good
  <2>1. PICK g : Unrolled(g, b - 1)
    BY <1>2
  <2>. DEFINE h == [k \in 0..b |-> IF k = b THEN Up(rows, <<walk[b].child, g[b - 1]>>, walk[b].column) ELSE g[k]]
  <2>2. ASSUME NEW k \in 0..b
        PROVE  h[k] = IF k = 0 THEN id ELSE Up(rows, <<walk[k].child, h[k - 1]>>, walk[k].column)
    <3>1. CASE k = b
      BY <3>1
    <3>2. CASE k # b
      <4>1. k \in 0..(b - 1) /\ h[k] = g[k] /\ (k # 0 => k - 1 \in 0..b /\ k - 1 # b /\ h[k - 1] = g[k - 1])
        BY <3>2
      <4>2. g[k] = IF k = 0 THEN id ELSE Up(rows, <<walk[k].child, g[k - 1]>>, walk[k].column)
        BY <2>1, <4>1
      <4>. QED BY <4>1, <4>2
    <3>. QED BY <3>1, <3>2
  <2>3. Unrolled(h, b)
    BY <2>2
  <2>. HIDE DEF Unrolled, h
  <2>4. \E k : Unrolled(k, b)
    BY <2>3
  <2>. QED BY <2>4
<1>3. N \in Good
  <2>1. \A b \in 1..N : b - 1 \in Good => b \in Good
    BY <1>2
  <2>. HIDE DEF Good
  <2>2. \A n \in 0..N : n \in Good
    BY <1>0, <1>1, <2>1, Climb
  <2>. QED BY <1>0, <2>2
<1>. DEFINE f == CHOOSE g : Unrolled(g, N)
<1>4. Unrolled(f, N)
  BY <1>3
<1>5. Climbed(rows, walk, id) = f[N]
  BY DEF Climbed, N
<1>. HIDE DEF f
<1>6. f[0] = id /\ \A k \in 1..N : f[k] = Up(rows, <<walk[k].child, f[k - 1]>>, walk[k].column)
  BY <1>0, <1>4
<1>7. Climbs(f, rows, walk, id)
  BY <1>5, <1>6 DEF Climbs, N
<1>. QED BY <1>7

LEMMA LedUnrolls ==
  ASSUME NEW rows, NEW line, NEW id, NEW N \in Nat \ {0},
         Len(line) \in Nat, N < Len(line), line[N + 1].table = "users",
         \A k \in 2..N : line[k].table # "users"
  PROVE  \E g : ClimbsLine(g, rows, line, id, N)
<1>. DEFINE tops == {k \in 2..Len(line) : line[k].table = "users"}
            top == CHOOSE t \in tops : \A s \in tops : t <= s
            Unrolled(g, m) == g = [k \in 0..m |-> IF k = 0 THEN {id} ELSE Above(rows, g[k - 1], line[k])]
            Good == {m \in 0..N : \E g : Unrolled(g, m)}
<1>0. tops # {} /\ top = N + 1
  <2>1. N + 1 \in tops /\ \A s \in tops : N + 1 <= s
    OBVIOUS
  <2>2. \A s \in tops : s \in Nat
    OBVIOUS
  <2>. HIDE DEF tops
  <2>3. top \in tops /\ \A s \in tops : top <= s
    BY <2>1
  <2>. HIDE DEF top
  <2>. QED BY <2>1, <2>2, <2>3
<1>1. 0 \in Good
  <2>1. Unrolled([k \in 0..0 |-> {id}], 0)
    OBVIOUS
  <2>. HIDE DEF Unrolled
  <2>2. \E g : Unrolled(g, 0)
    BY <2>1
  <2>. QED BY <2>2
<1>2. ASSUME NEW b \in 1..N, b - 1 \in Good PROVE b \in Good
  <2>1. PICK g : Unrolled(g, b - 1)
    BY <1>2
  <2>. DEFINE h == [k \in 0..b |-> IF k = b THEN Above(rows, g[b - 1], line[b]) ELSE g[k]]
  <2>2. ASSUME NEW k \in 0..b
        PROVE  h[k] = IF k = 0 THEN {id} ELSE Above(rows, h[k - 1], line[k])
    <3>1. CASE k = b
      BY <3>1
    <3>2. CASE k # b
      <4>1. k \in 0..(b - 1) /\ h[k] = g[k] /\ (k # 0 => k - 1 \in 0..b /\ k - 1 # b /\ h[k - 1] = g[k - 1])
        BY <3>2
      <4>2. g[k] = IF k = 0 THEN {id} ELSE Above(rows, g[k - 1], line[k])
        BY <2>1, <4>1
      <4>. QED BY <4>1, <4>2
    <3>. QED BY <3>1, <3>2
  <2>3. Unrolled(h, b)
    BY <2>2
  <2>. HIDE DEF Unrolled, h
  <2>4. \E k : Unrolled(k, b)
    BY <2>3
  <2>. QED BY <2>4
<1>3. N \in Good
  <2>1. \A b \in 1..N : b - 1 \in Good => b \in Good
    BY <1>2
  <2>. HIDE DEF Good
  <2>2. \A n \in 0..N : n \in Good
    BY <1>1, <2>1, Climb
  <2>. QED BY <2>2
<1>. DEFINE f == CHOOSE g : Unrolled(g, top - 1)
<1>4. Unrolled(f, N)
  <2>. HIDE DEF top
  <2>1. top - 1 = N
    BY <1>0
  <2>. HIDE DEF Unrolled
  <2>. QED BY <1>3, <2>1
<1>5. LedTo(rows, line, id) = f[top - 1]
  BY <1>0 DEF LedTo
<1>. HIDE DEF f, top
<1>6. f[0] = {id} /\ \A k \in 1..N : f[k] = Above(rows, f[k - 1], line[k])
  <2>1. \A k \in 0..N : f[k] = IF k = 0 THEN {id} ELSE Above(rows, f[k - 1], line[k])
    BY <1>4, Zenon
  <2>2. 0 \in 0..N /\ \A k \in 1..N : k \in 0..N /\ k # 0
    OBVIOUS
  <2>. QED BY <2>1, <2>2, Zenon
<1>7. LedTo(rows, line, id) = f[N]
  BY <1>0, <1>5
<1>8. ClimbsLine(f, rows, line, id, N)
  BY <1>6, <1>7 DEF ClimbsLine
<1>. QED BY <1>8

\* A row is named by its table and an id, and no row has the id Nobody; then
\* one column leads from one id to one id.
Named(rows) == \A key \in DOMAIN rows : key = <<key[1], key[2]>> /\ key[2] # Nobody

LEMMA AboveIsUp ==
  ASSUME NEW rows, Named(rows), NEW edge, NEW column, edge.cols = {column},
         NEW ids, NEW id, ids \ {Nobody} = {id} \ {Nobody}
  PROVE  Above(rows, ids, edge) \ {Nobody} = {Up(rows, <<edge.table, id>>, column)} \ {Nobody}
<1>. DEFINE A == Above(rows, ids, edge)
            u == Up(rows, <<edge.table, id>>, column)
<1>1. \A y : <<edge.table, y>> \in DOMAIN rows => y # Nobody
  BY DEF Named
<1>2. \A z : z \in A <=> \E x \in ids : <<edge.table, x>> \in DOMAIN rows
                                        /\ z = rows[<<edge.table, x>>].fk[column]
  BY DEF Above
<1>3. u = IF <<edge.table, id>> \in DOMAIN rows THEN rows[<<edge.table, id>>].fk[column] ELSE Nobody
  BY DEF Up
<1>. HIDE DEF A, u
<1>4. ASSUME NEW z \in A, z # Nobody PROVE z = u
  <2>1. PICK x \in ids : <<edge.table, x>> \in DOMAIN rows /\ z = rows[<<edge.table, x>>].fk[column]
    BY <1>2, <1>4
  <2>2. x = id
    BY <1>1, <2>1
  <2>. QED BY <1>3, <2>1, <2>2
<1>5. ASSUME u # Nobody PROVE u \in A
  <2>1. <<edge.table, id>> \in DOMAIN rows /\ u = rows[<<edge.table, id>>].fk[column]
    BY <1>3, <1>5
  <2>2. id \in ids
    BY <1>1, <2>1
  <2>. QED BY <1>2, <2>1, <2>2
<1>6. A \ {Nobody} = {u} \ {Nobody}
  BY <1>4, <1>5
<1>. QED BY <1>6 DEF A, u

LEMMA LedIsClimbed ==
  ASSUME NEW rows, Named(rows), NEW rules, NEW t, OnLine(rules, t), NEW id
  PROVE  LedTo(rows, rules[t].line, id) \ {Nobody} = {Climbed(rows, rules[t].walk, id)} \ {Nobody}
<1>. DEFINE walk == rules[t].walk
            line == rules[t].line
            N == Len(walk)
<1>1. /\ N \in Nat \ {0} /\ Len(line) \in Nat /\ N < Len(line) /\ line[N + 1].table = "users"
      /\ \A k \in 1..N : walk[k].child # "users" /\ line[k].table = walk[k].child
                         /\ line[k].cols = {walk[k].column}
  BY DEF OnLine
<1>. HIDE DEF walk, line, N
<1>2. \A k \in 2..N : line[k].table # "users"
  BY <1>1
<1>3. PICK g : Climbs(g, rows, walk, id)
  <2>1. Len(walk) \in Nat
    BY <1>1 DEF N
  <2>. QED BY <2>1, ClimbUnrolls
<1>4. PICK h : ClimbsLine(h, rows, line, id, N)
  <2>1. N \in Nat \ {0} /\ Len(line) \in Nat /\ N < Len(line) /\ line[N + 1].table = "users"
    BY <1>1
  <2>. QED BY <1>2, <2>1, LedUnrolls
<1>. DEFINE Alike == {k \in 0..N : h[k] \ {Nobody} = {g[k]} \ {Nobody}}
<1>5. 0 \in Alike
  BY <1>1, <1>3, <1>4 DEF Climbs, ClimbsLine
<1>6. ASSUME NEW k \in 1..N, k - 1 \in Alike PROVE k \in Alike
  <2>1. h[k - 1] \ {Nobody} = {g[k - 1]} \ {Nobody} /\ k \in 0..N
    BY <1>6
  <2>2. line[k].table = walk[k].child /\ line[k].cols = {walk[k].column}
    BY <1>1
  <2>3. Above(rows, h[k - 1], line[k]) \ {Nobody} =
          {Up(rows, <<line[k].table, g[k - 1]>>, walk[k].column)} \ {Nobody}
    BY <2>1, <2>2, AboveIsUp
  <2>4. g[k] = Up(rows, <<walk[k].child, g[k - 1]>>, walk[k].column)
    BY <1>3 DEF Climbs, N
  <2>5. h[k] = Above(rows, h[k - 1], line[k])
    BY <1>4 DEF ClimbsLine
  <2>. QED BY <2>1, <2>2, <2>3, <2>4, <2>5
<1>7. N \in Alike
  <2>1. \A k \in 1..N : k - 1 \in Alike => k \in Alike
    BY <1>6
  <2>. HIDE DEF Alike
  <2>2. \A k \in 0..N : k \in Alike
    BY <1>1, <1>5, <2>1, Climb
  <2>. QED BY <1>1, <2>2
<1>8. Climbed(rows, walk, id) = g[N] /\ LedTo(rows, line, id) = h[N]
  BY <1>3, <1>4 DEF Climbs, ClimbsLine, N
<1>. QED BY <1>7, <1>8 DEF walk, line

\* A climb is one step and the climb of the rest.
LEMMA ClimbsOnward ==
  ASSUME NEW rows, NEW S, NEW walk \in Seq(S), walk # <<>>, NEW id
  PROVE  Climbed(rows, walk, id) =
           Climbed(rows, Tail(walk), Up(rows, <<walk[1].child, id>>, walk[1].column))
<1>. DEFINE N == Len(walk)
            rest == Tail(walk)
            above == Up(rows, <<walk[1].child, id>>, walk[1].column)
<1>1. N \in Nat \ {0} /\ Len(rest) = N - 1 /\ \A k \in 1..(N - 1) : rest[k] = walk[k + 1]
  BY DropHead
<1>. HIDE DEF N, rest, above
<1>2. PICK g : Climbs(g, rows, walk, id)
  BY <1>1, ClimbUnrolls DEF N
<1>3. PICK h : Climbs(h, rows, rest, above)
  <2>1. Len(rest) \in Nat
    BY <1>1
  <2>. QED BY <2>1, ClimbUnrolls
<1>0. /\ g[0] = id /\ h[0] = above
      /\ \A k \in 1..N : g[k] = Up(rows, <<walk[k].child, g[k - 1]>>, walk[k].column)
      /\ \A k \in 1..(N - 1) : h[k] = Up(rows, <<rest[k].child, h[k - 1]>>, rest[k].column)
      /\ Climbed(rows, walk, id) = g[N] /\ Climbed(rows, rest, above) = h[N - 1]
  BY <1>1, <1>2, <1>3 DEF Climbs, N
<1>. DEFINE Same == {k \in 0..(N - 1) : h[k] = g[k + 1]}
<1>4. 0 \in Same
  <2>1. g[1] = above
    BY <1>0, <1>1 DEF above
  <2>. QED BY <1>0, <1>1, <2>1
<1>5. ASSUME NEW k \in 1..(N - 1), k - 1 \in Same PROVE k \in Same
  <2>1. h[k - 1] = g[k] /\ k + 1 \in 1..N /\ (k + 1) - 1 = k /\ k \in 0..(N - 1)
    BY <1>1, <1>5
  <2>2. rest[k] = walk[k + 1]
    BY <1>1
  <2>3. h[k] = Up(rows, <<rest[k].child, h[k - 1]>>, rest[k].column)
    BY <1>0
  <2>4. g[k + 1] = Up(rows, <<walk[k + 1].child, g[(k + 1) - 1]>>, walk[k + 1].column)
    BY <1>0, <2>1
  <2>5. h[k] = g[k + 1]
    BY <2>1, <2>2, <2>3, <2>4
  <2>. QED BY <2>1, <2>5
<1>6. N - 1 \in Same
  <2>1. \A k \in 1..(N - 1) : k - 1 \in Same => k \in Same
    BY <1>5
  <2>2. N - 1 \in Nat
    BY <1>1
  <2>. HIDE DEF Same
  <2>3. \A k \in 0..(N - 1) : k \in Same
    BY <1>4, <2>1, <2>2, Climb
  <2>. QED BY <2>2, <2>3
<1>. QED BY <1>0, <1>1, <1>6 DEF rest, above

\* A row more changes no climb that leads somewhere.
LEMMA ClimbStays ==
  ASSUME NEW rows, Named(rows), NEW more, DOMAIN rows \subseteq DOMAIN more,
         \A key \in DOMAIN rows : more[key] = rows[key],
         NEW walk, Len(walk) \in Nat, NEW id, Climbed(rows, walk, id) # Nobody
  PROVE  Climbed(more, walk, id) = Climbed(rows, walk, id)
<1>. DEFINE N == Len(walk)
<1>. HIDE DEF N
<1>0. PICK g : Climbs(g, rows, walk, id)
  BY ClimbUnrolls
<1>2. PICK h : Climbs(h, more, walk, id)
  BY ClimbUnrolls
<1>1. /\ g[0] = id /\ h[0] = id
      /\ \A k \in 1..N : g[k] = Up(rows, <<walk[k].child, g[k - 1]>>, walk[k].column)
      /\ \A k \in 1..N : h[k] = Up(more, <<walk[k].child, h[k - 1]>>, walk[k].column)
      /\ Climbed(rows, walk, id) = g[N] /\ Climbed(more, walk, id) = h[N]
  BY <1>0, <1>2 DEF Climbs, N
<1>. DEFINE Same == {k \in 0..N : g[k] # Nobody => h[k] = g[k]}
<1>3. 0 \in Same
  BY <1>1 DEF N
<1>4. ASSUME NEW k \in 1..N, k - 1 \in Same PROVE k \in Same
  <2>1. CASE g[k] # Nobody
    <3>. DEFINE key == <<walk[k].child, g[k - 1]>>
    <3>1. g[k] = Up(rows, key, walk[k].column) /\ key[2] = g[k - 1]
      BY <1>1
    <3>. HIDE DEF key
    <3>2. key \in DOMAIN rows /\ g[k] = rows[key].fk[walk[k].column]
      BY <2>1, <3>1 DEF Up
    <3>3. g[k - 1] # Nobody
      BY <3>1, <3>2 DEF Named
    <3>4. h[k - 1] = g[k - 1]
      BY <1>4, <3>3
    <3>5. h[k] = Up(more, key, walk[k].column)
      BY <1>1, <3>4 DEF key
    <3>6. h[k] = g[k]
      BY <3>2, <3>5 DEF Up
    <3>. QED BY <3>6
  <2>. QED BY <2>1
<1>5. N \in Same
  <2>1. \A k \in 1..N : k - 1 \in Same => k \in Same
    BY <1>4
  <2>. HIDE DEF Same
  <2>2. \A k \in 0..N : k \in Same
    BY <1>3, <2>1, Climb DEF N
  <2>. QED BY <2>2 DEF N
<1>. QED BY <1>1, <1>5
LEMMA OwnersAre ==
  ASSUME NEW rows, Named(rows), NEW t, Settled(resolved, t), NEW id, id # Nobody
  PROVE  /\ resolved[t].walk # <<>> \/ "owner" \in {resolved[t].read, resolved[t].write} =>
               Owners(rows, t, id) = {OwnerOf(rows, t, id)} \ {Nobody}
         /\ t # "users" /\ resolved[t].walk # <<>> =>
               OwnerOf(rows, t, id) = Climbed(rows, resolved[t].walk, id)
<1>1. CASE t = "users"
  BY <1>1 DEF Owners, OwnerOf, Settled, IdentityTables
<1>2. CASE t # "users" /\ resolved[t].walk = <<>>
  <2>1. OwnerOf(rows, t, id) = Nobody
    BY <1>2 DEF OwnerOf, Rules
  <2>2. ASSUME "owner" \in {resolved[t].read, resolved[t].write}
        PROVE  Owners(rows, t, id) = {}
    <3>1. resolved[t].line = <<>>
      BY <1>2, <2>2 DEF Settled
    <3>2. LedTo(rows, <<>>, id) = {}
      BY DEF LedTo
    <3>. QED BY <1>2, <3>1, <3>2 DEF Owners, Rules
  <2>. QED BY <1>2, <2>1, <2>2
<1>3. CASE t # "users" /\ resolved[t].walk # <<>>
  <2>1. OnLine(resolved, t)
    BY <1>3 DEF Settled
  <2>2. OwnerOf(rows, t, id) = Climbed(rows, resolved[t].walk, id)
    BY <1>3 DEF OwnerOf, Rules
  <2>3. Owners(rows, t, id) = LedTo(rows, resolved[t].line, id) \ {Nobody}
    BY <1>3 DEF Owners, Rules
  <2>. QED BY <2>1, <2>2, <2>3, LedIsClimbed
<1>. QED BY <1>1, <1>2, <1>3

-----------------------------------------------------------------------------
(* The inductive invariant.                                                *)

\* A request for an empty membership, which needs no row.
Empties(e) == e.type = "setMembers" /\ e.value = {}

\* What the handlers know of a request that waits for an answer.
Fields == {"type", "table", "id", "col", "value", "user", "row", "at", "owner", "moved"}
Entry(e) ==
  /\ DOMAIN e = Fields
  /\ e.id # Nobody /\ {e.user, e.owner} \subseteq Users \union {Nobody} /\ e.moved \in BOOLEAN
  /\ e.at \in {"walk", "exists", "read", "apply", "audience"} /\ ~Refused(e)
  /\ e.at \in {"walk", "exists"} => Walks(e) /\ e.owner = Nobody
  /\ e.at = "exists" => e.type = "delete"
  /\ e.at = "read" => Mode(e) = "read"
  /\ e.at \in {"apply", "audience"} => Mode(e) = "write"
  /\ e.at \in {"read", "apply", "audience"} /\ ~Walks(e) => e.owner = Nobody
  /\ e.at \in {"read", "apply"} /\ Walks(e) =>
        /\ e.owner = e.user
        /\ ~e.moved => Owners(db, Watched(e)[1], Watched(e)[2]) = {e.user}
  /\ e.at = "audience" => /\ ~Walks(e) /\ e.type # "insert" /\ Rules(e.table).read = "owner"
                          /\ <<e.table, e.id>> \in born \/ Empties(e)
Entries == \A i \in DOMAIN queue : Entry(queue[i])

\* What a step needs of an entry.
LEMMA EntryAt ==
  ASSUME NEW e, Entry(e)
  PROVE  /\ e.at \in {"walk", "exists", "read", "apply", "audience"}
         /\ {e.user, e.owner} \subseteq Users \union {Nobody} /\ e.id # Nobody
         /\ e.at = "audience" => /\ Rules(e.table).read = "owner" /\ ~Walks(e)
                                 /\ e.type # "insert" /\ Mode(e) = "write"
                                 /\ <<e.table, e.id>> \in born \/ Empties(e)
BY DEF Entry

\* What start-up settled stays, and the rows keep to the schema.
Resolved == up => \A t \in DOMAIN resolved : Settled(resolved, t)
RowsFit ==
  /\ Named(db) /\ DOMAIN db \subseteq born /\ db = [key \in DOMAIN db |-> db[key]]
  /\ \A key \in DOMAIN db : DOMAIN db[key] = {"fk", "val", "members"}
  /\ up => \A key \in DOMAIN db :
             /\ key[1] \in DOMAIN resolved
             /\ \A f \in Keys(key[1]) : f.col \in DOMAIN db[key].fk /\ Leads(db, f, db[key].fk[f.col])

\* The listener told everything gets from its rows to the database's by the
\* writes whose audience is still to be walked to, in the order of the queue.
Hears(h, q, first, last) ==
  /\ h[0] = first /\ h[Len(q)] = last
  /\ \A i \in 1..Len(q) :
        h[i] = IF q[i].at = "audience" THEN Told(h[i - 1], q[i]) ELSE h[i - 1]
MirrorHears == \E h : Hears(h, queue, mirror, db)

Queued ==
  /\ up \in BOOLEAN /\ asked \in 0..MaxRequests /\ Len(queue) <= asked
  /\ queue \in Seq({queue[i] : i \in DOMAIN queue}) /\ (~up => queue = <<>>)

IInv == Queued /\ Resolved /\ RowsFit /\ Entries /\ MirrorHears

\* At the start the rows are the given ones and nobody waits.
LEMMA InitIsInv == Init => IInv
<1>. SUFFICES ASSUME Init PROVE IInv
  OBVIOUS
<1>. USE DEF Init
<1>1. Queued
  BY AccessAssumption DEF Queued, ComesUp
<1>2. Resolved
  <2>. SUFFICES ASSUME up, NEW t \in DOMAIN resolved PROVE Settled(resolved, t)
    BY DEF Resolved
  <2>. DEFINE a == Apps[app]
  <2>1. Proper(a)
    BY AccessAssumption DEF Proper
  <2>2. ComesUp(a) /\ resolved = Resolve(a)
    OBVIOUS
  <2>3. t \in Tables(a)
    BY <2>2 DEF Resolve
  <2>. HIDE DEF a
  <2>. QED BY <2>1, <2>2, <2>3, StartSettles
<1>3. RowsFit
  <2>1. Named(db) /\ DOMAIN db \subseteq born /\ db = [key \in DOMAIN db |-> db[key]]
    BY AccessAssumption DEF Named
  <2>2. \A key \in DOMAIN db : DOMAIN db[key] = {"fk", "val", "members"}
    BY AccessAssumption
  <2>3. ASSUME up, NEW key \in DOMAIN db
        PROVE  /\ key[1] \in DOMAIN resolved
               /\ \A f \in Keys(key[1]) : f.col \in DOMAIN db[key].fk /\ Leads(db, f, db[key].fk[f.col])
    <3>1. key[1] \in Tables(Apps[app]) /\ resolved = Resolve(Apps[app])
      BY <2>3, AccessAssumption
    <3>2. key[1] \in DOMAIN resolved /\ Keys(key[1]) = {f \in Apps[app].fks : f.child = key[1]}
      BY <3>1 DEF Keys, Rules, Resolve
    <3>. QED BY <3>2, AccessAssumption
  <2>. QED BY <2>1, <2>2, <2>3 DEF RowsFit
<1>4. Entries
  BY DEF Entries
<1>5. MirrorHears
  <2>. DEFINE h == [i \in 0..0 |-> Start]
  <2>1. Hears(h, queue, mirror, db)
    BY DEF Hears
  <2>. HIDE DEF h
  <2>. QED BY <2>1 DEF MirrorHears
<1>. QED BY <1>1, <1>2, <1>3, <1>4, <1>5 DEF IInv
-----------------------------------------------------------------------------
(* The listener: what becomes of what it still has to hear.                *)

\* Requests that ask the same thing, and rows told the same way.
Alike(d, e) ==
  /\ d.type = e.type /\ d.table = e.table /\ d.id = e.id
  /\ d.col = e.col /\ d.value = e.value /\ d.user = e.user

LEMMA AlikeToldAlike ==
  ASSUME NEW d, NEW e, Alike(d, e), NEW rows, d.type # "insert"
  PROVE  Told(rows, d) = Told(rows, e)
<1>1. \A row : Written(row, d) = Written(row, e)
  BY DEF Written, Alike
<1>. QED BY <1>1 DEF Told, Alike

LEMMA BirthToldAlike ==
  ASSUME NEW d, NEW e, NEW rows, d.type = "insert", e.type = "insert",
         d.table = e.table, d.id = e.id, d.row = e.row
  PROVE  Told(rows, d) = Told(rows, e)
BY DEF Told

\* Writes to different rows may be told in either order.
LEMMA ToldApart ==
  ASSUME NEW d, NEW e, <<d.table, d.id>> # <<e.table, e.id>>, NEW rows
  PROVE  Told(Told(rows, d), e) = Told(Told(rows, e), d)
<1>. DEFINE k == <<d.table, d.id>>
            l == <<e.table, e.id>>
            p == Told(rows, d)
            q == Told(rows, e)
            pe == Told(p, e)
            qd == Told(q, d)
<1>1. k # l
  OBVIOUS
<1>2. ASSUME NEW r, NEW x, NEW key
      PROVE  /\ key \in DOMAIN Told(r, x) <=>
                    \/ key = <<x.table, x.id>> /\ x.type = "insert"
                    \/ key \in DOMAIN r /\ ~(key = <<x.table, x.id>> /\ x.type = "delete")
             /\ key \in DOMAIN Told(r, x) =>
                  Told(r, x)[key] = IF key = <<x.table, x.id>>
                                    THEN IF x.type = "insert" THEN x.row ELSE Written(r[key], x)
                                    ELSE r[key]
  <2>1. CASE x.type = "insert"
    BY <2>1 DEF Told
  <2>2. CASE x.type = "delete"
    BY <2>2 DEF Told
  <2>3. CASE x.type \notin {"insert", "delete"}
    BY <2>3 DEF Told
  <2>. QED BY <2>1, <2>2, <2>3
<1>3. ASSUME NEW key
      PROVE  /\ key \in DOMAIN pe <=> key \in DOMAIN qd
             /\ key \in DOMAIN pe => pe[key] = qd[key]
  <2>1. /\ key \in DOMAIN p <=> \/ key = k /\ d.type = "insert"
                                \/ key \in DOMAIN rows /\ ~(key = k /\ d.type = "delete")
        /\ key \in DOMAIN p => p[key] = IF key = k THEN IF d.type = "insert" THEN d.row ELSE Written(rows[key], d)
                                        ELSE rows[key]
    BY <1>2
  <2>2. /\ key \in DOMAIN q <=> \/ key = l /\ e.type = "insert"
                                \/ key \in DOMAIN rows /\ ~(key = l /\ e.type = "delete")
        /\ key \in DOMAIN q => q[key] = IF key = l THEN IF e.type = "insert" THEN e.row ELSE Written(rows[key], e)
                                        ELSE rows[key]
    BY <1>2
  <2>3. /\ key \in DOMAIN pe <=> \/ key = l /\ e.type = "insert"
                                 \/ key \in DOMAIN p /\ ~(key = l /\ e.type = "delete")
        /\ key \in DOMAIN pe => pe[key] = IF key = l THEN IF e.type = "insert" THEN e.row ELSE Written(p[key], e)
                                          ELSE p[key]
    BY <1>2
  <2>4. /\ key \in DOMAIN qd <=> \/ key = k /\ d.type = "insert"
                                 \/ key \in DOMAIN q /\ ~(key = k /\ d.type = "delete")
        /\ key \in DOMAIN qd => qd[key] = IF key = k THEN IF d.type = "insert" THEN d.row ELSE Written(q[key], d)
                                          ELSE q[key]
    BY <1>2
  <2>. HIDE DEF p, q, pe, qd, k, l
  <2>5. k # l
    BY <1>1
  <2>6. CASE key = k
    BY <2>1, <2>2, <2>3, <2>4, <2>5, <2>6
  <2>7. CASE key = l
    BY <2>1, <2>2, <2>3, <2>4, <2>5, <2>7
  <2>8. CASE key # k /\ key # l
    BY <2>1, <2>2, <2>3, <2>4, <2>8
  <2>. QED BY <2>6, <2>7, <2>8
<1>4. ASSUME NEW r, NEW x PROVE Told(r, x) = [key \in DOMAIN Told(r, x) |-> Told(r, x)[key]]
  BY DEF Told
<1>5. pe = [key \in DOMAIN pe |-> pe[key]] /\ qd = [key \in DOMAIN qd |-> qd[key]]
  BY <1>4
<1>. HIDE DEF pe, qd
<1>6. pe = qd
  BY <1>3, <1>5
<1>. QED BY <1>6 DEF pe, qd

\* A row may be born before or after its members are said to be none.
LEMMA ToldEmpty ==
  ASSUME NEW d, NEW e, Empties(d), e.type = "insert", <<d.table, d.id>> = <<e.table, e.id>>,
         DOMAIN e.row = {"fk", "val", "members"}, e.row.members = {},
         e.row = [x \in DOMAIN e.row |-> e.row[x]], NEW rows
  PROVE  Told(Told(rows, d), e) = Told(Told(rows, e), d)
<1>. DEFINE k == <<e.table, e.id>>
            p == Told(rows, d)
            q == Told(rows, e)
<1>1. q = [x \in DOMAIN rows \union {k} |-> IF x = k THEN e.row ELSE rows[x]]
  BY DEF Told
<1>2. p = [x \in DOMAIN rows |-> IF x = k THEN Written(rows[x], d) ELSE rows[x]]
  BY DEF Told, Empties
<1>3. Told(p, e) = [x \in DOMAIN p \union {k} |-> IF x = k THEN e.row ELSE p[x]]
  BY DEF Told
<1>4. Told(q, d) = [x \in DOMAIN q |-> IF x = k THEN Written(q[x], d) ELSE q[x]]
  BY DEF Told, Empties
<1>5. Written(e.row, d) = e.row
  <2>1. Written(e.row, d) = [e.row EXCEPT !.members = {}]
    BY DEF Written, Empties
  <2>. QED BY <2>1
<1>. HIDE DEF p, q, k
<1>6. Told(p, e) = Told(q, d)
  BY <1>1, <1>2, <1>3, <1>4, <1>5
<1>. QED BY <1>6 DEF p, q

\* The head leaves the queue; heard, if its audience was being walked to.
LEMMA HearsHead ==
  ASSUME NEW S, NEW q \in Seq(S), q # <<>>, NEW h, NEW first, NEW last, Hears(h, q, first, last)
  PROVE  \E g : Hears(g, Tail(q), IF Head(q).at = "audience" THEN Told(first, Head(q)) ELSE first, last)
<1>. DEFINE N == Len(q)
            g == [i \in 0..(N - 1) |-> h[i + 1]]
            start == IF Head(q).at = "audience" THEN Told(first, Head(q)) ELSE first
<1>1. /\ N \in Nat \ {0} /\ Head(q) = q[1] /\ Len(Tail(q)) = N - 1
      /\ \A i \in 1..(N - 1) : Tail(q)[i] = q[i + 1]
  BY DropHead
<1>2. /\ h[0] = first /\ h[N] = last
      /\ \A i \in 1..N : h[i] = IF q[i].at = "audience" THEN Told(h[i - 1], q[i]) ELSE h[i - 1]
  BY DEF Hears
<1>. HIDE DEF N
<1>3. g[0] = start
  BY <1>1, <1>2
<1>4. g[N - 1] = last
  BY <1>1, <1>2
<1>5. ASSUME NEW i \in 1..(N - 1)
      PROVE  g[i] = IF Tail(q)[i].at = "audience" THEN Told(g[i - 1], Tail(q)[i]) ELSE g[i - 1]
  <2>1. i + 1 \in 1..N /\ (i + 1) - 1 = i /\ i \in 0..(N - 1) /\ i - 1 \in 0..(N - 1) /\ (i - 1) + 1 = i
    BY <1>1
  <2>2. g[i] = h[i + 1] /\ g[i - 1] = h[i]
    BY <2>1
  <2>. HIDE DEF g
  <2>. QED BY <1>1, <1>2, <2>1, <2>2
<1>. HIDE DEF g, start
<1>6. Hears(g, Tail(q), start, last)
  BY <1>1, <1>3, <1>4, <1>5 DEF Hears
<1>7. \E x : Hears(x, Tail(q), start, last)
  BY <1>6
<1>. QED BY <1>7 DEF start

\* A request joins the queue; with its write already made, if it waits for
\* its audience.
LEMMA HearsPush ==
  ASSUME NEW S, NEW q \in Seq(S), NEW x \in S, NEW h, NEW first, NEW last, Hears(h, q, first, last)
  PROVE  \E g : Hears(g, Append(q, x), first, IF x.at = "audience" THEN Told(last, x) ELSE last)
<1>. DEFINE N == Len(q)
            end == IF x.at = "audience" THEN Told(last, x) ELSE last
            g == [i \in 0..(N + 1) |-> IF i = N + 1 THEN end ELSE h[i]]
            p == Append(q, x)
<1>1. N \in Nat /\ Len(p) = N + 1 /\ p[N + 1] = x /\ \A i \in 1..N : p[i] = q[i]
  BY Push
<1>2. /\ h[0] = first /\ h[N] = last
      /\ \A i \in 1..N : h[i] = IF q[i].at = "audience" THEN Told(h[i - 1], q[i]) ELSE h[i - 1]
  BY DEF Hears
<1>. HIDE DEF N, end, p
<1>3. g[0] = first /\ g[N] = last /\ g[N + 1] = end
  BY <1>1, <1>2
<1>4. ASSUME NEW i \in 1..(N + 1)
      PROVE  g[i] = IF p[i].at = "audience" THEN Told(g[i - 1], p[i]) ELSE g[i - 1]
  <2>1. CASE i = N + 1
    <3>1. i - 1 = N
      BY <1>1, <2>1
    <3>. HIDE DEF g
    <3>. QED BY <1>1, <1>3, <2>1, <3>1 DEF end
  <2>2. CASE i # N + 1
    <3>1. i \in 1..N
      BY <1>1, <2>2
    <3>2. g[i] = h[i] /\ g[i - 1] = h[i - 1]
      BY <1>1, <3>1
    <3>. HIDE DEF g
    <3>. QED BY <1>1, <1>2, <3>1, <3>2
  <2>. QED BY <2>1, <2>2
<1>. HIDE DEF g
<1>5. Hears(g, p, first, end)
  BY <1>1, <1>3, <1>4 DEF Hears
<1>6. \E y : Hears(y, p, first, end)
  BY <1>5
<1>. QED BY <1>6 DEF p, end

\* A write that is told at once may be told before those still to be heard, if
\* the order makes no difference to the rows; and marks on the requests change nothing.
LEMMA HearsAtOnce ==
  ASSUME NEW q, NEW h, NEW first, NEW last, Hears(h, q, first, last), Len(q) \in Nat, NEW r,
         \A i \in 1..Len(q) : q[i].at = "audience" =>
            \A rows : Told(Told(rows, q[i]), r) = Told(Told(rows, r), q[i])
  PROVE  \E g : Hears(g, q, Told(first, r), Told(last, r))
<1>. DEFINE g == [i \in 0..Len(q) |-> Told(h[i], r)]
<1>1. g[0] = Told(first, r) /\ g[Len(q)] = Told(last, r)
  BY DEF Hears
<1>2. ASSUME NEW i \in 1..Len(q)
      PROVE  g[i] = IF q[i].at = "audience" THEN Told(g[i - 1], q[i]) ELSE g[i - 1]
  <2>1. g[i] = Told(h[i], r) /\ g[i - 1] = Told(h[i - 1], r)
    OBVIOUS
  <2>2. h[i] = IF q[i].at = "audience" THEN Told(h[i - 1], q[i]) ELSE h[i - 1]
    BY DEF Hears
  <2>. HIDE DEF g
  <2>3. q[i].at = "audience" => Told(Told(h[i - 1], q[i]), r) = Told(Told(h[i - 1], r), q[i])
    OBVIOUS
  <2>. QED BY <2>1, <2>2, <2>3
<1>. HIDE DEF g
<1>3. Hears(g, q, Told(first, r), Told(last, r))
  BY <1>1, <1>2 DEF Hears
<1>. QED BY <1>3

LEMMA HearsAlike ==
  ASSUME NEW q, NEW p, Len(p) = Len(q), Len(q) \in Nat,
         \A i \in 1..Len(q) : /\ Alike(p[i], q[i]) /\ p[i].at = q[i].at
                              /\ q[i].at = "audience" => p[i].type # "insert",
         NEW h, NEW first, NEW last, Hears(h, q, first, last)
  PROVE  Hears(h, p, first, last)
<1>1. \A i \in 1..Len(q) : q[i].at = "audience" => Told(h[i - 1], p[i]) = Told(h[i - 1], q[i])
  BY AlikeToldAlike
<1>. QED BY <1>1 DEF Hears
-----------------------------------------------------------------------------
(* Requests: what a handler's step leaves of what is known of them.        *)

LEMMA Steady ==
  ASSUME resolved' = resolved, NEW e
  PROVE  /\ Refused(e)' = Refused(e) /\ Walks(e)' = Walks(e) /\ Watched(e)' = Watched(e)
         /\ \A t : Rules(t)' = Rules(t)
         /\ \A t, id : Owners(db, t, id)' = Owners(db', t, id)
<1>1. \A t : Rules(t)' = Rules(t)
  BY DEF Rules
<1>2. RuleOf(e)' = RuleOf(e) /\ Stamped(e)' = Stamped(e)
  BY <1>1 DEF RuleOf, Mode, Stamped
<1>3. Watched(e)' = Watched(e)
  BY <1>1 DEF Watched
<1>4. Walks(e)' = Walks(e)
  BY <1>2 DEF Walks
<1>5. Refused(e)' = Refused(e)
  BY <1>1, <1>2, <1>3 DEF Refused, Lists
<1>6. \A t, id : Owners(db, t, id)' = Owners(db', t, id)
  BY <1>1 DEF Owners
<1>. QED BY <1>1, <1>3, <1>4, <1>5, <1>6

LEMMA AskAlike ==
  ASSUME NEW d, NEW e, Alike(d, e)
  PROVE  Refused(d) = Refused(e) /\ Walks(d) = Walks(e) /\ Watched(d) = Watched(e) /\ Mode(d) = Mode(e)
<1>1. Mode(d) = Mode(e) /\ RuleOf(d) = RuleOf(e) /\ Stamped(d) = Stamped(e) /\ Lists(d) = Lists(e)
  BY DEF Alike, Mode, RuleOf, Stamped, Lists
<1>2. Watched(d) = Watched(e)
  BY DEF Alike, Watched
<1>3. Walks(d) = Walks(e)
  BY <1>1 DEF Alike, Walks
<1>. QED BY <1>1, <1>2, <1>3 DEF Alike, Refused

\* A request stays what it was, unless the row its guard looks at moved.
LEMMA EntryStays ==
  ASSUME NEW d, NEW e, Entry(e), resolved' = resolved, born \subseteq born',
         Alike(d, e), DOMAIN d = Fields, d.at = e.at, d.owner = e.owner, d.moved \in BOOLEAN,
         ~d.moved => ~e.moved /\ Owners(db', Watched(e)[1], Watched(e)[2])
                                  = Owners(db, Watched(e)[1], Watched(e)[2])
  PROVE  Entry(d)'
<1>1. Refused(d) = Refused(e) /\ Walks(d) = Walks(e) /\ Watched(d) = Watched(e) /\ Mode(d) = Mode(e)
  BY AskAlike
<1>2. /\ Refused(d)' = Refused(d) /\ Walks(d)' = Walks(d) /\ Watched(d)' = Watched(d)
      /\ \A t : Rules(t)' = Rules(t)
      /\ \A t, id : Owners(db, t, id)' = Owners(db', t, id)
  BY Steady
<1>3. Mode(d)' = Mode(d)
  BY DEF Mode
<1>. QED BY <1>1, <1>2, <1>3 DEF Entry, Alike, Empties
\* The queue after a step, from the requests left in it and the one that may
\* go to its end.
LEMMA QueueBecomes ==
  ASSUME NEW S, NEW p \in Seq(S), \A i \in 1..Len(p) : Entry(p[i])',
         NEW x, queue' = p \/ (queue' = Append(p, x) /\ Entry(x)')
  PROVE  /\ Entries' /\ queue' \in Seq({queue'[i] : i \in DOMAIN queue'})
         /\ Len(queue') \in Nat /\ Len(queue') <= Len(p) + 1
<1>1. Len(p) \in Nat /\ DOMAIN p = 1..Len(p)
  OBVIOUS
<1>2. PICK q : q = queue'
  OBVIOUS
<1>3. /\ q \in Seq({q[i] : i \in DOMAIN q}) /\ Len(q) \in Nat /\ Len(q) <= Len(p) + 1
      /\ \A i \in DOMAIN q : Entry(q[i])'
  <2>1. CASE q = p
    BY <1>1, <2>1
  <2>2. CASE q = Append(p, x) /\ Entry(x)'
    <3>1. p \in Seq(S \union {x}) /\ x \in S \union {x}
      OBVIOUS
    <3>2. /\ q \in Seq(S \union {x}) /\ Len(q) = Len(p) + 1
          /\ \A i \in 1..Len(p) : q[i] = p[i]
          /\ q[Len(p) + 1] = x
      BY <2>2, <3>1, Push
    <3>3. DOMAIN q = 1..(Len(p) + 1)
      BY <3>2
    <3>4. \A i \in DOMAIN q : i \in 1..Len(p) \/ i = Len(p) + 1
      BY <1>1, <3>3
    <3>5. \A i \in DOMAIN q : Entry(q[i])'
      BY <2>2, <3>2, <3>4
    <3>6. q \in Seq({q[i] : i \in DOMAIN q})
      BY <3>2
    <3>. QED BY <1>1, <3>2, <3>5, <3>6
  <2>. QED BY <1>2, <2>1, <2>2
<1>4. Entries'
  <2>. SUFFICES ASSUME NEW i \in DOMAIN queue' PROVE Entry(queue[i])'
    BY DEF Entries
  <2>1. PICK e : e = queue'[i]
    OBVIOUS
  <2>2. Entry(e)'
    BY <1>2, <1>3, <2>1
  <2>. QED BY <2>1, <2>2
<1>. QED BY <1>2, <1>3, <1>4
-----------------------------------------------------------------------------
(* Every step keeps the invariant.                                         *)

LEMMA HeadAndRest ==
  ASSUME IInv, queue # <<>>
  PROVE  /\ up /\ Entry(Head(queue)) /\ Head(queue).table \in DOMAIN resolved
         /\ Settled(resolved, Head(queue).table)
         /\ queue \in Seq({queue[i] : i \in DOMAIN queue})
         /\ Tail(queue) \in Seq({queue[i] : i \in DOMAIN queue})
         /\ Len(queue) \in Nat /\ Len(Tail(queue)) = Len(queue) - 1
         /\ \A i \in 1..(Len(queue) - 1) : Entry(Tail(queue)[i])
<1>1. queue \in Seq({queue[i] : i \in DOMAIN queue}) /\ up
  BY DEF IInv, Queued
<1>2. /\ Len(queue) \in Nat \ {0} /\ Head(queue) = queue[1]
      /\ Tail(queue) \in Seq({queue[i] : i \in DOMAIN queue}) /\ Len(Tail(queue)) = Len(queue) - 1
      /\ \A i \in 1..(Len(queue) - 1) : Tail(queue)[i] = queue[i + 1]
  BY <1>1, DropHead
<1>3. DOMAIN queue = 1..Len(queue)
  BY <1>1
<1>4. \A i \in 1..Len(queue) : Entry(queue[i])
  BY <1>3 DEF IInv, Entries
<1>5. Entry(Head(queue)) /\ \A i \in 1..(Len(queue) - 1) : Entry(Tail(queue)[i])
  BY <1>2, <1>4
<1>6. Head(queue).table \in DOMAIN resolved
  BY <1>5 DEF Entry, Refused
<1>. QED BY <1>1, <1>2, <1>5, <1>6 DEF IInv, Resolved

\* What may move on when the rows stay: the head leaves, or goes to the end.
LEMMA RowsStay ==
  ASSUME IInv, queue # <<>>, UNCHANGED <<app, up, resolved, db, born, asked>>,
         mirror' = IF Head(queue).at = "audience" THEN Told(mirror, Head(queue)) ELSE mirror,
         NEW x, \/ queue' = Tail(queue)
                \/ queue' = Append(Tail(queue), x) /\ Entry(x) /\ x.at # "audience"
  PROVE  IInv'
<1>. DEFINE S == {queue[i] : i \in DOMAIN queue} \union {x}
<1>1. PICK p : p = Tail(queue)
  OBVIOUS
<1>2. /\ up /\ p \in Seq({queue[i] : i \in DOMAIN queue}) /\ Len(queue) \in Nat
      /\ Len(p) = Len(queue) - 1 /\ \A i \in 1..Len(p) : Entry(p[i])
      /\ queue \in Seq({queue[i] : i \in DOMAIN queue})
  BY <1>1, HeadAndRest
<1>3. ASSUME NEW e, Entry(e) PROVE Entry(e)'
  <2>1. Alike(e, e) /\ DOMAIN e = Fields /\ e.moved \in BOOLEAN
    BY <1>3 DEF Alike, Entry
  <2>. QED BY <1>3, <2>1, EntryStays
<1>4. \A i \in 1..Len(p) : Entry(p[i])'
  BY <1>2, <1>3
<1>5. queue' = p \/ (queue' = Append(p, x) /\ Entry(x)')
  BY <1>1, <1>3
<1>6. /\ Entries' /\ queue' \in Seq({queue'[i] : i \in DOMAIN queue'})
      /\ Len(queue') \in Nat /\ Len(queue') <= Len(p) + 1
  BY <1>2, <1>4, <1>5, QueueBecomes
<1>7. Queued'
  <2>1. asked' \in 0..MaxRequests /\ up' \in BOOLEAN /\ up' /\ Len(queue) <= asked
    BY <1>2 DEF IInv, Queued
  <2>. QED BY <1>2, <1>6, <2>1, AccessAssumption DEF Queued
<1>8. Resolved' /\ RowsFit'
  <2>1. Resolved'
    BY DEF IInv, Resolved
  <2>2. RowsFit'
    BY DEF IInv, RowsFit, Keys, Rules
  <2>. QED BY <2>1, <2>2
<1>9. MirrorHears'
  <2>1. PICK h : Hears(h, queue, mirror, db)
    BY DEF IInv, MirrorHears
  <2>2. PICK g : Hears(g, p, mirror', db)
    BY <1>1, <1>2, <2>1, HearsHead
  <2>3. CASE queue' = p
    BY <2>2, <2>3 DEF MirrorHears
  <2>4. CASE queue' = Append(p, x) /\ x.at # "audience"
    <3>1. p \in Seq(S) /\ x \in S
      BY <1>2
    <3>. HIDE DEF S
    <3>2. \E f : Hears(f, Append(p, x), mirror', db)
      BY <2>2, <2>4, <3>1, HearsPush
    <3>. QED BY <2>4, <3>2 DEF MirrorHears
  <2>. QED BY <1>1, <2>3, <2>4
<1>. QED BY <1>6, <1>7, <1>8, <1>9 DEF IInv
LEMMA ArriveKeeps ==
  ASSUME IInv, NEW r \in Requests, Arrive(r)
  PROVE  IInv'
<1>. DEFINE req == [type |-> r.type, table |-> r.table, id |-> r.id, col |-> r.col,
                    value |-> r.value, user |-> r.user, row |-> Absent, at |-> First(r),
                    owner |-> Nobody, moved |-> FALSE]
            S == {queue[i] : i \in DOMAIN queue} \union {req}
<1>1. /\ up /\ asked < MaxRequests /\ asked' = asked + 1
      /\ UNCHANGED <<app, up, resolved, db, born, mirror>>
      /\ queue' = queue \/ (queue' = Append(queue, req) /\ ~Refused(r))
  BY DEF Arrive
<1>2. PICK p : p = queue
  OBVIOUS
<1>3. /\ p \in Seq({queue[i] : i \in DOMAIN queue}) /\ Len(p) \in Nat /\ Len(p) <= asked
      /\ \A i \in 1..Len(p) : Entry(p[i])
  BY <1>2 DEF IInv, Queued, Entries
<1>4. ASSUME NEW e, Entry(e) PROVE Entry(e)'
  <2>1. Alike(e, e) /\ DOMAIN e = Fields /\ e.moved \in BOOLEAN
    BY <1>4 DEF Alike, Entry
  <2>. QED BY <1>1, <1>4, <2>1, EntryStays
<1>5. PICK x : x = req
  OBVIOUS
<1>6. ~Refused(r) => Entry(x) /\ x.at # "audience"
  <2>. SUFFICES ASSUME ~Refused(r) PROVE Entry(x) /\ x.at # "audience"
    OBVIOUS
  <2>1. /\ DOMAIN x = Fields /\ Alike(x, r) /\ x.at = First(r) /\ x.owner = Nobody /\ x.id = r.id
        /\ x.user = r.user /\ x.moved = FALSE
    BY <1>5 DEF Fields, Alike
  <2>2. Refused(x) = Refused(r) /\ Walks(x) = Walks(r) /\ Mode(x) = Mode(r)
    BY <2>1, AskAlike
  <2>3. First(r) = IF Walks(x) THEN "walk" ELSE IF Mode(x) = "read" THEN "read" ELSE "apply"
    BY <2>2 DEF First
  <2>4. r.id # Nobody /\ r.user \in Users \union {Nobody}
    BY AccessAssumption
  <2>5. Mode(x) \in {"read", "write"}
    BY DEF Mode
  <2>. QED BY <2>1, <2>2, <2>3, <2>4, <2>5 DEF Entry
<1>. HIDE DEF req
<1>7. /\ Entries' /\ queue' \in Seq({queue'[i] : i \in DOMAIN queue'})
      /\ Len(queue') \in Nat /\ Len(queue') <= Len(p) + 1
  <2>1. \A i \in 1..Len(p) : Entry(p[i])'
    BY <1>3, <1>4
  <2>2. queue' = p \/ (queue' = Append(p, x) /\ Entry(x)')
    BY <1>1, <1>2, <1>4, <1>5, <1>6
  <2>. QED BY <1>3, <2>1, <2>2, QueueBecomes
<1>8. Queued'
  <2>1. asked' \in 0..MaxRequests /\ up' \in BOOLEAN /\ up'
    BY <1>1, AccessAssumption DEF IInv, Queued
  <2>2. Len(queue') <= asked'
    BY <1>1, <1>3, <1>7 DEF IInv, Queued
  <2>. QED BY <1>7, <2>1, <2>2 DEF Queued
<1>9. Resolved' /\ RowsFit'
  <2>1. Resolved'
    BY <1>1 DEF IInv, Resolved
  <2>2. RowsFit'
    BY <1>1 DEF IInv, RowsFit, Keys, Rules
  <2>. QED BY <2>1, <2>2
<1>10. MirrorHears'
  <2>1. PICK h : Hears(h, p, mirror, db)
    BY <1>2 DEF IInv, MirrorHears
  <2>2. CASE queue' = p
    BY <1>1, <2>1, <2>2 DEF MirrorHears
  <2>3. CASE queue' = Append(p, x) /\ x.at # "audience"
    <3>1. p \in Seq(S) /\ x \in S
      BY <1>3, <1>5
    <3>. HIDE DEF S
    <3>2. \E f : Hears(f, Append(p, x), mirror, db)
      BY <2>1, <2>3, <3>1, HearsPush
    <3>. QED BY <1>1, <2>3, <3>2 DEF MirrorHears
  <2>. QED BY <1>1, <1>2, <1>5, <1>6, <2>2, <2>3
<1>. QED BY <1>7, <1>8, <1>9, <1>10 DEF IInv
\* Whom the guard finds is whom the row belongs to.
LEMMA GuardFinds ==
  ASSUME IInv, up, NEW e, Entry(e), Walks(e), OwnerOf(db, Watched(e)[1], Watched(e)[2]) = e.user
  PROVE  e.user # Nobody /\ Owners(db, Watched(e)[1], Watched(e)[2]) = {e.user}
<1>. DEFINE t == Watched(e)[1]
            id == Watched(e)[2]
<1>1. e.user # Nobody /\ RuleOf(e) = "owner" /\ e.table \in DOMAIN resolved /\ e.id # Nobody
  BY DEF Entry, Refused, Walks
<1>2. Settled(resolved, e.table) /\ \A s \in DOMAIN resolved : Settled(resolved, s)
  BY <1>1 DEF IInv, Resolved
<1>3. Named(db)
  BY DEF IInv, RowsFit
<1>4. CASE e.type # "insert"
  <2>1. t = e.table /\ id = e.id
    BY <1>4 DEF Watched
  <2>2. "owner" \in {resolved[t].read, resolved[t].write}
    BY <1>1, <2>1 DEF RuleOf, Rules
  <2>3. Owners(db, t, id) = {OwnerOf(db, t, id)} \ {Nobody}
    BY <1>1, <1>2, <1>3, <2>1, <2>2, OwnersAre
  <2>. QED BY <1>1, <2>3
<1>5. CASE e.type = "insert"
  <2>1. id # Nobody
    BY <1>1, <1>5 DEF Entry, Refused, Walks
  <2>2. /\ Rules(e.table).walk # <<>> /\ t = Rules(e.table).walk[1].parent /\ id = e.value
    BY <1>5, <2>1 DEF Watched
  <2>3. t \in DOMAIN resolved
    BY <1>2, <2>2 DEF Settled, OnLine, Rules
  <2>4. resolved[t].walk # <<>> \/ "owner" \in {resolved[t].read, resolved[t].write}
    <3>1. t = "users" \/ resolved[t].walk # <<>>
      BY <1>1 DEF OwnerOf, Rules
    <3>2. t = "users" => resolved[t].read = "owner"
      BY <1>2, <2>3 DEF Settled, IdentityTables
    <3>. HIDE DEF t
    <3>. QED BY <3>1, <3>2
  <2>5. Owners(db, t, id) = {OwnerOf(db, t, id)} \ {Nobody}
    <3>. HIDE DEF t, id
    <3>. QED BY <1>2, <1>3, <2>1, <2>3, <2>4, OwnersAre
  <2>. QED BY <1>1, <2>5
<1>. QED BY <1>4, <1>5

LEMMA WalkGuardKeeps ==
  ASSUME IInv, WalkGuard
  PROVE  IInv'
<1>1. PICK e : e = Head(queue)
  OBVIOUS
<1>. DEFINE w == Watched(e)
            owner == OwnerOf(db, w[1], w[2])
            through == [e EXCEPT !.owner = owner, !.at = IF Mode(e) = "read" THEN "read" ELSE "apply"]
            missed == [e EXCEPT !.at = "exists"]
<1>2. /\ queue # <<>> /\ e.at = "walk"
      /\ UNCHANGED <<app, up, resolved, db, born, cast, mirror, asked>>
      /\ \/ owner = e.user /\ queue' = Append(Tail(queue), through)
         \/ e.type = "delete" /\ queue' = Append(Tail(queue), missed)
         \/ queue' = Tail(queue)
  BY <1>1 DEF WalkGuard, Head1, Proceed
<1>3. up /\ Entry(e)
  BY <1>1, <1>2, HeadAndRest
<1>4. /\ DOMAIN e = Fields /\ Walks(e) /\ e.owner = Nobody /\ ~Refused(e)
      /\ e.id # Nobody /\ e.user \in Users \union {Nobody} /\ e.moved \in BOOLEAN
  BY <1>2, <1>3 DEF Entry
<1>5. Mode(e) \in {"read", "write"}
  BY DEF Mode
<1>6. ASSUME owner = e.user PROVE Entry(through) /\ through.at # "audience"
  <2>1. e.user # Nobody /\ Owners(db, w[1], w[2]) = {e.user}
    BY <1>3, <1>4, <1>6, GuardFinds
  <2>2. PICK x : x = through
    OBVIOUS
  <2>3. /\ DOMAIN x = Fields /\ Alike(x, e) /\ x.owner = e.user /\ x.id = e.id /\ x.user = e.user
        /\ x.at = (IF Mode(e) = "read" THEN "read" ELSE "apply") /\ x.moved = e.moved
    <3>. HIDE DEF owner
    <3>. QED BY <1>4, <1>6, <2>2 DEF Fields, Alike
  <2>4. Refused(x) = Refused(e) /\ Walks(x) = Walks(e) /\ Watched(x) = Watched(e) /\ Mode(x) = Mode(e)
    BY <2>3, AskAlike
  <2>6. x.moved \in BOOLEAN /\ {x.user, x.owner} \subseteq Users \union {Nobody}
    BY <1>4, <2>3, Zenon
  <2>5. Entry(x)
    BY <1>4, <1>5, <2>1, <2>3, <2>4, <2>6 DEF Entry
  <2>. QED BY <2>2, <2>3, <2>5
<1>7. ASSUME e.type = "delete" PROVE Entry(missed) /\ missed.at # "audience"
  <2>1. PICK x : x = missed
    OBVIOUS
  <2>2. /\ DOMAIN x = Fields /\ Alike(x, e) /\ x.owner = Nobody /\ x.id = e.id /\ x.user = e.user
        /\ x.at = "exists" /\ x.type = "delete" /\ x.moved = e.moved
    BY <1>4, <1>7, <2>1 DEF Fields, Alike
  <2>3. Refused(x) = Refused(e) /\ Walks(x) = Walks(e)
    BY <2>2, AskAlike
  <2>5. x.moved \in BOOLEAN /\ {x.user, x.owner} \subseteq Users \union {Nobody}
    BY <1>4, <2>2, Zenon
  <2>4. Entry(x)
    BY <1>4, <2>2, <2>3, <2>5 DEF Entry
  <2>. QED BY <2>1, <2>2, <2>4
<1>8. mirror' = IF Head(queue).at = "audience" THEN Told(mirror, Head(queue)) ELSE mirror
  BY <1>1, <1>2
<1>9. \E x : \/ queue' = Tail(queue)
             \/ queue' = Append(Tail(queue), x) /\ Entry(x) /\ x.at # "audience"
  <2>. HIDE DEF through, missed, owner
  <2>. QED BY <1>2, <1>6, <1>7
<1>. QED BY <1>2, <1>8, <1>9, RowsStay

LEMMA LeavesKeeps ==
  ASSUME IInv, CheckExists \/ Read \/ WalkAudience
  PROVE  IInv'
<1>1. /\ queue # <<>> /\ queue' = Tail(queue)
      /\ UNCHANGED <<app, up, resolved, db, born, asked>>
      /\ mirror' = IF Head(queue).at = "audience" THEN Told(mirror, Head(queue)) ELSE mirror
  BY DEF CheckExists, Read, WalkAudience, Head1, Cast
<1>. QED BY <1>1, RowsStay
\* What a statement that took effect did.
LEMMA EffectIs ==
  ASSUME NEW e, DOMAIN e = Fields, db = [key \in DOMAIN db |-> db[key]],
         NEW r, r = WithRow(e), TookEffect(r)
  PROVE  /\ Alike(r, e) /\ DOMAIN r = Fields /\ r.at = e.at /\ r.owner = e.owner /\ r.moved = e.moved
         /\ After(r) = Told(db, r)
         /\ r.type = "insert" => <<r.table, r.id>> \notin born /\ KeyHolds(r) /\ r.row = Born(r)
         /\ r.type # "insert" => <<r.table, r.id>> \in DOMAIN db \/ Empties(r)
         /\ r.type \notin {"insert", "delete"} => KeyHolds(r)
         /\ r.type = "delete" => \A k \in DOMAIN db : \A f \in Keys(k[1]) :
                                   ~(f.parent = r.table /\ db[k].fk[f.col] = r.id)
<1>. DEFINE key == <<r.table, r.id>>
<1>1. /\ Alike(r, e) /\ DOMAIN r = Fields /\ r.at = e.at /\ r.owner = e.owner /\ r.moved = e.moved
      /\ r.type = "insert" => r.row = Born(e)
  BY DEF WithRow, Alike, Fields
<1>2. Born(r) = Born(e)
  BY <1>1 DEF Born, Alike
<1>3. CASE r.type = "insert"
  <2>1. KeyHolds(r) /\ key \notin born
    BY <1>3 DEF TookEffect, After
  <2>2. After(r) = Told(db, WithRow(r))
    BY <1>3, <2>1 DEF After
  <2>3. /\ WithRow(r).type = r.type /\ WithRow(r).table = r.table /\ WithRow(r).id = r.id
        /\ WithRow(r).row = r.row
    BY <1>1, <1>2, <1>3 DEF WithRow, Fields
  <2>4. Told(db, WithRow(r)) = Told(db, r)
    <3>1. PICK x : x = WithRow(r)
      OBVIOUS
    <3>. QED BY <1>3, <2>3, <3>1 DEF Told
  <2>. QED BY <1>1, <1>2, <1>3, <2>1, <2>2, <2>4
<1>4. CASE r.type = "delete"
  <2>1. After(r) # db
    BY <1>4 DEF TookEffect
  <2>2. /\ After(r) = Told(db, r)
        /\ \A k \in DOMAIN db : \A f \in Keys(k[1]) :
              ~(f.parent = r.table /\ db[k].fk[f.col] = r.id)
    BY <1>4, <2>1 DEF After
  <2>3. key \in DOMAIN db
    <3>1. key \notin DOMAIN db => DOMAIN db \ {key} = DOMAIN db
      OBVIOUS
    <3>2. Told(db, r) = [k \in DOMAIN db \ {key} |-> db[k]]
      BY <1>4 DEF Told
    <3>. QED BY <2>1, <2>2, <3>1, <3>2
  <2>. QED BY <1>1, <1>4, <2>2, <2>3
<1>5. CASE r.type \notin {"insert", "delete"}
  <2>1. /\ KeyHolds(r)
        /\ key \in DOMAIN db \/ Empties(r)
    BY <1>5 DEF TookEffect, KeyHolds, Empties
  <2>2. After(r) = IF key \in DOMAIN db THEN Told(db, r) ELSE db
    BY <1>5, <2>1 DEF After
  <2>3. key \notin DOMAIN db => Told(db, r) = db
    BY <1>5 DEF Told
  <2>. QED BY <1>1, <1>5, <2>1, <2>2, <2>3 DEF Empties
<1>. QED BY <1>3, <1>4, <1>5

\* The rows go on fitting the schema.
LEMMA RowsGoOnFitting ==
  ASSUME IInv, up, NEW e, Entry(e), NEW r, r = WithRow(e), TookEffect(r),
         db' = After(r), born' = born \union DOMAIN After(r), UNCHANGED <<up, resolved>>
  PROVE  RowsFit'
<1>. DEFINE key == <<r.table, r.id>>
            Fits(k, row) == \A f \in Keys(k[1]) : f.col \in DOMAIN row.fk /\ Leads(db', f, row.fk[f.col])
<1>1. /\ Named(db) /\ DOMAIN db \subseteq born /\ db = [k \in DOMAIN db |-> db[k]]
      /\ \A k \in DOMAIN db : DOMAIN db[k] = {"fk", "val", "members"}
      /\ \A k \in DOMAIN db :
           /\ k[1] \in DOMAIN resolved
           /\ \A f \in Keys(k[1]) : f.col \in DOMAIN db[k].fk /\ Leads(db, f, db[k].fk[f.col])
  BY DEF IInv, RowsFit
<1>2. DOMAIN e = Fields /\ e.id # Nobody /\ e.table \in DOMAIN resolved
  BY DEF Entry, Refused
<1>3. /\ Alike(r, e) /\ db' = Told(db, r)
      /\ r.type = "insert" => key \notin born /\ KeyHolds(r) /\ r.row = Born(r)
      /\ r.type \notin {"insert", "delete"} => KeyHolds(r)
      /\ r.type = "delete" => \A k \in DOMAIN db : \A f \in Keys(k[1]) :
                                ~(f.parent = r.table /\ db[k].fk[f.col] = r.id)
  BY <1>1, <1>2, EffectIs
<1>4. r.id # Nobody /\ r.table \in DOMAIN resolved /\ key[1] = r.table /\ key[2] = r.id
  BY <1>2, <1>3 DEF Alike
<1>5. \A f \in Keys(r.table) : f.child = r.table /\ f.col # Absent
  BY <1>4 DEF IInv, Resolved, Settled, Keys, Rules
<1>6. CASE r.type = "insert"
  <2>1. db' = [k \in DOMAIN db \union {key} |-> IF k = key THEN r.row ELSE db[k]]
    BY <1>3, <1>6 DEF Told
  <2>2. \A f, v : Leads(db, f, v) => Leads(db', f, v)
    BY <2>1 DEF Leads
  <2>3. DOMAIN r.row = {"fk", "val", "members"} /\ r.row.fk = Born(r).fk
    BY <1>3, <1>6 DEF Born
  <2>4. Fits(key, r.row)
    <3>1. \A f \in Keys(r.table) : f.col \in DOMAIN Born(r).fk
      BY DEF Born
    <3>2. \A f \in Keys(r.table) : Leads(db, f, Born(r).fk[f.col])
      BY <1>3, <1>6 DEF KeyHolds
    <3>. QED BY <1>4, <2>2, <2>3, <3>1, <3>2
  <2>5. \A k \in DOMAIN db : Fits(k, db[k])
    BY <1>1, <2>2
  <2>6. \A k \in DOMAIN db' : Fits(k, db'[k]) /\ DOMAIN db'[k] = {"fk", "val", "members"}
    <3>. HIDE DEF Fits, key
    <3>. QED BY <1>1, <2>1, <2>3, <2>4, <2>5
  <2>7. Named(db') /\ \A k \in DOMAIN db' : k[1] \in DOMAIN resolved
    <3>1. key = <<key[1], key[2]>>
      OBVIOUS
    <3>. HIDE DEF key
    <3>. QED BY <1>1, <1>4, <2>1, <3>1 DEF Named
  <2>. QED BY <2>1, <2>6, <2>7 DEF RowsFit, Keys, Rules
<1>7. CASE r.type = "delete"
  <2>1. db' = [k \in DOMAIN db \ {key} |-> db[k]]
    BY <1>3, <1>7 DEF Told
  <2>2. ASSUME NEW k \in DOMAIN db PROVE Fits(k, db[k])
    <3>. SUFFICES ASSUME NEW f \in Keys(k[1])
                  PROVE  f.col \in DOMAIN db[k].fk /\ Leads(db', f, db[k].fk[f.col])
      OBVIOUS
    <3>1. f.col \in DOMAIN db[k].fk /\ Leads(db, f, db[k].fk[f.col])
      BY <1>1
    <3>2. <<f.parent, db[k].fk[f.col]>> # key
      BY <1>3, <1>7
    <3>. HIDE DEF key
    <3>. QED BY <2>1, <3>1, <3>2 DEF Leads
  <2>3. \A k \in DOMAIN db' : k \in DOMAIN db /\ db'[k] = db[k]
    BY <2>1
  <2>4. \A k \in DOMAIN db' : Fits(k, db'[k]) /\ DOMAIN db'[k] = {"fk", "val", "members"}
    <3>. HIDE DEF Fits, key
    <3>. QED BY <1>1, <2>2, <2>3
  <2>5. Named(db') /\ \A k \in DOMAIN db' : k[1] \in DOMAIN resolved
    BY <1>1, <2>3 DEF Named
  <2>6. DOMAIN db' \subseteq born' /\ db' = [k \in DOMAIN db' |-> db'[k]]
    BY <1>1, <2>1
  <2>. QED BY <2>4, <2>5, <2>6 DEF RowsFit, Keys, Rules
<1>8. CASE r.type \notin {"insert", "delete"}
  <2>1. db' = [k \in DOMAIN db |-> IF k = key THEN Written(db[k], r) ELSE db[k]]
    BY <1>3, <1>8 DEF Told
  <2>2. \A f, v : Leads(db, f, v) => Leads(db', f, v)
    BY <2>1 DEF Leads
  <2>3. key \in DOMAIN db => DOMAIN Written(db[key], r) = {"fk", "val", "members"}
    <3>. SUFFICES ASSUME key \in DOMAIN db PROVE DOMAIN Written(db[key], r) = {"fk", "val", "members"}
      OBVIOUS
    <3>1. DOMAIN db[key] = {"fk", "val", "members"}
      BY <1>1, <1>3, <1>8
    <3>. QED BY <3>1 DEF Written
  <2>4. key \in DOMAIN db => Fits(key, Written(db[key], r))
    <3>. SUFFICES ASSUME key \in DOMAIN db PROVE Fits(key, Written(db[key], r))
      OBVIOUS
    <3>1. /\ DOMAIN db[key] = {"fk", "val", "members"}
          /\ \A f \in Keys(r.table) : f.col \in DOMAIN db[key].fk /\ Leads(db, f, db[key].fk[f.col])
      BY <1>1, <1>3, <1>4, <1>8
    <3>2. r.type # "setMembers" => \A f \in Keys(r.table) : f.col = r.col => Leads(db, f, r.value)
      BY <1>3, <1>8 DEF KeyHolds
    <3>3. \/ Written(db[key], r).fk = db[key].fk
          \/ /\ r.type # "setMembers"
             /\ Written(db[key], r).fk = [db[key].fk EXCEPT ![r.col] = r.value]
      BY <3>1 DEF Written
    <3>4. ASSUME NEW f \in Keys(r.table)
          PROVE  /\ f.col \in DOMAIN Written(db[key], r).fk
                 /\ Leads(db, f, Written(db[key], r).fk[f.col])
      BY <3>1, <3>2, <3>3
    <3>. QED BY <1>4, <2>2, <3>4
  <2>5. \A k \in DOMAIN db : Fits(k, db[k])
    BY <1>1, <2>2
  <2>6. \A k \in DOMAIN db' : Fits(k, db'[k]) /\ DOMAIN db'[k] = {"fk", "val", "members"}
    <3>. HIDE DEF Fits, key
    <3>. QED BY <1>1, <2>1, <2>3, <2>4, <2>5
  <2>7. Named(db') /\ \A k \in DOMAIN db' : k[1] \in DOMAIN resolved
    BY <1>1, <2>1 DEF Named
  <2>8. DOMAIN db' \subseteq born' /\ db' = [k \in DOMAIN db' |-> db'[k]]
    BY <1>1, <2>1
  <2>. QED BY <2>6, <2>7, <2>8 DEF RowsFit, Keys, Rules
<1>. QED BY <1>6, <1>7, <1>8
\* An accepted write: told at once, or once its audience has been walked to.
LEMMA AcceptedKeeps ==
  ASSUME IInv, queue # <<>>, NEW e, e = Head(queue), e.at = "apply",
         NEW r, r = WithRow(e), TookEffect(r),
         db' = After(r), born' = born \union DOMAIN After(r), UNCHANGED <<app, up, resolved, asked>>,
         NEW a, a = IF r.type = "delete" THEN r ELSE Moved(<<r>>, db')[1],
         Accepted(a, Moved(Tail(queue), db'))
  PROVE  IInv'
<1>. DEFINE key == <<r.table, r.id>>
<1>1. PICK q : q = Tail(queue)
  OBVIOUS
<1>2. /\ up /\ Entry(e) /\ e.table \in DOMAIN resolved /\ Settled(resolved, e.table)
      /\ q \in Seq({queue[i] : i \in DOMAIN queue}) /\ Len(queue) \in Nat
      /\ Len(q) = Len(queue) - 1 /\ \A i \in 1..Len(q) : Entry(q[i])
      /\ queue \in Seq({queue[i] : i \in DOMAIN queue})
  BY <1>1, HeadAndRest
<1>3. PICK p : p = Moved(q, db')
  OBVIOUS
<1>4. /\ p \in Seq({p[i] : i \in 1..Len(q)}) /\ Len(p) = Len(q) /\ Len(q) \in Nat
      /\ \A i \in 1..Len(q) : /\ Entry(p[i])' /\ Alike(p[i], q[i]) /\ p[i].at = q[i].at
                              /\ q[i].at = "audience" => p[i].type # "insert"
  <2>1. Len(q) \in Nat /\ DOMAIN q = 1..Len(q)
    BY <1>2
  <2>. DEFINE w(i) == Watched(q[i])
              Changed(i) == \/ Owners(db', w(i)[1], w(i)[2]) # Owners(db, w(i)[1], w(i)[2])
                            \/ (w(i) \in DOMAIN db') # (w(i) \in DOMAIN db)
  <2>2. p = [i \in 1..Len(q) |-> [q[i] EXCEPT !.moved = q[i].moved \/ Changed(i)]]
    BY <1>1, <1>3, <2>1 DEF Moved
  <2>3. p \in Seq({p[i] : i \in 1..Len(q)}) /\ Len(p) = Len(q)
    <3>1. p = [i \in 1..Len(q) |-> p[i]]
      <4>. HIDE DEF Changed
      <4>. QED BY <2>2
    <3>. QED BY <2>1, <3>1
  <2>4. ASSUME NEW i \in 1..Len(q)
        PROVE  /\ Entry(p[i])' /\ Alike(p[i], q[i]) /\ p[i].at = q[i].at
               /\ q[i].at = "audience" => p[i].type # "insert"
    <3>1. PICK c : c = q[i]
      OBVIOUS
    <3>2. PICK d : d = p[i]
      OBVIOUS
    <3>3. Entry(c) /\ DOMAIN c = Fields
      BY <1>2, <3>1 DEF Entry
    <3>4. PICK m : m = (c.moved \/ Changed(i))
      OBVIOUS
    <3>5. m \in BOOLEAN /\ (~m => ~c.moved /\ ~Changed(i))
      <4>. HIDE DEF Changed
      <4>. QED BY <3>4
    <3>6. d = [c EXCEPT !.moved = m]
      <4>. HIDE DEF Changed
      <4>. QED BY <2>2, <3>1, <3>2, <3>4
    <3>7. Alike(d, c) /\ DOMAIN d = Fields /\ d.at = c.at /\ d.owner = c.owner /\ d.moved = m
      BY <3>3, <3>6 DEF Fields, Alike
    <3>8. ~m => ~c.moved /\ Owners(db', Watched(c)[1], Watched(c)[2])
                           = Owners(db, Watched(c)[1], Watched(c)[2])
      BY <3>1, <3>5
    <3>9. Entry(d)'
      BY <1>2, <3>3, <3>5, <3>7, <3>8, EntryStays
    <3>10. c.at = "audience" => d.type # "insert"
      BY <3>3, <3>7 DEF Entry, Alike, Empties
    <3>. QED BY <3>1, <3>2, <3>7, <3>9, <3>10
  <2>. QED BY <2>1, <2>3, <2>4
<1>5. /\ DOMAIN e = Fields /\ Mode(e) = "write" /\ ~Refused(e)
      /\ e.user \in Users \union {Nobody} /\ e.owner \in Users \union {Nobody} /\ e.id # Nobody
      /\ e.moved \in BOOLEAN /\ (~Walks(e) => e.owner = Nobody) /\ (Walks(e) => e.owner = e.user)
  BY <1>2 DEF Entry
<1>6. db = [k \in DOMAIN db |-> db[k]] /\ DOMAIN db \subseteq born
  BY DEF IInv, RowsFit
<1>7. /\ Alike(r, e) /\ DOMAIN r = Fields /\ r.at = e.at /\ r.owner = e.owner /\ r.moved = e.moved
      /\ db' = Told(db, r)
      /\ r.type = "insert" => key \notin born /\ r.row = Born(r)
      /\ r.type # "insert" => key \in DOMAIN db \/ Empties(r)
  BY <1>5, <1>6, EffectIs
<1>8. /\ Alike(a, r) /\ DOMAIN a = Fields /\ a.owner = r.owner /\ a.row = r.row /\ a.moved \in BOOLEAN
  <2>1. CASE r.type = "delete"
    BY <1>5, <1>7, <2>1, Zenon DEF Alike
  <2>2. CASE r.type # "delete"
    <3>1. Entry(e) /\ e.moved \in BOOLEAN
      BY <1>2, <1>5
    <3>. DEFINE w == Watched(r)
                changed == \/ Owners(db', w[1], w[2]) # Owners(db, w[1], w[2])
                           \/ (w \in DOMAIN db') # (w \in DOMAIN db)
    <3>2. Moved(<<r>>, db')[1] = [r EXCEPT !.moved = r.moved \/ changed]
      BY DEF Moved
    <3>3. PICK m : m = (r.moved \/ changed)
      OBVIOUS
    <3>4. m \in BOOLEAN
      <4>. HIDE DEF changed
      <4>. QED BY <3>3
    <3>5. a = [r EXCEPT !.moved = m]
      <4>. HIDE DEF changed
      <4>. QED BY <2>2, <3>2, <3>3
    <3>6. Alike(a, r) /\ DOMAIN a = Fields /\ a.owner = r.owner /\ a.row = r.row /\ a.moved = m
      BY <1>7, <3>5 DEF Fields, Alike
    <3>. QED BY <3>4, <3>6
  <2>. QED BY <2>1, <2>2
<1>9. RowsFit'
  BY <1>2, RowsGoOnFitting
<1>10. Resolved'
  BY DEF IInv, Resolved
<1>11. \A rows : Told(rows, a) = Told(rows, r)
  <2>1. CASE r.type # "insert"
    BY <1>8, <2>1, AlikeToldAlike DEF Alike
  <2>2. CASE r.type = "insert"
    <3>. TAKE rows
    <3>1. a.type = "insert" /\ a.table = r.table /\ a.id = r.id /\ a.row = r.row
      BY <1>8, <2>2 DEF Alike
    <3>. QED BY <2>2, <3>1, BirthToldAlike
  <2>. QED BY <2>1, <2>2
<1>. DEFINE x == [a EXCEPT !.at = "audience"]
            owner == IF a.type = "insert" THEN a.user ELSE a.owner
<1>12. /\ Alike(x, a) /\ DOMAIN x = Fields /\ x.at = "audience" /\ x.owner = a.owner /\ x.moved \in BOOLEAN
  <2>1. Alike(x, a) /\ DOMAIN x = Fields /\ x.at = "audience" /\ x.owner = a.owner /\ x.moved = a.moved
    BY <1>8 DEF Fields, Alike
  <2>. HIDE DEF x
  <2>. QED BY <1>8, <2>1, Zenon
<1>. HIDE DEF x
<1>13. /\ a.type = e.type /\ a.table = e.table /\ a.id = e.id /\ a.user = e.user /\ a.owner = e.owner
       /\ r.type = e.type /\ r.table = e.table /\ r.id = e.id
  BY <1>7, <1>8 DEF Alike
<1>14. e.type = "insert" => e.user # Nobody
  BY <1>5 DEF Refused
<1>15. CASE /\ Rules(a.table).read = "owner" /\ owner = Nobody
            /\ queue' = Append(Moved(Tail(queue), db'), x) /\ UNCHANGED mirror
  <2>1. e.type # "insert" /\ e.owner = Nobody /\ ~Walks(e)
    <3>1. e.type # "insert"
      BY <1>13, <1>14, <1>15
    <3>2. e.owner = Nobody
      BY <1>13, <1>15, <3>1
    <3>3. Walks(e) => e.user # Nobody
      BY <1>5 DEF Walks, Refused
    <3>. QED BY <1>5, <3>1, <3>2, <3>3
  <2>2. Alike(x, e)
    BY <1>7, <1>8, <1>12 DEF Alike
  <2>3. Refused(x) = Refused(e) /\ Walks(x) = Walks(e) /\ Mode(x) = Mode(e)
    BY <2>2, AskAlike
  <2>4. Rules(x.table).read = "owner" /\ (<<x.table, x.id>> \in born \/ Empties(x))
    <3>1. Alike(r, e) /\ Alike(x, e)
      BY <1>7, <2>2
    <3>2. key \in born \/ Empties(r)
      BY <1>6, <1>7, <1>13, <2>1
    <3>3. x.table = a.table /\ x.table = r.table /\ x.id = r.id /\ x.type = r.type /\ x.value = r.value
      BY <1>13, <3>1 DEF Alike
    <3>4. Rules(x.table).read = "owner"
      BY <1>15, <3>3
    <3>5. <<x.table, x.id>> \in born \/ Empties(x)
      BY <3>2, <3>3 DEF Empties
    <3>. QED BY <3>4, <3>5
  <2>5. Entry(x)
    <3>1. x.id = e.id /\ x.user = e.user /\ x.type = e.type /\ x.owner = e.owner
      BY <1>12, <1>13, <2>2 DEF Alike
    <3>. QED BY <1>5, <1>12, <2>1, <2>3, <2>4, <3>1 DEF Entry
  <2>6. Entry(x)'
    <3>1. Alike(x, x) /\ born \subseteq born'
      BY DEF Alike
    <3>2. /\ Refused(x)' = Refused(x) /\ Walks(x)' = Walks(x) /\ Rules(x.table)' = Rules(x.table)
      BY Steady
    <3>3. Mode(x)' = Mode(x)
      BY DEF Mode
    <3>. QED BY <1>12, <2>5, <3>1, <3>2, <3>3 DEF Entry
  <2>7. queue' = Append(p, x)
    BY <1>1, <1>3, <1>15
  <2>8. PICK h : Hears(h, queue, mirror, db)
    BY DEF IInv, MirrorHears
  <2>9. PICK g : Hears(g, q, mirror, db)
    BY <1>1, <1>2, <2>8, HearsHead
  <2>10. Hears(g, p, mirror, db)
    BY <1>4, <2>9, HearsAlike
  <2>. DEFINE S == {p[i] : i \in 1..Len(q)} \union {x}
  <2>11. p \in Seq(S) /\ x \in S
    BY <1>4
  <2>. HIDE DEF S
  <2>12. PICK f : Hears(f, Append(p, x), mirror, Told(db, x))
    BY <1>12, <2>10, <2>11, HearsPush
  <2>13. Told(db, x) = db'
    <3>1. Told(db, x) = Told(db, a)
      BY <1>12, <1>13, <2>1, AlikeToldAlike DEF Alike
    <3>. QED BY <1>7, <1>11, <3>1
  <2>14. MirrorHears'
    BY <1>15, <2>7, <2>12, <2>13 DEF MirrorHears
  <2>15. /\ Entries' /\ queue' \in Seq({queue'[i] : i \in DOMAIN queue'})
         /\ Len(queue') \in Nat /\ Len(queue') <= Len(p) + 1
    BY <1>4, <2>6, <2>7, QueueBecomes
  <2>16. Queued'
    BY <1>2, <1>4, <2>15 DEF IInv, Queued
  <2>. QED BY <1>9, <1>10, <2>14, <2>15, <2>16 DEF IInv
<1>16. CASE /\ ~(Rules(a.table).read = "owner" /\ owner = Nobody)
            /\ queue' = Moved(Tail(queue), db') /\ mirror' = Told(mirror, a)
  <2>1. queue' = p
    BY <1>1, <1>3, <1>16
  <2>2. PICK h : Hears(h, queue, mirror, db)
    BY DEF IInv, MirrorHears
  <2>3. PICK g : Hears(g, q, mirror, db)
    BY <1>1, <1>2, <2>2, HearsHead
  <2>4. Hears(g, p, mirror, db)
    BY <1>4, <2>3, HearsAlike
  <2>5. ASSUME NEW i \in 1..Len(p), p[i].at = "audience", <<p[i].table, p[i].id>> = key
        PROVE  e.type = "insert" /\ Empties(p[i])
    <3>1. PICK d : d = q[i]
      OBVIOUS
    <3>2. Entry(d) /\ d.at = "audience" /\ d.table = r.table /\ d.id = r.id
      BY <1>2, <1>4, <2>5, <3>1 DEF Alike
    <3>3. /\ ~Walks(d) /\ d.type # "insert" /\ Rules(d.table).read = "owner"
          /\ <<d.table, d.id>> \in born \/ Empties(d)
          /\ Mode(d) = "write"
      BY <3>2, EntryAt
    <3>4. CASE e.type = "insert"
      <4>1. Empties(d)
        BY <1>7, <1>13, <3>2, <3>3, <3>4
      <4>2. Alike(p[i], d)
        BY <1>4, <3>1
      <4>. QED BY <3>4, <4>1, <4>2 DEF Alike, Empties
    <3>. SUFFICES ASSUME e.type # "insert" PROVE FALSE
      BY <3>4
    <3>5. e.owner # Nobody
      BY <1>13, <1>16, <3>2, <3>3
    <3>6. Walks(e)
      BY <1>5, <3>5
    <3>7. Rules(e.table).write = "owner" /\ e.table # "users"
      BY <1>5, <3>6 DEF Walks, RuleOf
    <3>. QED BY <1>13, <3>2, <3>3, <3>7 DEF Walks, RuleOf, Stamped
  <2>6. \E f : Hears(f, p, Told(mirror, r), Told(db, r))
    <3>1. Len(p) \in Nat
      BY <1>4
    <3>2. ASSUME NEW i \in 1..Len(p), p[i].at = "audience", NEW rows
          PROVE  Told(Told(rows, p[i]), r) = Told(Told(rows, r), p[i])
      <4>1. CASE <<p[i].table, p[i].id>> # key
        BY <4>1, ToldApart
      <4>2. CASE <<p[i].table, p[i].id>> = key
        <5>1. r.type = "insert" /\ Empties(p[i])
          BY <1>13, <2>5, <3>2, <4>2
        <5>2. r.row = Born(r)
          BY <1>7, <5>1
        <5>3. /\ DOMAIN r.row = {"fk", "val", "members"} /\ r.row.members = {}
              /\ r.row = [y \in DOMAIN r.row |-> r.row[y]]
          BY <5>2 DEF Born
        <5>4. PICK d : d = p[i]
          OBVIOUS
        <5>5. Empties(d) /\ <<d.table, d.id>> = <<r.table, r.id>>
          BY <4>2, <5>1, <5>4
        <5>6. Told(Told(rows, d), r) = Told(Told(rows, r), d)
          BY <5>1, <5>3, <5>5, ToldEmpty
        <5>. QED BY <5>4, <5>6
      <4>. QED BY <4>1, <4>2
    <3>. QED BY <2>4, <3>1, <3>2, HearsAtOnce
  <2>7. MirrorHears'
    BY <1>7, <1>11, <1>16, <2>1, <2>6 DEF MirrorHears
  <2>8. /\ Entries' /\ queue' \in Seq({queue'[i] : i \in DOMAIN queue'})
         /\ Len(queue') \in Nat /\ Len(queue') <= Len(p) + 1
    BY <1>4, <2>1, QueueBecomes
  <2>9. Queued'
    BY <1>2, <1>4, <2>8 DEF IInv, Queued
  <2>. QED BY <1>9, <1>10, <2>7, <2>8, <2>9 DEF IInv
<1>. QED BY <1>15, <1>16 DEF Accepted, Cast, x

LEMMA ApplyKeeps ==
  ASSUME IInv, Apply
  PROVE  IInv'
<1>1. PICK e : e = Head(queue)
  OBVIOUS
<1>2. PICK r : r = WithRow(e)
  OBVIOUS
<1>3. queue # <<>> /\ e.at = "apply" /\ UNCHANGED <<app, up, resolved, asked>>
  BY <1>1 DEF Apply, Head1
<1>4. CASE TookEffect(r)
  <2>1. PICK a : a = IF r.type = "delete" THEN r ELSE Moved(<<r>>, After(r))[1]
    OBVIOUS
  <2>2. /\ db' = After(r) /\ born' = born \union DOMAIN After(r)
        /\ Accepted(a, Moved(Tail(queue), After(r)))
    BY <1>1, <1>2, <1>4, <2>1 DEF Apply
  <2>3. a = IF r.type = "delete" THEN r ELSE Moved(<<r>>, db')[1]
    BY <2>1, <2>2
  <2>4. Accepted(a, Moved(Tail(queue), db'))
    BY <2>2
  <2>. QED BY <1>1, <1>2, <1>3, <1>4, <2>2, <2>3, <2>4, AcceptedKeeps
<1>5. CASE ~TookEffect(r)
  <2>1. queue' = Tail(queue) /\ UNCHANGED <<db, born, mirror>>
    BY <1>1, <1>2, <1>5 DEF Apply
  <2>2. mirror' = IF Head(queue).at = "audience" THEN Told(mirror, Head(queue)) ELSE mirror
    BY <1>1, <1>3, <2>1
  <2>. QED BY <1>3, <2>1, <2>2, RowsStay
<1>. QED BY <1>4, <1>5

LEMMA NextKeepsInv == IInv /\ [Next]_vars => IInv'
<1>. SUFFICES ASSUME IInv, [Next]_vars PROVE IInv'
  OBVIOUS
<1>1. CASE UNCHANGED vars
  <2>1. UNCHANGED <<app, up, resolved, db, born, queue, mirror, asked>>
    BY <1>1 DEF vars
  <2>2. Queued' /\ Resolved' /\ MirrorHears'
    BY <2>1 DEF IInv, Queued, Resolved, MirrorHears
  <2>3. RowsFit'
    BY <2>1 DEF IInv, RowsFit, Keys, Rules
  <2>4. Entries'
    <3>. SUFFICES ASSUME NEW i \in DOMAIN queue' PROVE Entry(queue[i])'
      BY DEF Entries
    <3>1. PICK e : e = queue'[i]
      OBVIOUS
    <3>2. Entry(e)
      BY <2>1, <3>1 DEF IInv, Entries
    <3>3. Alike(e, e) /\ DOMAIN e = Fields /\ e.moved \in BOOLEAN
      BY <3>2 DEF Alike, Entry
    <3>4. Entry(e)'
      BY <2>1, <3>2, <3>3, EntryStays
    <3>. QED BY <3>1, <3>4
  <2>. QED BY <2>2, <2>3, <2>4 DEF IInv
<1>2. CASE Handle
  BY <1>2, WalkGuardKeeps, LeavesKeeps, ApplyKeeps DEF Handle
<1>3. ASSUME NEW r \in Requests, Arrive(r) PROVE IInv'
  BY <1>3, ArriveKeeps
<1>. QED BY <1>1, <1>2, <1>3 DEF Next

\* Once every request is answered the listener told everything has the rows.
LEMMA InvMirrorFollows == IInv => MirrorFollows
<1>. SUFFICES ASSUME IInv PROVE MirrorFollows
  OBVIOUS
<1>1. ASSUME NEW i \in DOMAIN queue
      PROVE  /\ queue[i].at \in {"walk", "exists", "read", "apply", "audience"}
             /\ queue[i].owner \in Users \union {Nobody}
             /\ queue[i].at = "audience" => Rules(queue[i].table).read = "owner"
  <2>1. PICK e : e = queue[i]
    OBVIOUS
  <2>2. Entry(e)
    BY <1>1, <2>1 DEF IInv, Entries
  <2>. QED BY <2>1, <2>2, EntryAt
<1>2. TypeOK
  BY <1>1 DEF TypeOK, IInv, Queued, RowsFit
<1>3. ASSUME queue = <<>> PROVE mirror = db
  <2>1. PICK h : Hears(h, <<>>, mirror, db)
    BY <1>3 DEF IInv, MirrorHears
  <2>. QED BY <2>1 DEF Hears
<1>. QED BY <1>2, <1>3 DEF MirrorFollows

\* The line of a table with a walk, and its owner when an id is given; of a
\* walk of more than one hop, the rest starts below users too.
LEMMA OwnersClimbed ==
  ASSUME NEW rows, Named(rows), NEW t, Settled(resolved, t), Rules(t).walk # <<>>, t # "users", NEW id
  PROVE  Owners(rows, t, id) = {Climbed(rows, Rules(t).walk, id)} \ {Nobody}
<1>1. OnLine(resolved, t)
  BY DEF Settled, Rules
<1>2. LedTo(rows, resolved[t].line, id) \ {Nobody} = {Climbed(rows, resolved[t].walk, id)} \ {Nobody}
  BY <1>1, LedIsClimbed
<1>. QED BY <1>2 DEF Owners, Rules

LEMMA FirstHop ==
  ASSUME NEW t, Settled(resolved, t), Rules(t).write = "owner"
  PROVE  LET walk == Rules(t).walk
         IN  /\ t \notin IdentityTables /\ t # "users" /\ walk # <<>>
             /\ walk \in Seq({walk[k] : k \in DOMAIN walk}) /\ walk[1].child = t
             /\ walk[1].parent \in DOMAIN resolved
             /\ walk[1].column \in {f.col : f \in Keys(t)}
             /\ walk[1].parent = "users" => Tail(walk) = <<>>
             /\ walk[1].parent # "users" => Tail(walk) # <<>>
<1>. DEFINE walk == Rules(t).walk
<1>1. t \notin IdentityTables /\ walk # <<>> /\ OnLine(resolved, t)
  BY DEF Settled, Rules
<1>2. t # "users"
  BY <1>1 DEF IdentityTables
<1>3. /\ walk \in Seq({walk[k] : k \in DOMAIN walk}) /\ Len(walk) \in Nat \ {0}
      /\ walk[1].child = t /\ walk[1].parent \in DOMAIN resolved
      /\ \E f \in Keys(t) : f.col = walk[1].column
      /\ resolved[t].line[2].table = walk[1].parent
      /\ \A k \in 1..Len(walk) : walk[k].child # "users" /\ resolved[t].line[k].table = walk[k].child
      /\ resolved[t].line[Len(walk) + 1].table = "users"
  <2>1. PICK v : v = resolved[t].walk
    OBVIOUS
  <2>2. PICK line : line = resolved[t].line
    OBVIOUS
  <2>3. /\ v \in Seq({v[k] : k \in DOMAIN v}) /\ Len(v) \in Nat \ {0}
        /\ v[1].child = t /\ v[1].parent \in DOMAIN resolved
        /\ \E f \in resolved[t].keys : f.col = v[1].column
        /\ \A k \in 1..Len(v) : /\ v[k].child # "users" /\ line[k].table = v[k].child
                                /\ line[k + 1].table = v[k].parent
        /\ line[Len(v) + 1].table = "users"
    BY <1>1, <2>1, <2>2 DEF OnLine
  <2>4. line[2].table = v[1].parent
    <3>1. 1 \in 1..Len(v) /\ 1 + 1 = 2
      BY <2>3
    <3>. QED BY <2>3, <3>1
  <2>5. walk = v
    BY <2>1 DEF Rules
  <2>. HIDE DEF walk
  <2>6. walk \in Seq({walk[k] : k \in DOMAIN walk}) /\ Len(walk) \in Nat \ {0}
    BY <2>3, <2>5, Zenon
  <2>7. /\ walk[1].child = t /\ walk[1].parent \in DOMAIN resolved
        /\ \E f \in Keys(t) : f.col = walk[1].column
    BY <2>3, <2>5 DEF Rules, Keys
  <2>8. /\ resolved[t].line[2].table = walk[1].parent
        /\ resolved[t].line[Len(walk) + 1].table = "users"
    BY <2>2, <2>3, <2>4, <2>5
  <2>9. \A k \in 1..Len(walk) :
           walk[k].child # "users" /\ resolved[t].line[k].table = walk[k].child
    BY <2>2, <2>3, <2>5
  <2>. QED BY <2>6, <2>7, <2>8, <2>9, Zenon
<1>. DEFINE S == {walk[k] : k \in DOMAIN walk}
<1>4. walk \in Seq(S)
  BY <1>3
<1>5. PICK w : w = walk
  OBVIOUS
<1>. HIDE DEF walk, S
<1>6. /\ w \in Seq(S) /\ Len(w) \in Nat \ {0} /\ resolved[t].line[2].table = w[1].parent
      /\ \A k \in 1..Len(w) : w[k].child # "users" /\ resolved[t].line[k].table = w[k].child
      /\ resolved[t].line[Len(w) + 1].table = "users"
  BY <1>3, <1>4, <1>5
<1>7. Tail(w) \in Seq(S) /\ Len(Tail(w)) = Len(w) - 1
  BY <1>6
<1>8. ASSUME w[1].parent = "users" PROVE Tail(w) = <<>>
  <2>1. ~(2 \in 1..Len(w))
    BY <1>6, <1>8
  <2>2. Len(Tail(w)) = 0
    BY <1>6, <1>7, <2>1
  <2>. QED BY <1>7, <2>2, EmptySeq
<1>9. ASSUME w[1].parent # "users" PROVE Tail(w) # <<>>
  <2>1. Len(w) # 1
    BY <1>6, <1>9
  <2>2. Len(Tail(w)) # 0
    BY <1>6, <1>7, <2>1
  <2>. QED BY <2>2, EmptySeq
<1>. QED BY <1>1, <1>2, <1>3, <1>5, <1>8, <1>9 DEF walk

\* What may be born of a parent belongs to whom the parent belongs to.
LEMMA BelongsAsParent ==
  ASSUME NEW rows, Named(rows), Resolved, up, NEW t \in DOMAIN resolved,
         Rules(t).inserts # {}, Rules(t).write = "owner", Rules(t).stamp = Absent,
         Rules(Rules(t).walk[1].parent).walk = Tail(Rules(t).walk),
         NEW id, NEW v, Up(rows, <<t, id>>, Rules(t).walk[1].column) = v
  PROVE  /\ Owners(rows, t, id) = Owners(rows, Rules(t).walk[1].parent, v)
         /\ Owners(rows, t, id) = {Climbed(rows, Tail(Rules(t).walk), v)} \ {Nobody}
<1>. DEFINE walk == Rules(t).walk
            parent == walk[1].parent
            S == {walk[k] : k \in DOMAIN walk}
<1>1. Settled(resolved, t)
  BY DEF Resolved
<1>2. /\ t # "users" /\ walk # <<>> /\ walk \in Seq(S) /\ walk[1].child = t
      /\ parent \in DOMAIN resolved /\ (parent # "users" => Tail(walk) # <<>>)
  BY <1>1, FirstHop
<1>3. parent # "users"
  BY <1>1 DEF Settled, Rules
<1>4. Settled(resolved, parent)
  BY <1>2 DEF Resolved
<1>5. Rules(parent).walk = Tail(walk) /\ Rules(parent).walk # <<>>
  BY <1>2, <1>3
<1>6. Up(rows, <<walk[1].child, id>>, walk[1].column) = v
  BY <1>2
<1>7. Owners(rows, t, id) = {Climbed(rows, walk, id)} \ {Nobody}
  BY <1>1, <1>2, OwnersClimbed
<1>. HIDE DEF walk, parent, S
<1>8. Climbed(rows, walk, id) = Climbed(rows, Tail(walk), v)
  BY <1>2, <1>6, ClimbsOnward
<1>9. Owners(rows, parent, v) = {Climbed(rows, Rules(parent).walk, v)} \ {Nobody}
  <2>1. PICK p : p = parent
    OBVIOUS
  <2>2. Rules(p).walk # <<>>
    BY <1>5, <2>1
  <2>3. Owners(rows, p, v) = {Climbed(rows, Rules(p).walk, v)} \ {Nobody}
    BY <1>3, <1>4, <2>1, <2>2, OwnersClimbed
  <2>. QED BY <2>1, <2>3
<1>. QED BY <1>5, <1>7, <1>8, <1>9 DEF walk, parent

\* The tables of an application that comes up keep to its rules.
LEMMA InvUpMeansSound == IInv => UpMeansSound
<1>. SUFFICES ASSUME IInv, up, NEW t \in DOMAIN resolved
              PROVE  /\ "owner" \in {Rules(t).read, Rules(t).write} => \A key \in DOMAIN db :
                           key[1] = t => {OwnerOf(db, t, key[2])} \ {Nobody} = Owners(db, t, key[2])
                     /\ Rules(t).inserts # {} /\ Rules(t).write = "owner" /\ Rules(t).stamp = Absent =>
                           LET hop == Rules(t).walk[1]
                           IN  /\ hop.column \in Rules(t).inserts
                               /\ Rules(hop.parent).walk = Tail(Rules(t).walk) =>
                                     \A key \in DOMAIN db : key[1] = t =>
                                         Owners(db, t, key[2]) =
                                             Owners(db, hop.parent, db[key].fk[hop.column])
  BY DEF UpMeansSound
<1>1. Settled(resolved, t) /\ Named(db) /\ Resolved
  BY DEF IInv, Resolved, RowsFit
<1>2. ASSUME "owner" \in {Rules(t).read, Rules(t).write}, NEW key \in DOMAIN db, key[1] = t
      PROVE  {OwnerOf(db, t, key[2])} \ {Nobody} = Owners(db, t, key[2])
  <2>1. PICK id : id = key[2] /\ id # Nobody
    BY <1>1, <1>2 DEF Named
  <2>. QED BY <1>1, <1>2, <2>1, OwnersAre DEF Rules
<1>. DEFINE hop == Rules(t).walk[1]
<1>3. ASSUME Rules(t).inserts # {}, Rules(t).write = "owner", Rules(t).stamp = Absent
      PROVE  hop.column \in Rules(t).inserts
  BY <1>1, <1>3 DEF Settled, Rules
<1>4. ASSUME Rules(t).inserts # {}, Rules(t).write = "owner", Rules(t).stamp = Absent,
             Rules(hop.parent).walk = Tail(Rules(t).walk), NEW key \in DOMAIN db, key[1] = t
      PROVE  Owners(db, t, key[2]) = Owners(db, hop.parent, db[key].fk[hop.column])
  <2>1. PICK id : id = key[2] /\ key = <<t, id>>
    BY <1>1, <1>4 DEF Named
  <2>2. Up(db, <<t, id>>, hop.column) = db[key].fk[hop.column]
    BY <1>4, <2>1 DEF Up
  <2>. QED BY <1>1, <1>4, <2>1, <2>2, BelongsAsParent
<1>. QED BY <1>2, <1>3, <1>4

\* What a rule asks of whoever reads or writes the row is known to hold of a
\* request that runs, while the row it was let through for has not moved.
LEMMA RunIsAllowed ==
  ASSUME NEW e, Entry(e), Settled(resolved, e.table), e.at \in {"read", "apply"},
         ~e.moved, e.type # "insert"
  PROVE  May(db, Mode(e), e.user, e.table, e.id)
<1>1. ~Refused(e) /\ Mode(e) \in {"read", "write"}
  BY DEF Entry, Mode
<1>2. RuleOf(e) \in {"public", "users", "owner"} /\ (RuleOf(e) # "public" => e.user # Nobody)
  BY <1>1 DEF Refused, Settled, RuleOf, Rules
<1>3. RuleOf(e) = IF Mode(e) = "read" THEN Rules(e.table).read ELSE Rules(e.table).write
  BY DEF RuleOf
<1>4. CASE RuleOf(e) # "owner"
  BY <1>2, <1>3, <1>4 DEF May
<1>5. CASE RuleOf(e) = "owner" /\ e.table = "users"
  <2>1. e.id = e.user
    BY <1>1, <1>5 DEF Refused
  <2>2. Owners(db, e.table, e.id) = {e.user}
    BY <1>5, <2>1 DEF Owners
  <2>. QED BY <1>2, <1>3, <1>5, <2>2 DEF May
<1>6. CASE RuleOf(e) = "owner" /\ e.table # "users"
  <2>1. Walks(e) /\ Watched(e) = <<e.table, e.id>>
    BY <1>6 DEF Walks, Stamped, Watched
  <2>2. Owners(db, Watched(e)[1], Watched(e)[2]) = {e.user}
    BY <2>1 DEF Entry
  <2>3. Owners(db, e.table, e.id) = {e.user}
    BY <2>1, <2>2
  <2>. QED BY <1>2, <1>3, <1>6, <2>3 DEF May
<1>. QED BY <1>4, <1>5, <1>6

\* Only a deletion whose row is still there is denied.
LEMMA DeniedIsThere ==
  ASSUME Next, done' # done, done'.type = "delete", done'.outcome = "denied"
  PROVE  <<done'.table, done'.id>> \in DOMAIN db'
<1>1. CASE WalkGuard
  <2>1. PICK e : e = Head(queue)
    OBVIOUS
  <2>2. e.type # "delete" /\ done' = Answer(e, "denied")
    BY <1>1, <2>1 DEF WalkGuard
  <2>. QED BY <2>2 DEF Answer
<1>2. CASE CheckExists
  <2>1. PICK e : e = Head(queue)
    OBVIOUS
  <2>2. /\ done' = Answer(e, IF <<e.table, e.id>> \in DOMAIN db THEN "denied" ELSE "missing")
        /\ db' = db
    BY <1>2, <2>1 DEF CheckExists
  <2>. QED BY <2>2 DEF Answer
<1>3. CASE Read
  BY <1>3 DEF Read, Answer
<1>4. CASE Apply
  BY <1>4 DEF Apply, Accepted, Cast, Answer
<1>5. CASE WalkAudience
  BY <1>5 DEF WalkAudience, Cast, Answer
<1>6. ASSUME NEW r \in Requests, Arrive(r) PROVE FALSE
  BY <1>6 DEF Arrive, Answer
<1>. QED BY <1>1, <1>2, <1>3, <1>4, <1>5, <1>6 DEF Next, Handle

LEMMA StepAllowed ==
  ASSUME IInv, Next
  PROVE  /\ Handle =>
             LET r == Head(queue)
             IN  /\ ~r.moved /\ r.type # "insert"
                 /\ \/ r.at = "read" /\ ~Lists(r)
                    \/ r.at = "apply" /\ TookEffect(r)
                 => May(db, Mode(r), r.user, r.table, r.id)
         /\ done' # done /\ done'.type = "delete" /\ done'.outcome = "denied"
               => <<done'.table, done'.id>> \in DOMAIN db'
<1>1. ASSUME Handle, NEW e, e = Head(queue), ~e.moved, e.type # "insert", e.at \in {"read", "apply"}
      PROVE  May(db, Mode(e), e.user, e.table, e.id)
  <2>1. queue # <<>>
    BY <1>1 DEF Handle, WalkGuard, CheckExists, Read, Apply, WalkAudience, Head1
  <2>2. Entry(e) /\ Settled(resolved, e.table)
    BY <1>1, <2>1, HeadAndRest
  <2>. QED BY <1>1, <2>2, RunIsAllowed
<1>. QED BY <1>1, DeniedIsThere

\* A row that is born is the head's, which inserted it.
LEMMA BirthIs ==
  ASSUME IInv, Next, NEW key \in DOMAIN db' \ DOMAIN db, NEW e, e = Head(queue)
  PROVE  /\ Apply /\ queue # <<>> /\ e.at = "apply" /\ e.type = "insert" /\ up /\ Entry(e)
         /\ e.table \in DOMAIN resolved /\ key = <<e.table, e.id>>
         /\ \A k \in DOMAIN db : k \in DOMAIN db' /\ db'[k] = db[k]
         /\ db'[key].fk = Born(e).fk /\ Named(db')
<1>1. Apply
  BY DEF Next, Handle, WalkGuard, CheckExists, Read, WalkAudience, Arrive
<1>2. queue # <<>> /\ e.at = "apply"
  BY <1>1 DEF Apply, Head1
<1>3. PICK r : r = WithRow(e)
  OBVIOUS
<1>4. TookEffect(r) /\ db' = After(r)
  BY <1>1, <1>3 DEF Apply
<1>5. up /\ Entry(e) /\ e.table \in DOMAIN resolved
  BY <1>2, HeadAndRest
<1>6. DOMAIN e = Fields /\ db = [k \in DOMAIN db |-> db[k]] /\ DOMAIN db \subseteq born
  BY <1>5 DEF Entry, IInv, RowsFit
<1>7. /\ Alike(r, e) /\ db' = Told(db, r)
      /\ r.type = "insert" => <<r.table, r.id>> \notin born /\ r.row = Born(r)
  BY <1>3, <1>4, <1>6, EffectIs
<1>8. r.type = "insert"
  <2>. SUFFICES ASSUME r.type # "insert" PROVE DOMAIN db' \subseteq DOMAIN db
    OBVIOUS
  <2>1. CASE r.type = "delete"
    BY <1>7, <2>1 DEF Told
  <2>2. CASE r.type # "delete"
    BY <1>7, <2>2 DEF Told
  <2>. QED BY <2>1, <2>2
<1>9. db' = [k \in DOMAIN db \union {<<r.table, r.id>>} |-> IF k = <<r.table, r.id>> THEN r.row ELSE db[k]]
  BY <1>7, <1>8 DEF Told
<1>10. key = <<r.table, r.id>>
  BY <1>9
<1>11. \A k \in DOMAIN db : k \in DOMAIN db' /\ db'[k] = db[k]
  BY <1>6, <1>7, <1>8, <1>9
<1>12. db'[key].fk = Born(r).fk /\ Born(r) = Born(e)
  BY <1>7, <1>8, <1>9, <1>10 DEF Born, Alike
<1>13. Named(db')
  <2>1. Entry(e) /\ e.id # Nobody
    BY <1>5 DEF Entry
  <2>2. \A k \in DOMAIN db' : k \in DOMAIN db \/ k = <<r.table, r.id>>
    BY <1>9
  <2>. QED BY <1>7, <2>1, <2>2 DEF Named, IInv, RowsFit, Alike
<1>. QED BY <1>1, <1>2, <1>5, <1>7, <1>8, <1>10, <1>11, <1>12, <1>13 DEF Alike

LEMMA StepBornOwned ==
  ASSUME IInv, Next, NEW key \in DOMAIN db' \ DOMAIN db, NEW e, e = Head(queue),
         Rules(e.table).write = "owner", ~e.moved,
         IF Stamped(e)
         THEN /\ Rules(e.table).walk[1].column = Rules(e.table).stamp
              /\ Rules(e.table).walk[1].parent = "users"
         ELSE Rules(Rules(e.table).walk[1].parent).walk = Tail(Rules(e.table).walk)
  PROVE  Owners(db', key[1], key[2]) = {e.user}
<1>. DEFINE walk == Rules(e.table).walk
            S == {walk[k] : k \in DOMAIN walk}
<1>1. /\ e.at = "apply" /\ e.type = "insert" /\ up /\ Entry(e)
      /\ e.table \in DOMAIN resolved /\ key = <<e.table, e.id>>
      /\ \A k \in DOMAIN db : k \in DOMAIN db' /\ db'[k] = db[k]
      /\ db'[key].fk = Born(e).fk /\ Named(db')
  BY BirthIs
<1>2. Settled(resolved, e.table) /\ Resolved /\ Named(db)
  BY <1>1 DEF IInv, Resolved, RowsFit
<1>3. /\ e.table # "users" /\ walk # <<>> /\ walk \in Seq(S) /\ walk[1].child = e.table
      /\ walk[1].parent \in DOMAIN resolved /\ walk[1].column \in {f.col : f \in Keys(e.table)}
      /\ walk[1].parent = "users" => Tail(walk) = <<>>
      /\ walk[1].parent # "users" => Tail(walk) # <<>>
  BY <1>2, FirstHop
<1>4. ~Refused(e) /\ Mode(e) = "write" /\ RuleOf(e) = "owner"
  BY <1>1 DEF Entry, Mode, RuleOf
<1>5. e.user # Nobody /\ Rules(e.table).inserts # {}
  BY <1>1, <1>4 DEF Refused
<1>6. Up(db', <<e.table, e.id>>, walk[1].column) =
        IF walk[1].column = Rules(e.table).stamp THEN e.user
        ELSE IF walk[1].column = e.col THEN e.value ELSE Nobody
  <2>1. key \in DOMAIN db'
    OBVIOUS
  <2>. HIDE DEF walk
  <2>. QED BY <1>1, <1>3, <2>1 DEF Up, Born
<1>7. CASE Stamped(e)
  <2>1. Up(db', <<walk[1].child, e.id>>, walk[1].column) = e.user
    BY <1>3, <1>6, <1>7
  <2>2. Owners(db', e.table, e.id) = {Climbed(db', walk, e.id)} \ {Nobody}
    <3>1. PICK t, id, rows : t = e.table /\ id = e.id /\ rows = db'
      OBVIOUS
    <3>2. Named(rows) /\ Settled(resolved, t) /\ Rules(t).walk # <<>> /\ t # "users"
      BY <1>1, <1>2, <1>3, <3>1
    <3>3. Owners(rows, t, id) = {Climbed(rows, Rules(t).walk, id)} \ {Nobody}
      <4>. HIDE DEF walk, S
      <4>. QED BY <3>2, OwnersClimbed
    <3>. QED BY <3>1, <3>3
  <2>3. Tail(walk) = <<>>
    BY <1>3, <1>7
  <2>. HIDE DEF walk, S
  <2>4. Climbed(db', walk, e.id) = Climbed(db', <<>>, e.user)
    <3>1. PICK rows, id, c : rows = db' /\ id = e.id /\ c = walk[1].column
      OBVIOUS
    <3>2. Climbed(rows, walk, id) = Climbed(rows, Tail(walk), Up(rows, <<walk[1].child, id>>, walk[1].column))
      BY <1>3, ClimbsOnward
    <3>. QED BY <2>1, <2>3, <3>1, <3>2
  <2>5. Climbed(db', <<>>, e.user) = e.user
    <3>1. Len(<<>>) \in Nat
      OBVIOUS
    <3>2. PICK g : Climbs(g, db', <<>>, e.user)
      BY <3>1, ClimbUnrolls
    <3>. QED BY <3>2 DEF Climbs
  <2>. QED BY <1>1, <1>5, <2>2, <2>4, <2>5
<1>8. CASE ~Stamped(e)
  <2>1. Rules(e.table).stamp = Absent /\ Rules(walk[1].parent).walk = Tail(walk)
    BY <1>1, <1>8 DEF Stamped
  <2>2. Watched(e)[2] # Nobody /\ Walks(e)
    BY <1>1, <1>3, <1>4, <1>8 DEF Refused, Walks
  <2>3. walk[1].column = e.col /\ Watched(e) = <<walk[1].parent, e.value>>
    BY <1>1, <2>2 DEF Watched
  <2>4. Owners(db, walk[1].parent, e.value) = {e.user}
    <3>1. Owners(db, Watched(e)[1], Watched(e)[2]) = {e.user}
      BY <1>1, <2>2 DEF Entry
    <3>. QED BY <2>3, <3>1
  <2>5. walk[1].column # Rules(e.table).stamp
    BY <1>2, <1>3, <2>1 DEF Settled, Keys, Rules
  <2>6. Up(db', <<e.table, e.id>>, walk[1].column) = e.value
    BY <1>6, <2>3, <2>5
  <2>7. walk[1].parent # "users"
    BY <1>2, <1>5, <2>1 DEF Settled, Rules
  <2>8. Settled(resolved, walk[1].parent)
    BY <1>1, <1>2, <1>3 DEF Resolved
  <2>9. Owners(db, walk[1].parent, e.value) = {Climbed(db, Tail(walk), e.value)} \ {Nobody}
    <3>1. PICK p, v : p = walk[1].parent /\ v = e.value
      OBVIOUS
    <3>2. Rules(p).walk # <<>> /\ Rules(p).walk = Tail(walk) /\ p # "users" /\ Settled(resolved, p)
      BY <1>3, <2>1, <2>7, <2>8, <3>1
    <3>. HIDE DEF walk, S
    <3>3. Rules(p).walk # <<>> /\ p # "users" /\ Settled(resolved, p) /\ Named(db)
      BY <1>2, <3>2
    <3>4. Owners(db, p, v) = {Climbed(db, Rules(p).walk, v)} \ {Nobody}
      BY <3>3, OwnersClimbed
    <3>. QED BY <3>1, <3>2, <3>4
  <2>10. Climbed(db, Tail(walk), e.value) = e.user
    BY <2>4, <2>9
  <2>11. Len(Tail(walk)) \in Nat
    <3>. HIDE DEF walk, S
    <3>. QED BY <1>3
  <2>12. Climbed(db', Tail(walk), e.value) = e.user
    <3>1. PICK w, v, rows : w = Tail(walk) /\ v = e.value /\ rows = db'
      OBVIOUS
    <3>2. DOMAIN db \subseteq DOMAIN rows /\ \A k \in DOMAIN db : rows[k] = db[k]
      BY <1>1, <3>1
    <3>3. Climbed(db, w, v) # Nobody /\ Len(w) \in Nat
      BY <1>5, <2>10, <2>11, <3>1
    <3>4. Climbed(rows, w, v) = Climbed(db, w, v)
      BY <1>2, <3>2, <3>3, ClimbStays
    <3>. QED BY <2>10, <3>1, <3>4
  <2>13. Owners(db', e.table, e.id) = {Climbed(db', Tail(walk), e.value)} \ {Nobody}
    <3>1. PICK t : t = e.table
      OBVIOUS
    <3>2. /\ t \in DOMAIN resolved /\ Rules(t).inserts # {} /\ Rules(t).write = "owner"
          /\ Rules(t).stamp = Absent /\ Rules(Rules(t).walk[1].parent).walk = Tail(Rules(t).walk)
          /\ Up(db', <<t, e.id>>, Rules(t).walk[1].column) = e.value
      BY <1>1, <1>5, <2>1, <2>6, <3>1
    <3>3. Owners(db', t, e.id) = {Climbed(db', Tail(Rules(t).walk), e.value)} \ {Nobody}
      BY <1>1, <1>2, <3>2, BelongsAsParent
    <3>. QED BY <3>1, <3>3
  <2>. QED BY <1>1, <1>5, <2>12, <2>13
<1>. QED BY <1>7, <1>8

\* Who is told of a write, when the owner told of is the row's.
LEMMA AudienceMay ==
  ASSUME NEW rows, NEW t, Settled(resolved, t), NEW id, NEW owner,
         Rules(t).read = "owner" => Owners(rows, t, id) = {owner} \ {Nobody}
  PROVE  Audience(t, owner) = {f \in Feeds : May(rows, "read", f, t, id)}
<1>1. Rules(t).read \in {"public", "users", "owner"}
  BY DEF Settled, Rules
<1>2. ASSUME NEW f
      PROVE  /\ Rules(t).read = "users" => f # Nobody
             /\ Rules(t).read = "owner" => owner # Nobody /\ f = owner
             <=> May(rows, "read", f, t, id)
  <2>1. CASE Rules(t).read = "owner"
    <3>1. Owners(rows, t, id) = {owner} \ {Nobody}
      BY <2>1
    <3>2. (owner # Nobody /\ f = owner) <=> (f # Nobody /\ {owner} \ {Nobody} = {f})
      OBVIOUS
    <3>. QED BY <2>1, <3>1, <3>2 DEF May
  <2>2. CASE Rules(t).read # "owner"
    BY <1>1, <2>2 DEF May
  <2>. QED BY <2>1, <2>2
<1>. QED BY <1>2 DEF Audience

\* A write told at once, by the owner its guard walked to or who inserted it.
LEMMA ToldAtOnce ==
  ASSUME IInv, Apply, cast' # cast,
         cast'.type = "insert" /\ Rules(cast'.table).read = "owner"
            => Owners(db', cast'.table, cast'.id) = {cast'.user},
         ~cast'.moved
  PROVE  cast'.to = {f \in Feeds : May(IF cast'.type = "delete" THEN db ELSE db', "read",
                                       f, cast'.table, cast'.id)}
<1>1. PICK e : e = Head(queue)
  OBVIOUS
<1>2. queue # <<>> /\ e.at = "apply"
  BY <1>1 DEF Apply, Head1
<1>3. up /\ Entry(e) /\ Settled(resolved, e.table)
  BY <1>1, <1>2, HeadAndRest
<1>4. DOMAIN e = Fields /\ Mode(e) = "write" /\ db = [k \in DOMAIN db |-> db[k]]
      /\ (~Walks(e) => e.owner = Nobody) /\ (Walks(e) => e.owner = e.user)
      /\ (Walks(e) /\ ~e.moved => Owners(db, Watched(e)[1], Watched(e)[2]) = {e.user})
  BY <1>2, <1>3 DEF Entry, IInv, RowsFit
<1>5. PICK r : r = WithRow(e)
  OBVIOUS
<1>6. TookEffect(r) /\ db' = After(r)
  BY <1>1, <1>5 DEF Apply
<1>7. Alike(r, e) /\ r.owner = e.owner /\ r.moved = e.moved
  BY <1>4, <1>5, <1>6, EffectIs
<1>8. PICK a, p : a = (IF r.type = "delete" THEN r ELSE Moved(<<r>>, db')[1]) /\ Accepted(a, p)
  BY <1>1, <1>5, <1>6 DEF Apply
<1>9. Watched(r) = Watched(e)
  BY <1>7, AskAlike
<1>10. /\ Alike(a, r) /\ a.owner = r.owner
       /\ ~a.moved => ~r.moved /\ (r.type # "delete" =>
             Owners(db', Watched(r)[1], Watched(r)[2]) = Owners(db, Watched(r)[1], Watched(r)[2]))
  <2>1. CASE r.type = "delete"
    BY <1>8, <2>1 DEF Alike
  <2>2. CASE r.type # "delete"
    <3>. DEFINE w == Watched(r)
                changed == \/ Owners(db', w[1], w[2]) # Owners(db, w[1], w[2])
                           \/ (w \in DOMAIN db') # (w \in DOMAIN db)
    <3>1. a = [r EXCEPT !.moved = r.moved \/ changed]
      BY <1>8, <2>2 DEF Moved
    <3>2. PICK m : m = (r.moved \/ changed)
      OBVIOUS
    <3>3. ~m => ~r.moved /\ ~changed
      <4>. HIDE DEF changed
      <4>. QED BY <3>2
    <3>4. a = [r EXCEPT !.moved = m]
      <4>. HIDE DEF changed
      <4>. QED BY <3>1, <3>2
    <3>5. DOMAIN r = Fields
      BY <1>4, <1>5, <1>6, EffectIs
    <3>6. Alike(a, r) /\ a.owner = r.owner /\ a.moved = m
      BY <3>4, <3>5 DEF Alike, Fields
    <3>. QED BY <3>3, <3>6
  <2>. QED BY <2>1, <2>2
<1>11. PICK o : o = IF a.type = "insert" THEN a.user ELSE a.owner
  OBVIOUS
<1>12. Cast(a, o) /\ ~(Rules(a.table).read = "owner" /\ o = Nobody)
  BY <1>8, <1>11 DEF Accepted
<1>13. /\ cast'.type = a.type /\ cast'.table = a.table /\ cast'.id = a.id
       /\ cast'.user = a.user /\ cast'.moved = a.moved /\ cast'.to = Audience(a.table, o)
  BY <1>12 DEF Cast
<1>14. /\ a.type = e.type /\ a.table = e.table /\ a.id = e.id /\ a.user = e.user
       /\ a.owner = e.owner /\ r.type = e.type
  BY <1>7, <1>10 DEF Alike
<1>15. ~e.moved /\ (e.type # "delete" =>
             Owners(db', Watched(e)[1], Watched(e)[2]) = Owners(db, Watched(e)[1], Watched(e)[2]))
  BY <1>7, <1>9, <1>10, <1>13, <1>14
<1>16. PICK rows : rows = IF e.type = "delete" THEN db ELSE db'
  OBVIOUS
<1>17. ASSUME Rules(e.table).read = "owner" PROVE Owners(rows, e.table, e.id) = {o} \ {Nobody}
  <2>1. o # Nobody
    BY <1>12, <1>14, <1>17
  <2>2. CASE e.type = "insert"
    BY <1>11, <1>13, <1>14, <1>16, <1>17, <2>1, <2>2
  <2>3. CASE e.type # "insert"
    <3>1. o = e.owner /\ Walks(e)
      BY <1>4, <1>11, <1>14, <2>1, <2>3
    <3>2. Watched(e) = <<e.table, e.id>>
      BY <2>3 DEF Watched
    <3>3. Owners(db, e.table, e.id) = {e.user}
      BY <1>4, <1>15, <3>1, <3>2
    <3>4. Owners(rows, e.table, e.id) = {e.user}
      BY <1>15, <1>16, <3>2, <3>3
    <3>. QED BY <1>4, <2>1, <3>1, <3>4
  <2>. QED BY <2>2, <2>3
<1>18. Audience(e.table, o) = {f \in Feeds : May(rows, "read", f, e.table, e.id)}
  BY <1>3, <1>17, AudienceMay
<1>. QED BY <1>13, <1>14, <1>16, <1>18

\* A write told once its audience has been walked to.
LEMMA ToldAfterWalk ==
  ASSUME IInv, WalkAudience
  PROVE  db' = db /\ cast'.to = {f \in Feeds : May(db, "read", f, cast'.table, cast'.id)}
<1>1. PICK e : e = Head(queue)
  OBVIOUS
<1>2. /\ queue # <<>> /\ e.at = "audience" /\ db' = db
      /\ Cast(e, OwnerOf(db, e.table, e.id))
  BY <1>1 DEF WalkAudience, Head1
<1>3. up /\ Entry(e) /\ Settled(resolved, e.table)
  BY <1>1, <1>2, HeadAndRest
<1>4. PICK o : o = OwnerOf(db, e.table, e.id)
  OBVIOUS
<1>5. cast'.table = e.table /\ cast'.id = e.id /\ cast'.to = Audience(e.table, o)
  BY <1>2, <1>4 DEF Cast
<1>6. Rules(e.table).read = "owner" /\ e.id # Nobody
  BY <1>2, <1>3, EntryAt
<1>7. Owners(db, e.table, e.id) = {o} \ {Nobody}
  <2>1. PICK t, id : t = e.table /\ id = e.id
    OBVIOUS
  <2>2. Settled(resolved, t) /\ id # Nobody /\ "owner" \in {resolved[t].read, resolved[t].write}
        /\ Named(db)
    BY <1>3, <1>6, <2>1 DEF Rules, IInv, RowsFit
  <2>3. Owners(db, t, id) = {OwnerOf(db, t, id)} \ {Nobody}
    BY <2>2, OwnersAre
  <2>. QED BY <1>4, <2>1, <2>3
<1>8. Audience(e.table, o) = {f \in Feeds : May(db, "read", f, e.table, e.id)}
  BY <1>3, <1>7, AudienceMay
<1>. QED BY <1>2, <1>5, <1>8

\* A write told at once is told of an owner only if that is who made it.
LEMMA AtOnceToOwn ==
  ASSUME IInv, Apply, cast' # cast
  PROVE  /\ Settled(resolved, cast'.table)
         /\ \E o : cast'.to = Audience(cast'.table, o) /\ o \in {cast'.user, Nobody}
<1>1. PICK e : e = Head(queue)
  OBVIOUS
<1>2. queue # <<>> /\ e.at = "apply"
  BY <1>1 DEF Apply, Head1
<1>3. Entry(e) /\ Settled(resolved, e.table)
  BY <1>1, <1>2, HeadAndRest
<1>4. DOMAIN e = Fields /\ db = [k \in DOMAIN db |-> db[k]] /\ e.owner \in {e.user, Nobody}
  BY <1>2, <1>3 DEF Entry, IInv, RowsFit
<1>5. PICK r : r = WithRow(e)
  OBVIOUS
<1>6. TookEffect(r)
  BY <1>1, <1>5 DEF Apply
<1>7. Alike(r, e) /\ DOMAIN r = Fields /\ r.owner = e.owner
  BY <1>4, <1>5, <1>6, EffectIs
<1>8. PICK a, p : a = (IF r.type = "delete" THEN r ELSE Moved(<<r>>, db')[1]) /\ Accepted(a, p)
  BY <1>1, <1>5, <1>6 DEF Apply
<1>. DEFINE changed == \/ Owners(db', Watched(r)[1], Watched(r)[2]) # Owners(db, Watched(r)[1], Watched(r)[2])
                       \/ (Watched(r) \in DOMAIN db') # (Watched(r) \in DOMAIN db)
<1>9. \E m : a = r \/ a = [r EXCEPT !.moved = m]
  <2>1. Moved(<<r>>, db')[1] = [r EXCEPT !.moved = r.moved \/ changed]
    BY DEF Moved
  <2>. HIDE DEF changed
  <2>. QED BY <1>8, <2>1
<1>. HIDE DEF changed
<1>10. a.table = e.table /\ a.user = e.user /\ a.owner = e.owner
  BY <1>7, <1>9 DEF Alike, Fields
<1>11. PICK o : o = IF a.type = "insert" THEN a.user ELSE a.owner
  OBVIOUS
<1>12. Cast(a, o)
  BY <1>8, <1>11 DEF Accepted
<1>13. cast'.table = a.table /\ cast'.user = a.user /\ cast'.to = Audience(a.table, o)
  BY <1>12 DEF Cast
<1>. QED BY <1>3, <1>4, <1>10, <1>11, <1>13

\* Nobody hears of a row but who wrote it and who may read it by now.
LEMMA StepToldToKnown ==
  ASSUME IInv, Next, cast' # cast
  PROVE  \A f \in cast'.to : f = cast'.user \/ May(db', "read", f, cast'.table, cast'.id)
<1>1. Apply \/ WalkAudience
  BY DEF Next, Handle, WalkGuard, CheckExists, Read, Arrive
<1>2. CASE Apply
  <2>1. PICK o : cast'.to = Audience(cast'.table, o) /\ o \in {cast'.user, Nobody}
    BY <1>2, AtOnceToOwn
  <2>2. Rules(cast'.table).read \in {"public", "users", "owner"}
    BY <1>2, AtOnceToOwn DEF Settled, Rules
  <2>. QED BY <2>1, <2>2 DEF Audience, May
<1>3. CASE WalkAudience
  <2>1. /\ cast'.to = {f \in Feeds : May(db, "read", f, cast'.table, cast'.id)}
        /\ db' = db
    BY <1>3, ToldAfterWalk
  <2>. QED BY <2>1 DEF May, Owners
<1>. QED BY <1>1, <1>2, <1>3

LEMMA StepAudience ==
  ASSUME IInv, Next, cast' # cast, ~cast'.moved,
         cast'.type = "delete" /\ Rules(cast'.table).read = "owner"
            => Rules(cast'.table).write = "owner",
         cast'.type = "insert" /\ Rules(cast'.table).read = "owner"
            => Owners(db', cast'.table, cast'.id) = {cast'.user}
  PROVE  cast'.to = {f \in Feeds : May(IF cast'.type = "delete" THEN db ELSE db', "read",
                                       f, cast'.table, cast'.id)}
<1>1. Apply \/ WalkAudience
  BY DEF Next, Handle, WalkGuard, CheckExists, Read, Arrive
<1>. QED BY <1>1, ToldAtOnce, ToldAfterWalk

-----------------------------------------------------------------------------
\* What holds of every behaviour, whatever the application, the rows at start
\* and the requests.
LEMMA AlwaysInv == Spec => []IInv
BY InitIsInv, NextKeepsInv, PTL DEF Spec

\* Once every request is answered, a listener that heard every broadcast holds
\* the rows of the database: broadcastAccepted is called for exactly the
\* statements that took effect; a write told at once overtakes those still
\* walking to their audience, but only such as are about other rows.
THEOREM MirrorAlwaysFollows == Spec => []MirrorFollows
BY AlwaysInv, InvMirrorFollows, PTL

\* What start-up accepts keeps the rules: the walk of every owner-ruled table,
\* ownerOf, ends at the owner the graph gives the row; and an insert without a
\* stamp names a parent whose owner is the row's.
THEOREM ComingUpIsSound == Spec => []UpMeansSound
BY AlwaysInv, InvUpMeansSound, PTL

\* What a handler's query reads or writes, the rule allowed then and there,
\* although guardData and its likes looked some queries before.
THEOREM RunsOnlyAllowed == Spec => AllowedWhenRun
<1>1. ASSUME IInv, [Next]_vars
      PROVE  [/\ Handle =>
                    LET r == Head(queue)
                    IN  /\ ~r.moved /\ r.type # "insert"
                        /\ \/ r.at = "read" /\ ~Lists(r)
                           \/ r.at = "apply" /\ TookEffect(r)
                        => May(db, Mode(r), r.user, r.table, r.id)
              /\ done' # done /\ done'.type = "delete" /\ done'.outcome = "denied"
                    => <<done'.table, done'.id>> \in DOMAIN db']_vars
  BY <1>1, StepAllowed
<1>. QED BY <1>1, AlwaysInv, PTL DEF Spec, AllowedWhenRun

\* A row inserted under an owner rule is its inserter's: by the ownership stamp
\* where that is the walk's last hop, else by the parent its guard walked from.
THEOREM BirthsAreOwned == Spec => BornOwned
<1>1. ASSUME IInv, [Next]_vars
      PROVE  [\A key \in DOMAIN db' \ DOMAIN db :
                 LET r == Head(queue)
                     walk == Rules(r.table).walk
                 IN  /\ Rules(r.table).write = "owner" /\ ~r.moved
                     /\ IF Stamped(r)
                        THEN walk[1].column = Rules(r.table).stamp /\ walk[1].parent = "users"
                        ELSE Rules(walk[1].parent).walk = Tail(walk)
                     => Owners(db', key[1], key[2]) = {r.user}]_vars
  BY <1>1, StepBornOwned
<1>. QED BY <1>1, AlwaysInv, PTL DEF Spec, BornOwned

\* broadcastAccepted takes for the owner whom the guard walked to, the inserter,
\* or whom it walks to afterwards: whatever moved meanwhile, it tells nobody
\* but the writer and those who may read the row, and where nothing moved and
\* the owner was walked to in time, all of them.
THEOREM ReadersAreTold == Spec => AudienceIsReaders
<1>1. ASSUME IInv, [Next]_vars
      PROVE  [cast' # cast =>
                /\ \A f \in cast'.to : f = cast'.user \/ May(db', "read", f, cast'.table, cast'.id)
                /\ /\ ~cast'.moved
                   /\ cast'.type = "delete" /\ Rules(cast'.table).read = "owner"
                        => Rules(cast'.table).write = "owner"
                   /\ cast'.type = "insert" /\ Rules(cast'.table).read = "owner"
                        => Owners(db', cast'.table, cast'.id) = {cast'.user}
                   => cast'.to = {f \in Feeds : May(IF cast'.type = "delete" THEN db ELSE db', "read",
                                                     f, cast'.table, cast'.id)}]_vars
  <2>. SUFFICES ASSUME Next, cast' # cast
                PROVE  /\ \A f \in cast'.to : f = cast'.user \/ May(db', "read", f, cast'.table, cast'.id)
                       /\ /\ ~cast'.moved
                          /\ cast'.type = "delete" /\ Rules(cast'.table).read = "owner"
                               => Rules(cast'.table).write = "owner"
                          /\ cast'.type = "insert" /\ Rules(cast'.table).read = "owner"
                               => Owners(db', cast'.table, cast'.id) = {cast'.user}
                          => cast'.to = {f \in Feeds : May(IF cast'.type = "delete" THEN db ELSE db', "read",
                                                            f, cast'.table, cast'.id)}
    BY <1>1 DEF vars
  <2>1. \A f \in cast'.to : f = cast'.user \/ May(db', "read", f, cast'.table, cast'.id)
    BY <1>1, StepToldToKnown
  <2>. QED BY <1>1, <2>1, StepAudience
<1>. QED BY <1>1, AlwaysInv, PTL DEF Spec, AudienceIsReaders
=============================================================================
