------------------------- MODULE QueueMachineProofs --------------------------
(***************************************************************************)
(* What holds of the offline queue for any tables, policies, rows and       *)
(* bounds: a sequence number names one write for ever, at most one queued   *)
(* set per field, a conflict is exactly a foreign move, whatever waits with  *)
(* a temp id waits behind the insert that will replace it, and a lineage    *)
(* that is parked is a connected component of the queue.                    *)
(***************************************************************************)
EXTENDS QueueMachine, CommonLemmas, TLAPS

-----------------------------------------------------------------------------
(* The inductive invariant.                                                *)

Types ==
  /\ \A s \in DOMAIN entries : IsEntry(entries[s])
  /\ \A s \in DOMAIN dead : IsEntry(dead[s])
  /\ \A t \in DOMAIN live : t < 0 /\ live[t] \in [real : RealIds, table : Tables]
  /\ \A r \in DOMAIN revs : revs[r] \in 0..MaxRev
  /\ \A r \in DOMAIN seen : seen[r] \in 0..MaxRev
  /\ shown \subseteq Tables \X Int
  /\ \A s \in foreign : s \in DOMAIN entries /\ entries[s].type = "set"
  /\ nextSeq \in 1..MaxSeq /\ tempCounter \in Int /\ -tempCounter \in 0..MaxTemps

\* Every seq handed out is below nextSeq, and is queued or dead, not both.
Order ==
  /\ \A s \in DOMAIN entries : s \in Nat \ {0} /\ s < nextSeq
  /\ \A s \in DOMAIN dead : s \in Nat \ {0} /\ s < nextSeq
  /\ DOMAIN entries \cap DOMAIN dead = {}

\* The rows the page knows, the server has and a mapping leads to were issued,
\* temp ids were allocated, and only an insert has one.
Known ==
  /\ issued \subseteq Tables \X (Nat \ {Undefined})
  /\ DOMAIN revs \subseteq issued /\ DOMAIN seen \subseteq issued
  /\ \A t \in DOMAIN live : <<live[t].table, live[t].real>> \in issued
  /\ \A r \in shown : r[2] < 0 /\ tempCounter <= r[2]
EntryKnown(e) ==
  /\ e.type = "insert" => e.id = Undefined
  /\ e.type # "insert" => e.id < 0 \/ RowOf(e) \in issued
  /\ e.temp # Undefined => e.type = "insert" /\ e.temp < 0 /\ tempCounter <= e.temp
EntriesKnown == \A s \in DOMAIN entries : EntryKnown(entries[s])

\* At most one queued set per table:id:field, one setMembers per edge.
SameSlot(e, f) ==
  e.type \in {"set", "setMembers"} /\ f.type = e.type /\ RowOf(f) = RowOf(e) /\ f.slot = e.slot
Unique == \A s, x \in DOMAIN entries : s # x => ~SameSlot(entries[s], entries[x])

\* A pin is a revision the page has seen of the row, or the 0 of a row it has
\* seen none of, and what the page has seen is not ahead of the server.
Pinned(e) == e.base # Unpinned
PinOK(e) ==
  Pinned(e) => /\ e.type = "set" /\ e.conflict = "detect" /\ e.base \in Nat
               /\ RowOf(e) \in DOMAIN seen => e.base <= seen[RowOf(e)]
               /\ RowOf(e) \notin DOMAIN seen /\ (e.id < 0 \/ RowOf(e) \in DOMAIN revs) => e.base = 0
Pins ==
  /\ \A s \in DOMAIN entries : PinOK(entries[s])
  /\ \A r \in DOMAIN revs \cap DOMAIN seen : seen[r] <= revs[r]
Foreign(s) ==
  LET e == entries[s]
  IN  s \notin blind /\ Pinned(e) /\ RowOf(e) \in DOMAIN revs
        => (s \in foreign <=> e.base # revs[RowOf(e)])
Conflicts == \A s \in DOMAIN entries : Foreign(s)

\* Only writes to rows the server has issued are overtaken, and what was typed
\* blindly is older than what the page knows.
Ghosts ==
  /\ \A s \in foreign \cup blind : s \in DOMAIN entries /\ RowOf(entries[s]) \in issued
  /\ \A s \in blind :
       /\ Pinned(entries[s])
       /\ RowOf(entries[s]) \in DOMAIN revs
            => RowOf(entries[s]) \in DOMAIN seen /\ entries[s].base < seen[RowOf(entries[s])]

\* What a resync still has to send holds every earlier pin of the rows it is
\* about, none of them blind, and no foreign write overtook a later pin without
\* the earlier one.
Paired(s, x) ==
  /\ s \in DOMAIN entries /\ x \in DOMAIN entries
  /\ Pinned(entries[s]) /\ Pinned(entries[x]) /\ RowOf(entries[s]) = RowOf(entries[x])
Swept ==
  \A L \in flushing :
    /\ L # {} /\ L \subseteq DOMAIN entries
    /\ \A s \in L : RowOf(entries[s]) \in DOMAIN revs => s \notin blind
    /\ \A s \in L : \A x \in DOMAIN entries : Paired(s, x) =>
         /\ x < s => x \in L
         /\ x > s /\ x \in foreign /\ RowOf(entries[x]) \in DOMAIN revs => s \in foreign

\* Whatever refers to an optimistic row stands behind its insert; while the
\* row is shown its insert is queued or refused, or its mapping is live.
InsertOf(x, r) ==
  \/ x \in DOMAIN entries /\ entries[x].temp = r[2] /\ entries[x].table = r[1]
  \/ x \in DOMAIN dead /\ dead[x].temp = r[2] /\ dead[x].table = r[1]
Behind ==
  \A s \in DOMAIN entries : \A r \in References(entries[s]) :
    r[2] < 0 => \E x : InsertOf(x, r) /\ (x < s \/ entries[s].type = "setMembers")
Shown ==
  /\ \A r, q \in shown : r[2] = q[2] => r = q
  /\ \A r \in shown : \A s \in DOMAIN entries : entries[s].temp = r[2] => entries[s].table = r[1]
  /\ \A r \in shown : \/ r[2] \in DOMAIN live /\ live[r[2]].table = r[1]
                      \/ \E x : InsertOf(x, r)

IInv ==
  /\ Types /\ Order /\ Known /\ EntriesKnown /\ Unique /\ Pins /\ Conflicts /\ Ghosts /\ Swept
  /\ Behind /\ Shown

-----------------------------------------------------------------------------
(* Entries and what is done to one.                                        *)

\* A mapping: from temp ids to rows the server has issued.
IsMap(map) == \A t \in DOMAIN map : t < 0 /\ map[t] \in [real : RealIds, table : Tables]

LEMMA ConstantFacts ==
  /\ Undefined = 0 /\ Unpinned = -1 /\ MaxSeq \in Nat \ {0} /\ MaxTemps \in Nat /\ MaxRev \in Nat
  /\ RealIds \subseteq Nat \ {0} /\ InitialRows \subseteq Tables \X (Nat \ {0})
  /\ DOMAIN FkColumns = Tables /\ DOMAIN Edges = Tables /\ DOMAIN Fields = Tables
  /\ "none" \notin Tables
  /\ \A t \in Tables : Policy[t] \in {"detect", "lww", "offline-readonly"}
BY QueueConstants DEF Undefined, Unpinned

LEMMA ResolveTyped ==
  ASSUME NEW map, IsMap(map), NEW v \in Int, NEW table
  PROVE  /\ Resolve(map, v, table) \in Int
         /\ v \notin DOMAIN map => Resolve(map, v, table) = v
         /\ v >= 0 => Resolve(map, v, table) = v
         /\ Resolve(map, v, table) # v => Resolve(map, v, table) \in RealIds /\ v < 0
                                          /\ v \in DOMAIN map /\ map[v].table = table
         /\ v \in DOMAIN map /\ map[v].table = table => Resolve(map, v, table) = map[v].real
<1>1. CASE v \in DOMAIN map /\ map[v].table = table
  <2>1. Resolve(map, v, table) = map[v].real
    BY <1>1 DEF Resolve
  <2>2. v < 0 /\ map[v].real \in RealIds
    BY <1>1 DEF IsMap
  <2>3. map[v].real \in Nat /\ map[v].real # 0
    BY <2>2, ConstantFacts
  <2>4. ~(v >= 0)
    BY <2>2
  <2>5. QED
    BY <1>1, <2>1, <2>2, <2>3, <2>4
<1>2. CASE ~(v \in DOMAIN map /\ map[v].table = table)
  <2>1. Resolve(map, v, table) = v
    BY <1>2 DEF Resolve
  <2>2. QED
    BY <1>2, <2>1
<1>3. QED
  BY <1>1, <1>2

LEMMA TranslateFields ==
  ASSUME NEW e, IsEntry(e), NEW map
  PROVE  LET f == Translate(e, map) IN
         /\ DOMAIN f = EntryFields
         /\ f.type = e.type /\ f.table = e.table /\ f.slot = e.slot /\ f.base = e.base
         /\ f.value = e.value /\ f.conflict = e.conflict /\ f.temp = e.temp
         /\ f.id = Resolve(map, e.id, e.table)
         /\ DOMAIN f.fks = DOMAIN e.fks
         /\ \A c \in DOMAIN e.fks : f.fks[c] = Resolve(map, e.fks[c], FkColumns[e.table][c])
         /\ f.members = {Resolve(map, m, EdgeTarget(e)) : m \in e.members}
         /\ EdgeTarget(f) = EdgeTarget(e)
<1> DEFINE fks == [c \in DOMAIN e.fks |-> Resolve(map, e.fks[c], FkColumns[e.table][c])]
           members == {Resolve(map, m, EdgeTarget(e)) : m \in e.members}
           id == Resolve(map, e.id, e.table)
           f == Translate(e, map)
<1>1. DOMAIN e = EntryFields
  BY DEF IsEntry
<1>2. f = [e EXCEPT !.id = id, !.fks = fks, !.members = members]
  BY <1>1 DEF Translate, EntryFields
<1>3. DOMAIN fks = DOMAIN e.fks /\ \A c \in DOMAIN e.fks : fks[c] = Resolve(map, e.fks[c], FkColumns[e.table][c])
  OBVIOUS
<1>4. id = Resolve(map, e.id, e.table) /\ members = {Resolve(map, m, EdgeTarget(e)) : m \in e.members}
  OBVIOUS
<1> HIDE DEF fks, members, id, f
<1>5. /\ DOMAIN f = EntryFields /\ f.id = id /\ f.fks = fks /\ f.members = members
      /\ f.type = e.type /\ f.table = e.table /\ f.slot = e.slot /\ f.base = e.base
      /\ f.value = e.value /\ f.conflict = e.conflict /\ f.temp = e.temp
  BY <1>1, <1>2 DEF EntryFields
<1>6. EdgeTarget(f) = EdgeTarget(e)
  BY <1>5 DEF EdgeTarget
<1>7. QED
  BY <1>3, <1>4, <1>5, <1>6 DEF f

LEMMA TranslateTyped ==
  ASSUME NEW e, IsEntry(e), NEW map, IsMap(map)
  PROVE  IsEntry(Translate(e, map))
<1> DEFINE f == Translate(e, map)
<1>1. /\ DOMAIN f = EntryFields
      /\ f.type = e.type /\ f.table = e.table /\ f.slot = e.slot /\ f.base = e.base
      /\ f.value = e.value /\ f.conflict = e.conflict /\ f.temp = e.temp
      /\ f.id = Resolve(map, e.id, e.table)
      /\ DOMAIN f.fks = DOMAIN e.fks
      /\ \A c \in DOMAIN e.fks : f.fks[c] = Resolve(map, e.fks[c], FkColumns[e.table][c])
      /\ f.members = {Resolve(map, m, EdgeTarget(e)) : m \in e.members}
  BY TranslateFields
<1> HIDE DEF f
<1>2. f.id \in Int /\ (\A c \in DOMAIN f.fks : f.fks[c] \in Int)
  BY <1>1, ResolveTyped DEF IsEntry
<1>3. f.members \subseteq Int
  BY <1>1, ResolveTyped DEF IsEntry
<1>4. IsEntry(f)
  BY <1>1, <1>2, <1>3 DEF IsEntry
<1>5. QED
  BY <1>4 DEF f

\* Temp ids that an entry still refers to after a translation it referred to
\* before, and the mapping has nothing for them.
LEMMA TranslateRefs ==
  ASSUME NEW e, IsEntry(e), NEW map, IsMap(map),
         NEW r \in References(Translate(e, map)), r[2] < 0
  PROVE  r \in References(e) /\ ~(r[2] \in DOMAIN map /\ map[r[2]].table = r[1])
<1> DEFINE f == Translate(e, map)
<1>1. /\ f.table = e.table /\ f.id = Resolve(map, e.id, e.table) /\ DOMAIN f.fks = DOMAIN e.fks
      /\ \A c \in DOMAIN e.fks : f.fks[c] = Resolve(map, e.fks[c], FkColumns[e.table][c])
      /\ f.members = {Resolve(map, m, EdgeTarget(e)) : m \in e.members}
      /\ EdgeTarget(f) = EdgeTarget(e)
  BY TranslateFields
<1>2. r \in References(f)
  OBVIOUS
<1> HIDE DEF f
<1>3. ASSUME NEW v \in Int, NEW t, r = <<t, Resolve(map, v, t)>>
      PROVE  r = <<t, v>> /\ ~(r[2] \in DOMAIN map /\ map[r[2]].table = r[1])
  <2>1. Resolve(map, v, t) < 0
    BY <1>3
  <2>2. Resolve(map, v, t) \notin RealIds
    <3>1. \A i \in RealIds : i \in Nat
      BY ConstantFacts
    <3>2. ~(Resolve(map, v, t) \in Nat)
      BY <2>1
    <3>3. QED
      BY <3>1, <3>2
  <2>3. Resolve(map, v, t) = v
    BY <2>2, ResolveTyped
  <2>4. ~(v \in DOMAIN map /\ map[v].table = t)
    BY <2>2, ResolveTyped, ConstantFacts, <2>3 DEF IsMap
  <2>5. QED
    BY <1>3, <2>3, <2>4
<1>4. CASE f.id # Undefined /\ r = RowOf(f)
  <2>1. r = <<e.table, Resolve(map, e.id, e.table)>> /\ e.id \in Int
    BY <1>1, <1>4 DEF RowOf, IsEntry
  <2>2. r = <<e.table, e.id>> /\ ~(r[2] \in DOMAIN map /\ map[r[2]].table = r[1])
    BY <1>3, <2>1
  <2>3. e.id # Undefined
    BY <2>2, ConstantFacts
  <2>4. QED
    BY <2>2, <2>3 DEF References, RowOf
<1>5. CASE \E c \in DOMAIN f.fks : r = <<FkColumns[f.table][c], f.fks[c]>>
  <2>1. PICK c \in DOMAIN e.fks : r = <<FkColumns[e.table][c], Resolve(map, e.fks[c], FkColumns[e.table][c])>>
    BY <1>1, <1>5
  <2>2. e.fks[c] \in Int
    BY DEF IsEntry
  <2>3. r = <<FkColumns[e.table][c], e.fks[c]>> /\ ~(r[2] \in DOMAIN map /\ map[r[2]].table = r[1])
    BY <1>3, <2>1, <2>2
  <2>4. QED
    BY <2>3 DEF References
<1>6. CASE \E m \in f.members : r = <<EdgeTarget(f), m>>
  <2>1. PICK m \in e.members : r = <<EdgeTarget(e), Resolve(map, m, EdgeTarget(e))>>
    BY <1>1, <1>6
  <2>2. m \in Int
    BY DEF IsEntry
  <2>3. r = <<EdgeTarget(e), m>> /\ ~(r[2] \in DOMAIN map /\ map[r[2]].table = r[1])
    BY <1>3, <2>1, <2>2
  <2>4. QED
    BY <2>3 DEF References
<1>7. QED
  BY <1>2, <1>4, <1>5, <1>6 DEF References

LEMMA StoredFields ==
  ASSUME NEW e, IsEntry(e)
  PROVE  LET f == Stored(e) IN
         /\ IsEntry(f) /\ References(f) = References(e) /\ RowOf(f) = RowOf(e)
         /\ f.type = e.type /\ f.table = e.table /\ f.id = e.id /\ f.slot = e.slot
         /\ f.conflict = e.conflict /\ f.temp = e.temp
         /\ f.base = IF e.type = "set" /\ e.conflict = "detect" THEN e.base ELSE Unpinned
<1>1. CASE e.type = "set" /\ e.conflict = "detect"
  BY <1>1 DEF Stored
<1>2. CASE ~(e.type = "set" /\ e.conflict = "detect")
  <2> DEFINE f == Stored(e)
  <2>1. f = [e EXCEPT !.base = Unpinned]
    BY <1>2 DEF Stored
  <2> HIDE DEF f
  <2>2. /\ DOMAIN f = EntryFields /\ f.base = Unpinned
        /\ f.type = e.type /\ f.table = e.table /\ f.id = e.id /\ f.slot = e.slot /\ f.value = e.value
        /\ f.fks = e.fks /\ f.members = e.members /\ f.conflict = e.conflict /\ f.temp = e.temp
    BY <2>1 DEF IsEntry, EntryFields
  <2>3. IsEntry(f)
    BY <2>2 DEF IsEntry, Unpinned
  <2>4. RowOf(f) = RowOf(e) /\ EdgeTarget(f) = EdgeTarget(e)
    BY <2>2 DEF RowOf, EdgeTarget
  <2>5. References(f) = References(e)
    BY <2>2, <2>4 DEF References
  <2>6. QED
    BY <1>2, <2>2, <2>3, <2>4, <2>5 DEF f
<1>3. QED
  BY <1>1, <1>2

-----------------------------------------------------------------------------
(* What the operations on the queue do to it.                              *)

LEMMA PutFields ==
  ASSUME NEW E, NEW s, NEW e
  PROVE  /\ DOMAIN Put(E, s, e) = DOMAIN E \cup {s} /\ Put(E, s, e)[s] = e
         /\ \A x \in DOMAIN E \ {s} : Put(E, s, e)[x] = E[x]
BY DEF Put

LEMMA DropFields ==
  ASSUME NEW E, NEW s
  PROVE  /\ DOMAIN Drop(E, s) = DOMAIN E \ {s} /\ \A x \in DOMAIN E \ {s} : Drop(E, s)[x] = E[x]
BY DEF Drop, Restrict

\* An entry on which another was coalesced: value and members are the new ones.
Onto(e, f) == [f EXCEPT !.value = e.value, !.members = e.members]

LEMMA OntoFields ==
  ASSUME NEW e, IsEntry(e), NEW f, IsEntry(f)
  PROVE  LET g == Onto(e, f) IN
         /\ IsEntry(g) /\ RowOf(g) = RowOf(f) /\ EdgeTarget(g) = EdgeTarget(f)
         /\ g.type = f.type /\ g.table = f.table /\ g.id = f.id /\ g.slot = f.slot
         /\ g.base = f.base /\ g.fks = f.fks /\ g.members = e.members
         /\ g.conflict = f.conflict /\ g.temp = f.temp
<1> DEFINE g == Onto(e, f)
<1>1. /\ DOMAIN g = EntryFields /\ g.value = e.value /\ g.members = e.members
      /\ g.type = f.type /\ g.table = f.table /\ g.id = f.id /\ g.slot = f.slot /\ g.base = f.base
      /\ g.fks = f.fks /\ g.conflict = f.conflict /\ g.temp = f.temp
  BY DEF Onto, IsEntry, EntryFields
<1> HIDE DEF g
<1>2. IsEntry(g)
  BY <1>1 DEF IsEntry
<1>3. RowOf(g) = RowOf(f) /\ EdgeTarget(g) = EdgeTarget(f)
  BY <1>1 DEF RowOf, EdgeTarget
<1>4. QED
  BY <1>1, <1>2, <1>3 DEF g

\* An enqueue appends the entry, or coalesces it into the one it is about.
LEMMA EnqueueCases ==
  ASSUME NEW E, DOMAIN E \subseteq Nat, \A s \in DOMAIN E : IsEntry(E[s]), NEW e, IsEntry(e),
         NEW fresh, fresh \notin DOMAIN E
  PROVE  LET Q == Enqueue(E, e, fresh)
             s == EnqueueSeq(E, e, fresh)
         IN  \/ /\ s = fresh /\ DOMAIN Q = DOMAIN E \cup {s} /\ Q[s] = Stored(e)
                /\ \A x \in DOMAIN E : Q[x] = E[x]
                /\ \A x \in DOMAIN E : ~SameSlot(e, E[x])
             \/ /\ s \in DOMAIN E /\ DOMAIN Q = DOMAIN E /\ Q[s] = Onto(e, E[s])
                /\ \A x \in DOMAIN E \ {s} : Q[x] = E[x]
                /\ SameSlot(e, E[s])
<1> DEFINE Q == Enqueue(E, e, fresh)
           s == EnqueueSeq(E, e, fresh)
           T == CoalesceTargets(E, e)
<1>1. CASE T = {}
  <2>1. s = fresh /\ Q = Put(E, fresh, Stored(e))
    BY <1>1 DEF EnqueueSeq, Enqueue
  <2>2. \A x \in DOMAIN E : ~SameSlot(e, E[x])
    BY <1>1 DEF CoalesceTargets, SameSlot
  <2> HIDE DEF s, Q, T
  <2>3. DOMAIN Q = DOMAIN E \cup {s} /\ Q[s] = Stored(e) /\ \A x \in DOMAIN E \ {s} : Q[x] = E[x]
    BY <2>1 DEF Put
  <2>4. \A x \in DOMAIN E : Q[x] = E[x]
    BY <2>1, <2>3
  <2>5. QED
    BY <2>1, <2>2, <2>3, <2>4 DEF s, Q
<1>2. CASE T # {}
  <2>1. s = Min(T) /\ T \in SUBSET Nat
    BY <1>2 DEF EnqueueSeq, CoalesceTargets
  <2>2. s \in T
    BY <1>2, <2>1, MinOf
  <2>3. s \in DOMAIN E /\ SameSlot(e, E[s])
    BY <2>2 DEF CoalesceTargets, SameSlot
  <2>4. Q = [E EXCEPT ![s].value = e.value, ![s].members = e.members]
    BY <1>2 DEF Enqueue
  <2> HIDE DEF s, Q, T
  <2>5. Q = [E EXCEPT ![s] = Onto(e, E[s])]
    BY <2>3, <2>4 DEF Onto
  <2>6. QED
    BY <2>3, <2>5 DEF s, Q
<1>3. QED
  BY <1>1, <1>2

LEMMA AckInsertFields ==
  ASSUME NEW E, NEW s \in DOMAIN E, NEW real
  PROVE  LET Q == AckInsert(E, s, real)
             map == [t \in {E[s].temp} |-> [real |-> real, table |-> E[s].table]]
         IN  /\ DOMAIN Q = DOMAIN E \ {s}
             /\ E[s].temp = Undefined => \A x \in DOMAIN E \ {s} : Q[x] = E[x]
             /\ E[s].temp # Undefined => \A x \in DOMAIN E \ {s} : Q[x] = Translate(E[x], map)
<1> DEFINE D   == Drop(E, s)
           map == [t \in {E[s].temp} |-> [real |-> real, table |-> E[s].table]]
<1>1. /\ DOMAIN D = DOMAIN E \ {s} /\ \A x \in DOMAIN E \ {s} : D[x] = E[x]
  BY DropFields
<1>2. /\ E[s].temp = Undefined => AckInsert(E, s, real) = D
      /\ E[s].temp # Undefined => AckInsert(E, s, real) = [x \in DOMAIN D |-> Translate(D[x], map)]
  BY DEF AckInsert
<1> HIDE DEF D, map
<1>3. QED
  BY <1>1, <1>2 DEF map

\* An entry whose pin was moved.
Repinned(e, revision) == [e EXCEPT !.base = revision]

LEMMA RepinnedFields ==
  ASSUME NEW e, IsEntry(e), NEW revision \in Nat
  PROVE  LET g == Repinned(e, revision) IN
         /\ IsEntry(g) /\ RowOf(g) = RowOf(e) /\ References(g) = References(e)
         /\ g.type = e.type /\ g.table = e.table /\ g.id = e.id /\ g.slot = e.slot
         /\ g.base = revision /\ g.conflict = e.conflict /\ g.temp = e.temp
<1> DEFINE g == Repinned(e, revision)
<1>1. /\ DOMAIN g = EntryFields /\ g.value = e.value /\ g.members = e.members
      /\ g.type = e.type /\ g.table = e.table /\ g.id = e.id /\ g.slot = e.slot /\ g.base = revision
      /\ g.fks = e.fks /\ g.conflict = e.conflict /\ g.temp = e.temp
  BY DEF Repinned, IsEntry, EntryFields
<1> HIDE DEF g
<1>2. IsEntry(g)
  BY <1>1 DEF IsEntry
<1>3. RowOf(g) = RowOf(e) /\ EdgeTarget(g) = EdgeTarget(e)
  BY <1>1 DEF RowOf, EdgeTarget
<1>4. References(g) = References(e)
  BY <1>1, <1>3 DEF References
<1>5. QED
  BY <1>1, <1>2, <1>3, <1>4 DEF g

LEMMA AdvanceBaseFields ==
  ASSUME NEW E, NEW row, NEW after, NEW revision
  PROVE  LET Q == AdvanceBase(E, row, after, revision) IN
         /\ DOMAIN Q = DOMAIN E
         /\ \A x \in DOMAIN E :
              Q[x] = IF x > after /\ E[x].type = "set" /\ RowOf(E[x]) = row /\ Pinned(E[x])
                     THEN Repinned(E[x], revision) ELSE E[x]
BY DEF AdvanceBase, Repinned, Pinned

\* The one queued set of a row and field.
LEMMA FoundSet ==
  ASSUME NEW E, DOMAIN E \subseteq Nat, NEW s \in DOMAIN E, E[s].type = "set",
         \A x \in DOMAIN E : x # s => ~SameSlot(E[s], E[x])
  PROVE  FindSet(E, RowOf(E[s]), E[s].slot) = {s} /\ Min({s}) = s
<1>1. ASSUME NEW x \in FindSet(E, RowOf(E[s]), E[s].slot) PROVE x = s
  BY <1>1 DEF FindSet, SameSlot
<1>2. s \in FindSet(E, RowOf(E[s]), E[s].slot)
  BY DEF FindSet
<1>3. Min({s}) = s
  <2>1. {s} \in SUBSET Nat /\ {s} # {}
    OBVIOUS
  <2>2. Min({s}) \in {s}
    BY <2>1, MinOf
  <2>3. QED
    BY <2>2
<1>4. QED
  BY <1>1, <1>2, <1>3

LEMMA KeepMineFields ==
  ASSUME DOMAIN entries \subseteq Nat, NEW s \in DOMAIN entries, entries[s].type = "set", NEW revision,
         \A x \in DOMAIN entries : x # s => ~SameSlot(entries[s], entries[x]),
         NEW Q, Q = KeepMine(entries, RowOf(entries[s]), entries[s].slot, revision)
  PROVE  /\ DOMAIN Q = DOMAIN entries /\ Q[s] = Repinned(entries[s], revision)
         /\ \A x \in DOMAIN entries \ {s} : Q[x] = entries[x]
<1>1. FindSet(entries, RowOf(entries[s]), entries[s].slot) = {s} /\ Min({s}) = s
  BY FoundSet
<1>2. Q = [entries EXCEPT ![s].base = revision]
  BY <1>1 DEF KeepMine
<1>3. [entries EXCEPT ![s].base = revision] = [entries EXCEPT ![s] = Repinned(entries[s], revision)]
  BY DEF Repinned
<1>4. QED
  BY <1>2, <1>3

LEMMA TakeTheirsFields ==
  ASSUME NEW E, DOMAIN E \subseteq Nat, NEW s \in DOMAIN E, E[s].type = "set",
         \A x \in DOMAIN E : x # s => ~SameSlot(E[s], E[x])
  PROVE  TakeTheirs(E, RowOf(E[s]), E[s].slot) = Drop(E, s)
<1>1. FindSet(E, RowOf(E[s]), E[s].slot) = {s} /\ Min({s}) = s
  BY FoundSet
<1>2. QED
  BY <1>1 DEF TakeTheirs

\* The prompted conflict is a conflicted entry of the queue.
LEMMA HeadConflictOf ==
  ASSUME NEW E, DOMAIN E \subseteq Nat \ {0}, NEW revisions,
         HeadConflict(E, revisions) # Undefined
  PROVE  HeadConflict(E, revisions) \in DOMAIN E
         /\ EntryConflicts(E[HeadConflict(E, revisions)], revisions)
<1>1. ConflictedSeqs(E, revisions) # {} /\ ConflictedSeqs(E, revisions) \in SUBSET Nat
  BY DEF HeadConflict, ConflictedSeqs
<1>2. HeadConflict(E, revisions) \in ConflictedSeqs(E, revisions)
  BY <1>1, MinOf DEF HeadConflict
<1>3. QED
  BY <1>2 DEF ConflictedSeqs

\* An entry that may be flushed is the first of its row's pins, and no foreign
\* write overtook a later one without it.
LEMMA FlushableFirst ==
  ASSUME IInv, NEW s, Flushable(s)
  PROVE  /\ s \in DOMAIN entries /\ (RowOf(entries[s]) \in DOMAIN revs => s \notin blind)
         /\ \A x \in DOMAIN entries : Paired(s, x) =>
              /\ s <= x
              /\ x > s /\ x \in foreign /\ RowOf(entries[x]) \in DOMAIN revs => s \in foreign
<1>1. PICK L \in flushing : s = Min(L)
  BY DEF Flushable
<1>2. L # {} /\ L \subseteq DOMAIN entries /\ L \in SUBSET Nat
  BY DEF IInv, Swept, Order
<1>3. s \in L /\ \A x \in L : s <= x
  BY <1>1, <1>2, MinOf
<1>4. ASSUME NEW x \in DOMAIN entries, Paired(s, x) PROVE s <= x
  <2>1. x < s => x \in L
    BY <1>3, <1>4 DEF IInv, Swept
  <2>2. x \in Nat /\ s \in Nat
    BY <1>2, <1>3 DEF IInv, Order
  <2>3. QED
    BY <1>3, <2>1, <2>2
<1>5. \A x \in DOMAIN entries : Paired(s, x) /\ x > s /\ x \in foreign /\ RowOf(entries[x]) \in DOMAIN revs
                                 => s \in foreign
  BY <1>3 DEF IInv, Swept
<1>6. RowOf(entries[s]) \in DOMAIN revs => s \notin blind
  BY <1>3 DEF IInv, Swept
<1>7. QED
  BY <1>2, <1>3, <1>4, <1>5, <1>6

-----------------------------------------------------------------------------
(* Steps that leave the queue alone.                                       *)

LEMMA SameQueue ==
  ASSUME IInv, UNCHANGED <<entries, dead, issued, nextSeq, tempCounter>>
  PROVE  Order' /\ EntriesKnown' /\ Unique' /\ Behind'
<1>1. entries' = entries /\ dead' = dead /\ issued' = issued /\ nextSeq' = nextSeq /\ tempCounter' = tempCounter
  OBVIOUS
<1>2. Order'
  BY <1>1 DEF IInv, Order
<1>3. EntriesKnown'
  BY <1>1 DEF IInv, EntriesKnown, EntryKnown
<1>4. Unique'
  BY <1>1 DEF IInv, Unique
<1>5. \A x, r : InsertOf(x, r)' <=> InsertOf(x, r)
  BY <1>1 DEF InsertOf
<1>6. Behind'
  BY <1>1, <1>5 DEF IInv, Behind
<1>7. QED
  BY <1>2, <1>3, <1>4, <1>6

LEMMA SameScreen ==
  ASSUME IInv, UNCHANGED <<entries, dead, live, shown>>
  PROVE  Shown'
<1>1. entries' = entries /\ dead' = dead /\ live' = live /\ shown' = shown
  OBVIOUS
<1>2. \A x, r : InsertOf(x, r)' <=> InsertOf(x, r)
  BY <1>1 DEF InsertOf
<1>3. QED
  BY <1>1, <1>2 DEF IInv, Shown

\* Rows that two pins have in common after a step, they had before it.
SameRows ==
  \A s, x \in DOMAIN entries' :
    Pinned(entries'[s]) /\ Pinned(entries'[x]) /\ RowOf(entries'[s]) = RowOf(entries'[x])
      => RowOf(entries[s]) = RowOf(entries[x])

\* A pin the server has moved past was overtaken, unless it was blind.
LEMMA BehindIsForeign ==
  ASSUME IInv, NEW x \in DOMAIN entries, Pinned(entries[x]), NEW row, RowOf(entries[x]) = row,
         row \in DOMAIN revs, x \notin blind,
         IF row \in DOMAIN seen THEN seen[row] # revs[row] ELSE revs[row] # 0
  PROVE  x \in foreign
<1>1. /\ entries[x].base \in Nat
      /\ row \in DOMAIN seen => entries[x].base <= seen[row] /\ seen[row] <= revs[row]
      /\ row \notin DOMAIN seen => entries[x].base = 0
  BY DEF IInv, Pins, PinOK
<1>2. revs[row] \in Nat /\ (row \in DOMAIN seen => seen[row] \in Nat)
  BY ConstantFacts DEF IInv, Types
<1>3. entries[x].base # revs[row]
  BY <1>1, <1>2
<1>4. QED
  BY <1>3 DEF IInv, Conflicts, Foreign

\* Of two pins of one row that are still to be sent, the step leaves the first
\* overtaken if it leaves the second so.
Hides(s, x) ==
  (x > s /\ Paired(s, x) /\ s \notin blind /\ x \in foreign' /\ (x \in foreign => s \in foreign))
    => s \in foreign'

\* What is still to be sent gets less, and the queue changes little else.
LEMMA SweptShrinks ==
  ASSUME IInv,
         \A K \in flushing' : K # {} /\ \E L \in flushing :
            K \subseteq L /\ K \subseteq DOMAIN entries' /\ L \cap DOMAIN entries' \subseteq K,
         \A x \in DOMAIN entries' : x \in DOMAIN entries /\ (Pinned(entries'[x]) => Pinned(entries[x])),
         SameRows, blind' \subseteq blind,
         \A x \in DOMAIN entries' : x \in foreign' => x \in foreign \cup blind,
         \A s, x \in DOMAIN entries' : Hides(s, x),
         \A x \in DOMAIN entries' : x \in foreign \cup blind /\ RowOf(entries'[x]) \in DOMAIN revs'
            => RowOf(entries[x]) \in DOMAIN revs
  PROVE  Swept'
<1> SUFFICES ASSUME NEW K \in flushing'
             PROVE  /\ K # {} /\ K \subseteq DOMAIN entries'
                    /\ \A s \in K : RowOf(entries'[s]) \in DOMAIN revs' => s \notin blind'
                    /\ \A s \in K : \A x \in DOMAIN entries' : Paired(s, x)' =>
                         /\ x < s => x \in K
                         /\ x > s /\ x \in foreign' /\ RowOf(entries'[x]) \in DOMAIN revs' => s \in foreign'
  BY DEF Swept
<1>1. PICK L \in flushing : K # {} /\ K \subseteq L /\ K \subseteq DOMAIN entries' /\ L \cap DOMAIN entries' \subseteq K
  OBVIOUS
<1>2. ASSUME NEW s \in K, NEW x \in DOMAIN entries', Paired(s, x)'
      PROVE  /\ x < s => x \in K
             /\ x > s /\ x \in foreign' /\ RowOf(entries'[x]) \in DOMAIN revs' => s \in foreign'
  <2>1. s \in DOMAIN entries' /\ s \in DOMAIN entries /\ x \in DOMAIN entries /\ s \in L
    BY <1>1
  <2>2. /\ Pinned(entries'[s]) /\ Pinned(entries'[x]) /\ RowOf(entries'[s]) = RowOf(entries'[x])
    BY <1>2 DEF Paired, Pinned
  <2>3. RowOf(entries[s]) = RowOf(entries[x]) /\ Pinned(entries[s]) /\ Pinned(entries[x])
    BY <2>1, <2>2 DEF SameRows
  <2>4. Paired(s, x)
    BY <2>1, <2>3 DEF Paired
  <2>5. /\ x < s => x \in L
        /\ x > s /\ x \in foreign /\ RowOf(entries[x]) \in DOMAIN revs => s \in foreign
        /\ RowOf(entries[s]) \in DOMAIN revs => s \notin blind
    BY <2>1, <2>4 DEF IInv, Swept
  <2>6. ASSUME x > s, x \in foreign', RowOf(entries'[x]) \in DOMAIN revs' PROVE s \in foreign'
    <3>1. RowOf(entries[x]) \in DOMAIN revs /\ RowOf(entries[s]) \in DOMAIN revs
      BY <2>3, <2>6
    <3>2. s \notin blind /\ (x \in foreign => s \in foreign)
      BY <2>5, <2>6, <3>1
    <3>3. Hides(s, x)
      BY <2>1
    <3>4. QED
      BY <2>4, <2>6, <3>2, <3>3 DEF Hides
  <2>7. QED
    BY <1>1, <2>1, <2>5, <2>6
<1>3. ASSUME NEW s \in K, RowOf(entries'[s]) \in DOMAIN revs' PROVE s \notin blind'
  <2>1. s \in DOMAIN entries' /\ s \in L
    BY <1>1
  <2>2. s \in blind' => s \in blind /\ RowOf(entries[s]) \in DOMAIN revs
    BY <1>3, <2>1
  <2>3. QED
    BY <2>1, <2>2 DEF IInv, Swept
<1>4. QED
  BY <1>1, <1>2, <1>3

\* An answer takes its entry out of what is still to be sent.
LEMMA AnsweredIsLess ==
  ASSUME IInv, NEW s, flushing' = Answered(s), DOMAIN entries' = DOMAIN entries \ {s}
  PROVE  \A K \in flushing' : K # {} /\ \E L \in flushing :
            K \subseteq L /\ K \subseteq DOMAIN entries' /\ L \cap DOMAIN entries' \subseteq K
<1>1. ASSUME NEW K \in flushing'
      PROVE  K # {} /\ \E L \in flushing :
               K \subseteq L /\ K \subseteq DOMAIN entries' /\ L \cap DOMAIN entries' \subseteq K
  <2>1. PICK L \in flushing : K = L \ {s} /\ K # {}
    BY DEF Answered
  <2>2. L \subseteq DOMAIN entries
    BY DEF IInv, Swept
  <2>3. K \subseteq L /\ K \subseteq DOMAIN entries' /\ L \cap DOMAIN entries' \subseteq K
    BY <2>1, <2>2
  <2>4. QED
    BY <2>1, <2>3
<1>2. QED
  BY <1>1

\* The histories lose entries, and revisions only grow.
LEMMA GhostsShrink ==
  ASSUME IInv, issued \subseteq issued',
         \A x \in foreign' \cup blind' : /\ x \in foreign \cup blind /\ x \in DOMAIN entries'
                                        /\ RowOf(entries'[x]) = RowOf(entries[x]),
         \A x \in blind' : x \in blind /\ entries'[x].base = entries[x].base,
         \A r \in issued : r \in DOMAIN revs' =>
            r \in DOMAIN revs /\ (r \in DOMAIN seen => r \in DOMAIN seen' /\ seen[r] <= seen'[r]),
         \A r \in DOMAIN seen' : seen'[r] \in Nat
  PROVE  Ghosts'
<1>1. ASSUME NEW x \in foreign' \cup blind' PROVE x \in DOMAIN entries' /\ RowOf(entries'[x]) \in issued'
  BY <1>1 DEF IInv, Ghosts
<1>2. ASSUME NEW x \in blind' PROVE Pinned(entries'[x])
  BY <1>2 DEF IInv, Ghosts, Pinned
<1>3. ASSUME NEW x \in blind', RowOf(entries'[x]) \in DOMAIN revs'
      PROVE  RowOf(entries'[x]) \in DOMAIN seen' /\ entries'[x].base < seen'[RowOf(entries'[x])]
  <2> DEFINE r == RowOf(entries[x])
  <2>1. x \in blind /\ x \in DOMAIN entries /\ r \in issued /\ RowOf(entries'[x]) = r
    BY DEF IInv, Ghosts
  <2>2. r \in DOMAIN revs /\ r \in DOMAIN seen /\ entries[x].base < seen[r]
    BY <1>3, <2>1 DEF IInv, Ghosts
  <2>3. r \in DOMAIN seen' /\ seen[r] <= seen'[r]
    BY <1>3, <2>1, <2>2
  <2>4. entries[x].base \in Int /\ seen[r] \in Int /\ seen'[r] \in Int /\ entries'[x].base = entries[x].base
    BY <2>1, <2>2, <2>3 DEF IInv, Types, IsEntry
  <2>5. QED
    BY <2>1, <2>2, <2>3, <2>4
<1>4. QED
  BY <1>1, <1>2, <1>3 DEF Ghosts, Pinned

\* No pin changes, nor does its row or its history.
LEMMA SamePins ==
  ASSUME IInv, UNCHANGED <<entries, foreign, blind, issued>>, flushing' \subseteq flushing,
         \A r \in DOMAIN revs' : r \in DOMAIN revs,
         \A r \in issued : r \in DOMAIN revs' /\ r \in DOMAIN seen => r \in DOMAIN seen' /\ seen[r] <= seen'[r],
         \A r \in DOMAIN seen' : seen'[r] \in Nat
  PROVE  Ghosts' /\ Swept'
<1>1. entries' = entries /\ foreign' = foreign /\ blind' = blind /\ issued' = issued
  OBVIOUS
<1>2. Swept'
  <2>1. SameRows
    BY <1>1 DEF SameRows
  <2>2. \A K \in flushing' : K # {} /\ \E L \in flushing :
            K \subseteq L /\ K \subseteq DOMAIN entries' /\ L \cap DOMAIN entries' \subseteq K
    BY <1>1 DEF IInv, Swept
  <2>3. \A s, x \in DOMAIN entries' : Hides(s, x)
    BY <1>1 DEF Hides
  <2>4. QED
    BY <1>1, <2>1, <2>2, <2>3, SweptShrinks
<1>3. Ghosts'
  <2>1. \A x \in foreign \cup blind : x \in DOMAIN entries
    BY DEF IInv, Ghosts
  <2>2. QED
    BY <1>1, <2>1, GhostsShrink
<1>4. QED
  BY <1>2, <1>3

LEMMA SeenNat ==
  ASSUME IInv
  PROVE  /\ \A r \in DOMAIN seen : seen[r] \in Nat /\ seen[r] <= seen[r]
         /\ \A r \in DOMAIN revs : revs[r] \in Nat
BY ConstantFacts DEF IInv, Types

\* The page learns a row's revision: no pin is ahead of what it learns.
LEMMA LearnKeeps ==
  ASSUME IInv, NEW row \in DOMAIN revs, seen' = Put(seen, row, revs[row]), flushing' \subseteq flushing,
         UNCHANGED <<queue, shown, revs, issued, foreign, blind>>
  PROVE  IInv'
<1>1. /\ entries' = entries /\ dead' = dead /\ nextSeq' = nextSeq /\ tempCounter' = tempCounter
      /\ live' = live /\ shown' = shown /\ revs' = revs /\ issued' = issued /\ foreign' = foreign
      /\ blind' = blind
  BY DEF queue
<1>2. /\ DOMAIN seen' = DOMAIN seen \cup {row} /\ seen'[row] = revs[row]
      /\ \A r \in DOMAIN seen \ {row} : seen'[r] = seen[r]
  BY DEF Put
<1>3. Types'
  BY <1>1, <1>2 DEF IInv, Types
<1>4. Known'
  BY <1>1, <1>2 DEF IInv, Known
<1>5. Pins'
  <2>1. ASSUME NEW s \in DOMAIN entries PROVE PinOK(entries[s])'
    <3>1. CASE RowOf(entries[s]) = row
      <4>1. Pinned(entries[s]) => /\ entries[s].base \in Nat
                                  /\ row \in DOMAIN seen => entries[s].base <= seen[row] /\ seen[row] <= revs[row]
                                  /\ row \notin DOMAIN seen => entries[s].base = 0
        BY <3>1 DEF IInv, Pins, PinOK
      <4>2. Pinned(entries[s]) => entries[s].base <= revs[row]
        <5>1. row \in DOMAIN seen => seen[row] \in Nat
          BY SeenNat
        <5>2. revs[row] \in Nat
          BY SeenNat
        <5>3. QED
          BY <4>1, <5>1, <5>2
      <4>3. QED
        BY <1>1, <1>2, <3>1, <4>2 DEF IInv, Pins, PinOK, Pinned
    <3>2. CASE RowOf(entries[s]) # row
      BY <1>1, <1>2, <3>2 DEF IInv, Pins, PinOK, Pinned
    <3>3. QED
      BY <3>1, <3>2
  <2>2. \A r \in DOMAIN revs \cap DOMAIN seen' : seen'[r] <= revs[r]
    <3>1. revs[row] <= revs[row]
      BY DEF IInv, Types
    <3>2. QED
      BY <1>2, <3>1 DEF IInv, Pins
  <2>3. QED
    BY <1>1, <2>1, <2>2 DEF Pins
<1>6. Conflicts'
  BY <1>1 DEF IInv, Conflicts, Foreign, Pinned
<1>7. Ghosts' /\ Swept'
  <2>1. \A r \in DOMAIN seen' : seen'[r] \in Nat
    BY <1>2, SeenNat
  <2>2. \A r \in DOMAIN seen : r \in DOMAIN seen' /\ seen[r] <= seen'[r]
    BY <1>2, SeenNat DEF IInv, Pins
  <2>3. QED
    BY <1>1, <2>1, <2>2, SamePins
<1>8. QED
  BY <1>1, <1>3, <1>4, <1>5, <1>6, <1>7, SameQueue, SameScreen DEF IInv

\* A foreign write is ahead of every pin there is.
LEMMA ForeignMoveKeeps ==
  ASSUME IInv, NEW row, ForeignMove(row)
  PROVE  IInv'
<1>1. /\ entries' = entries /\ dead' = dead /\ nextSeq' = nextSeq /\ tempCounter' = tempCounter
      /\ live' = live /\ shown' = shown /\ seen' = seen /\ issued' = issued
      /\ flushing' = flushing /\ blind' = blind
  BY DEF ForeignMove, queue
<1>2. /\ row \in DOMAIN revs /\ DOMAIN revs' = DOMAIN revs /\ revs'[row] = revs[row] + 1
      /\ revs[row] < MaxRev /\ \A r \in DOMAIN revs \ {row} : revs'[r] = revs[r]
  BY DEF ForeignMove
<1>3. foreign' = foreign \cup {s \in DOMAIN entries : entries[s].type = "set"
                                /\ RowOf(entries[s]) = row /\ entries[s].base # Unpinned}
  BY DEF ForeignMove
<1>4. \A r \in DOMAIN revs : revs'[r] \in 0..MaxRev
  BY <1>2, ConstantFacts DEF IInv, Types
<1>5. Types'
  <2>1. \A s \in foreign' : s \in DOMAIN entries /\ entries[s].type = "set"
    BY <1>3 DEF IInv, Types
  <2>2. QED
    BY <1>1, <1>2, <1>4, <2>1 DEF IInv, Types
<1>6. Known'
  BY <1>1, <1>2 DEF IInv, Known
<1>7. Pins'
  <2>1. \A s \in DOMAIN entries : PinOK(entries[s])'
    BY <1>1, <1>2 DEF IInv, Pins, PinOK, Pinned
  <2>2. ASSUME NEW r \in DOMAIN revs \cap DOMAIN seen PROVE seen[r] <= revs'[r]
    <3>1. seen[r] <= revs[r] /\ seen[r] \in Int /\ revs[r] \in Int
      BY DEF IInv, Pins, Types
    <3>2. revs'[r] = revs[r] \/ revs'[r] = revs[r] + 1
      BY <1>2
    <3>3. QED
      BY <3>1, <3>2
  <2>3. QED
    BY <1>1, <1>2, <2>1, <2>2 DEF Pins
<1>8. Conflicts'
  <2>1. ASSUME NEW s \in DOMAIN entries, s \notin blind, Pinned(entries[s]), RowOf(entries[s]) \in DOMAIN revs
        PROVE  s \in foreign' <=> entries[s].base # revs'[RowOf(entries[s])]
    <3>1. CASE RowOf(entries[s]) = row
      <4>1. /\ entries[s].type = "set" /\ entries[s].base \in Nat
            /\ row \in DOMAIN seen => entries[s].base <= seen[row] /\ seen[row] <= revs[row]
            /\ row \notin DOMAIN seen => entries[s].base = 0
        BY <2>1, <3>1 DEF IInv, Pins, PinOK
      <4>2. revs[row] \in Nat /\ (row \in DOMAIN seen => seen[row] \in Nat)
        BY <1>2, SeenNat
      <4>3. entries[s].base # revs'[row]
        BY <1>2, <4>1, <4>2
      <4>4. s \in foreign'
        BY <1>3, <2>1, <3>1, <4>1 DEF Pinned
      <4>5. QED
        BY <3>1, <4>3, <4>4
    <3>2. CASE RowOf(entries[s]) # row
      <4>1. s \in foreign' <=> s \in foreign
        BY <1>3, <3>2
      <4>2. QED
        BY <1>2, <2>1, <3>2, <4>1 DEF IInv, Conflicts, Foreign
    <3>3. QED
      BY <3>1, <3>2
  <2>2. QED
    BY <1>1, <1>2, <2>1 DEF Conflicts, Foreign, Pinned
<1>9. Ghosts'
  <2>1. \A x \in foreign' \cup blind : x \in DOMAIN entries /\ RowOf(entries[x]) \in issued
    BY <1>2, <1>3 DEF IInv, Ghosts, Known
  <2>2. QED
    BY <1>1, <1>2, <2>1 DEF IInv, Ghosts, Pinned
<1>10. Swept'
  <2>1. ASSUME NEW L \in flushing, NEW s \in L, NEW x \in DOMAIN entries, Paired(s, x),
               x > s, x \in foreign', RowOf(entries[x]) \in DOMAIN revs
        PROVE  s \in foreign'
    <3>1. s \in DOMAIN entries /\ Pinned(entries[s]) /\ entries[s].type = "set"
          /\ RowOf(entries[s]) = RowOf(entries[x])
      BY <2>1 DEF Paired, IInv, Pins, PinOK
    <3>2. CASE RowOf(entries[x]) = row
      BY <1>3, <3>1, <3>2 DEF Pinned
    <3>3. CASE RowOf(entries[x]) # row
      <4>1. x \in foreign
        BY <1>3, <2>1, <3>3
      <4>2. s \in foreign
        BY <2>1, <4>1 DEF IInv, Swept
      <4>3. QED
        BY <1>3, <4>2
    <3>4. QED
      BY <3>2, <3>3
  <2>2. \A s, x : Paired(s, x)' <=> Paired(s, x)
    BY <1>1 DEF Paired, Pinned
  <2>3. QED
    BY <1>1, <1>2, <2>1, <2>2 DEF IInv, Swept
<1>11. QED
  BY <1>1, <1>5, <1>6, <1>7, <1>8, <1>9, <1>10, SameQueue, SameScreen DEF IInv

\* The optimistic row leaves the screen together with its mapping.
LEMMA HealKeeps ==
  ASSUME IInv, NEW row, Heal(row)
  PROVE  IInv'
<1>1. /\ entries' = entries /\ dead' = dead /\ nextSeq' = nextSeq /\ tempCounter' = tempCounter
      /\ foreign' = foreign /\ revs' = revs /\ seen' = seen /\ issued' = issued
      /\ blind' = blind /\ flushing' = flushing
  BY DEF Heal
<1>2. row \in shown /\ shown' = shown \ {row} /\ live' = Restrict(live, DOMAIN live \ {row[2]})
  BY DEF Heal
<1>3. DOMAIN live' = DOMAIN live \ {row[2]} /\ \A t \in DOMAIN live' : live'[t] = live[t]
  BY <1>2 DEF Restrict
<1>4. Types'
  BY <1>1, <1>2, <1>3 DEF IInv, Types
<1>5. Known'
  BY <1>1, <1>2, <1>3 DEF IInv, Known
<1>6. Pins'
  BY <1>1 DEF IInv, Pins, PinOK, Pinned
<1>7. Conflicts'
  BY <1>1 DEF IInv, Conflicts, Foreign, Pinned
<1>8. Shown'
  <2>1. \A x, r : InsertOf(x, r)' <=> InsertOf(x, r)
    BY <1>1 DEF InsertOf
  <2>2. \A r \in shown' : r \in shown /\ r[2] # row[2]
    BY <1>2 DEF IInv, Shown
  <2>3. \A r \in shown' : r[2] \in DOMAIN live => r[2] \in DOMAIN live' /\ live'[r[2]] = live[r[2]]
    BY <1>3, <2>2
  <2>4. QED
    BY <1>1, <2>1, <2>2, <2>3 DEF IInv, Shown
<1>9. Ghosts' /\ Swept'
  BY <1>1, SeenNat, SamePins
<1>10. QED
  BY <1>1, <1>4, <1>5, <1>6, <1>7, <1>8, <1>9, SameQueue DEF IInv

\* A reload pulls the server's revisions and shows no optimistic row.
LEMMA RestartKeeps ==
  ASSUME IInv, Restart
  PROVE  IInv'
<1>1. /\ entries' = entries /\ dead' = dead /\ nextSeq' = nextSeq /\ tempCounter' = tempCounter
      /\ foreign' = foreign /\ revs' = revs /\ issued' = issued
      /\ blind' = blind /\ flushing' = {}
      /\ DOMAIN live' = {} /\ shown' = {} /\ seen' = revs
  BY DEF Restart
<1>2. Types'
  BY <1>1 DEF IInv, Types
<1>3. Known'
  BY <1>1 DEF IInv, Known
<1>4. Pins'
  <2>1. ASSUME NEW s \in DOMAIN entries, Pinned(entries[s]) PROVE PinOK(entries[s])'
    <3>1. PinOK(entries[s])
      BY DEF IInv, Pins
    <3>2. ASSUME RowOf(entries[s]) \in DOMAIN revs PROVE entries[s].base <= revs[RowOf(entries[s])]
      <4> DEFINE r == RowOf(entries[s])
      <4>1. /\ entries[s].base \in Nat
            /\ r \in DOMAIN seen => entries[s].base <= seen[r] /\ seen[r] <= revs[r]
            /\ r \notin DOMAIN seen => entries[s].base = 0
        BY <2>1, <3>1, <3>2 DEF PinOK, IInv, Pins
      <4>2. revs[r] \in Nat /\ (r \in DOMAIN seen => seen[r] \in Nat)
        BY <3>2, SeenNat
      <4>3. QED
        BY <4>1, <4>2
    <3>3. entries[s].id < 0 => entries[s].base = 0
      <4>1. RowOf(entries[s]) \in DOMAIN seen => entries[s].id \in Nat
        BY DEF IInv, Known, RowOf
      <4>2. entries[s].id < 0 => RowOf(entries[s]) \notin DOMAIN seen
        BY <4>1
      <4>3. QED
        BY <2>1, <3>1, <4>2 DEF PinOK
    <3>4. QED
      BY <1>1, <2>1, <3>1, <3>2, <3>3 DEF PinOK, Pinned
  <2>2. \A r \in DOMAIN revs : revs[r] <= revs[r]
    BY DEF IInv, Types
  <2>3. QED
    BY <1>1, <2>1, <2>2 DEF Pins, PinOK, Pinned
<1>5. Conflicts'
  BY <1>1 DEF IInv, Conflicts, Foreign, Pinned
<1>6. Shown'
  BY <1>1 DEF Shown
<1>7. Ghosts' /\ Swept'
  <2>1. \A r \in DOMAIN revs : r \in DOMAIN seen => seen[r] <= revs[r]
    BY DEF IInv, Pins
  <2>2. QED
    BY <1>1, <2>1, SeenNat, SamePins
<1>8. QED
  BY <1>1, <1>2, <1>3, <1>4, <1>5, <1>6, <1>7, SameQueue DEF IInv

\* The network fails, and the resync ends.
LEMMA FlushOfflineKeeps ==
  ASSUME IInv, FlushOffline
  PROVE  IInv'
<1>1. /\ entries' = entries /\ dead' = dead /\ nextSeq' = nextSeq /\ tempCounter' = tempCounter
      /\ live' = live /\ shown' = shown /\ revs' = revs /\ issued' = issued /\ seen' = seen
      /\ foreign' = foreign /\ blind' = blind /\ flushing' = {}
  BY DEF FlushOffline, queue
<1>2. Types' /\ Known'
  BY <1>1 DEF IInv, Types, Known
<1>3. Pins' /\ Conflicts'
  BY <1>1 DEF IInv, Pins, PinOK, Pinned, Conflicts, Foreign
<1>4. Ghosts' /\ Swept'
  BY <1>1, SeenNat, SamePins
<1>5. QED
  BY <1>1, <1>2, <1>3, <1>4, SameQueue, SameScreen DEF IInv

\* A clean lineage has all entries of its rows, and no pin in it is older than
\* what the page knows: of two in one row, a foreign write overtook both.
LEMMA ReconcileKeeps ==
  ASSUME IInv, Reconcile
  PROVE  IInv'
<1>1. /\ entries' = entries /\ dead' = dead /\ nextSeq' = nextSeq /\ tempCounter' = tempCounter
      /\ live' = live /\ shown' = shown /\ revs' = revs /\ issued' = issued /\ seen' = seen
      /\ foreign' = foreign /\ blind' = blind /\ flushing' = CleanLineages(entries, seen)
  BY DEF Reconcile, queue
<1>2. Types' /\ Known'
  BY <1>1 DEF IInv, Types, Known
<1>3. Pins' /\ Conflicts' /\ Ghosts'
  BY <1>1 DEF IInv, Pins, PinOK, Pinned, Conflicts, Foreign, Ghosts
<1>4. Swept'
  <2>1. ASSUME NEW L \in CleanLineages(entries, seen)
        PROVE  /\ L # {} /\ L \subseteq DOMAIN entries
               /\ \A s \in L : RowOf(entries[s]) \in DOMAIN revs => s \notin blind
               /\ \A s \in L : \A x \in DOMAIN entries : Paired(s, x) =>
                    /\ x < s => x \in L
                    /\ x > s /\ x \in foreign /\ RowOf(entries[x]) \in DOMAIN revs => s \in foreign
    <3>1. L \in Lineages(entries) /\ L \cap ConflictedSeqs(entries, seen) = {}
      BY DEF CleanLineages
    <3>2. PICK b : L = {x \in DOMAIN entries : RowKey(entries, x) \in b} /\ L # {}
      BY <3>1 DEF Lineages
    <3>3. ASSUME NEW s \in L, NEW x \in DOMAIN entries, Paired(s, x)
          PROVE  /\ x \in L
                 /\ x \in foreign /\ RowOf(entries[x]) \in DOMAIN revs => s \in foreign
      <4> DEFINE row == RowOf(entries[x])
      <4>1. /\ s \in DOMAIN entries /\ Pinned(entries[s]) /\ Pinned(entries[x]) /\ RowOf(entries[s]) = row
            /\ PinOK(entries[s]) /\ PinOK(entries[x])
        BY <3>3 DEF Paired, IInv, Pins
      <4>2. entries[s].type = "set" /\ entries[x].type = "set"
        BY <4>1 DEF PinOK
      <4>3. RowKey(entries, x) = RowKey(entries, s)
        BY <4>1, <4>2 DEF RowKey, RowOf
      <4>4. x \in L
        BY <3>2, <4>3
      <4>5. ~EntryConflicts(entries[s], seen) /\ ~EntryConflicts(entries[x], seen)
        BY <3>1, <3>2, <4>4 DEF ConflictedSeqs
      <4>6. ASSUME x \in foreign, row \in DOMAIN revs PROVE s \in foreign
        <5>1. /\ row \in DOMAIN seen => entries[s].base = seen[row] /\ entries[x].base = seen[row]
              /\ row \notin DOMAIN seen => entries[s].base = 0 /\ entries[x].base = 0
          BY <4>1, <4>5, <4>6 DEF PinOK, EntryConflicts, Pinned
        <5>2. \A y \in {s, x} : y \in blind => row \in DOMAIN seen /\ entries[y].base < seen[row]
          BY <4>1, <4>6 DEF IInv, Ghosts
        <5>3. s \notin blind /\ x \notin blind
          BY <5>1, <5>2, SeenNat
        <5>4. /\ s \in foreign <=> entries[s].base # revs[row]
              /\ x \in foreign <=> entries[x].base # revs[row]
          BY <4>1, <4>6, <5>3 DEF IInv, Conflicts, Foreign
        <5>5. QED
          BY <4>6, <5>1, <5>4
      <4>7. QED
        BY <4>4, <4>6
    <3>4. ASSUME NEW s \in L, RowOf(entries[s]) \in DOMAIN revs, s \in blind PROVE FALSE
      <4> DEFINE row == RowOf(entries[s])
      <4>1. s \in DOMAIN entries /\ PinOK(entries[s]) /\ ~EntryConflicts(entries[s], seen)
        BY <3>1, <3>2 DEF ConflictedSeqs, IInv, Pins
      <4>2. Pinned(entries[s]) /\ row \in DOMAIN seen /\ entries[s].base < seen[row]
        BY <3>4 DEF IInv, Ghosts
      <4>3. entries[s].base = seen[row]
        BY <4>1, <4>2 DEF PinOK, EntryConflicts, Pinned
      <4>4. QED
        BY <4>2, <4>3, SeenNat
    <3>5. QED
      BY <3>2, <3>3, <3>4
  <2>2. \A s, x : Paired(s, x)' <=> Paired(s, x)
    BY <1>1 DEF Paired, Pinned
  <2>3. QED
    BY <1>1, <2>1, <2>2 DEF Swept
<1>5. QED
  BY <1>1, <1>2, <1>3, <1>4, SameQueue, SameScreen DEF IInv

-----------------------------------------------------------------------------
(* Steps that take entries out of the queue or move their pins.            *)

\* The same write, whatever revision it is pinned to.
SameEntry(e, f) ==
  /\ IsEntry(f) /\ RowOf(f) = RowOf(e) /\ References(f) = References(e)
  /\ f.type = e.type /\ f.table = e.table /\ f.id = e.id /\ f.slot = e.slot
  /\ f.conflict = e.conflict /\ f.temp = e.temp

LEMMA SubqueueKeeps ==
  ASSUME IInv, DOMAIN entries' \subseteq DOMAIN entries,
         \A x \in DOMAIN entries' : SameEntry(entries[x], entries'[x]),
         \A x \in DOMAIN entries \ DOMAIN entries' :
            entries[x].temp # Undefined => x \in DOMAIN dead' /\ dead'[x] = entries[x],
         \A x \in DOMAIN dead : x \in DOMAIN dead' /\ dead'[x] = dead[x],
         UNCHANGED <<tempCounter, live, shown, issued>>
  PROVE  EntriesKnown' /\ Unique' /\ Behind' /\ Shown'
<1>1. tempCounter' = tempCounter /\ live' = live /\ shown' = shown /\ issued' = issued
  OBVIOUS
<1>2. EntriesKnown'
  BY <1>1 DEF IInv, EntriesKnown, EntryKnown, SameEntry
<1>3. Unique'
  <2>1. ASSUME NEW s \in DOMAIN entries', NEW x \in DOMAIN entries', s # x
        PROVE  ~SameSlot(entries'[s], entries'[x])
    <3>1. ~SameSlot(entries[s], entries[x])
      BY <2>1 DEF IInv, Unique
    <3>2. QED
      BY <3>1 DEF SameSlot, SameEntry
  <2>2. QED
    BY <2>1 DEF Unique
<1>4. ASSUME NEW x, NEW r, r[2] # Undefined, InsertOf(x, r) PROVE InsertOf(x, r)'
  <2>1. CASE x \in DOMAIN dead /\ dead[x].temp = r[2] /\ dead[x].table = r[1]
    BY <2>1 DEF InsertOf
  <2>2. CASE x \in DOMAIN entries /\ entries[x].temp = r[2] /\ entries[x].table = r[1]
    <3>1. CASE x \in DOMAIN entries'
      BY <2>2, <3>1 DEF InsertOf, SameEntry
    <3>2. CASE x \notin DOMAIN entries'
      BY <1>4, <2>2, <3>2 DEF InsertOf
    <3>3. QED
      BY <3>1, <3>2
  <2>3. QED
    BY <1>4, <2>1, <2>2 DEF InsertOf
<1>5. Behind'
  <2>1. ASSUME NEW s \in DOMAIN entries', NEW r \in References(entries'[s]), r[2] < 0
        PROVE  \E x : InsertOf(x, r)' /\ (x < s \/ entries'[s].type = "setMembers")
    <3>1. r \in References(entries[s]) /\ entries'[s].type = entries[s].type /\ s \in DOMAIN entries
      BY <2>1 DEF SameEntry
    <3>2. PICK x : InsertOf(x, r) /\ (x < s \/ entries[s].type = "setMembers")
      BY <2>1, <3>1 DEF IInv, Behind
    <3>3. r[2] # Undefined
      BY <2>1 DEF Undefined
    <3>4. QED
      BY <1>4, <3>1, <3>2, <3>3
  <2>2. QED
    BY <2>1 DEF Behind
<1>6. Shown'
  <2>1. \A r \in shown : r[2] # Undefined
    BY DEF IInv, Known, Undefined
  <2>2. \A r \in shown : \A s \in DOMAIN entries' : entries'[s].temp = r[2] => entries'[s].table = r[1]
    BY DEF IInv, Shown, SameEntry
  <2>3. QED
    BY <1>1, <1>4, <2>1, <2>2 DEF IInv, Shown
<1>7. QED
  BY <1>2, <1>3, <1>5, <1>6

LEMMA SameEntryItself ==
  ASSUME NEW s \in DOMAIN entries, IInv
  PROVE  SameEntry(entries[s], entries[s])
BY DEF SameEntry, IInv, Types

\* One entry leaves the queue, with its history; the rest is as it was.
LEMMA DroppedPin ==
  ASSUME IInv, NEW s, DOMAIN entries' = DOMAIN entries \ {s},
         \A x \in DOMAIN entries' : entries'[x] = entries[x],
         \A K \in flushing' : K # {} /\ \E L \in flushing :
            K \subseteq L /\ K \subseteq DOMAIN entries' /\ L \cap DOMAIN entries' \subseteq K,
         foreign' = foreign \ {s}, blind' = blind \ {s}, UNCHANGED <<revs, seen, issued>>
  PROVE  Ghosts' /\ Swept'
<1>1. revs' = revs /\ seen' = seen /\ issued' = issued
  OBVIOUS
<1>2. Swept'
  <2>1. SameRows
    BY DEF SameRows
  <2>2. \A y, x \in DOMAIN entries' : Hides(y, x)
    BY DEF Hides
  <2>3. QED
    BY <1>1, <2>1, <2>2, SweptShrinks
<1>3. Ghosts'
  <2>1. \A x \in foreign' \cup blind' : x \in foreign \cup blind /\ x \in DOMAIN entries'
    BY DEF IInv, Ghosts
  <2>2. QED
    BY <1>1, <2>1, SeenNat, GhostsShrink
<1>4. QED
  BY <1>2, <1>3

\* Refused for good: the entry moves from the queue to the dead letters.
LEMMA FlushRejectKeeps ==
  ASSUME IInv, NEW s \in DOMAIN entries, FlushReject(s)
  PROVE  IInv'
<1>1. /\ nextSeq' = nextSeq /\ tempCounter' = tempCounter /\ live' = live /\ shown' = shown
      /\ revs' = revs /\ issued' = issued /\ seen' = seen /\ foreign' = foreign \ {s}
      /\ blind' = blind \ {s} /\ flushing' = Answered(s)
  BY DEF FlushReject
<1>2. entries' = Drop(entries, s) /\ dead' = Put(dead, s, entries[s])
  BY DEF FlushReject
<1>3. DOMAIN entries' = DOMAIN entries \ {s} /\ \A x \in DOMAIN entries' : entries'[x] = entries[x]
  BY <1>2 DEF Drop, Restrict
<1>4. /\ DOMAIN dead' = DOMAIN dead \cup {s} /\ dead'[s] = entries[s]
      /\ \A x \in DOMAIN dead \ {s} : dead'[x] = dead[x]
  BY <1>2 DEF Put
<1>5. s \notin DOMAIN dead
  BY DEF IInv, Order
<1>6. Types'
  BY <1>1, <1>3, <1>4 DEF IInv, Types
<1>7. Order'
  BY <1>1, <1>3, <1>4 DEF IInv, Order
<1>8. Known'
  BY <1>1 DEF IInv, Known
<1>9. Pins'
  BY <1>1, <1>3 DEF IInv, Pins, PinOK, Pinned
<1>10. Conflicts'
  BY <1>1, <1>3 DEF IInv, Conflicts, Foreign, Pinned
<1>11. \A x \in DOMAIN entries' : SameEntry(entries[x], entries'[x])
  BY <1>3, SameEntryItself
<1>12. EntriesKnown' /\ Unique' /\ Behind' /\ Shown'
  BY <1>1, <1>3, <1>4, <1>5, <1>11, SubqueueKeeps
<1>13. Ghosts' /\ Swept'
  BY <1>1, <1>3, AnsweredIsLess, DroppedPin
<1>14. QED
  BY <1>6, <1>7, <1>8, <1>9, <1>10, <1>12, <1>13 DEF IInv

\* The prompted conflict: a pinned set of a row the page knows, overtaken
\* as far as the page has seen.
LEMMA HeadFacts ==
  ASSUME IInv, NEW head, head = HeadConflict(entries, seen), head # Undefined
  PROVE  /\ head \in DOMAIN entries /\ entries[head].type = "set" /\ Pinned(entries[head])
         /\ RowOf(entries[head]) \in DOMAIN seen /\ RowOf(entries[head]) \in issued
         /\ seen[RowOf(entries[head])] \in Nat /\ entries[head].base \in Nat
         /\ entries[head].base < seen[RowOf(entries[head])]
         /\ entries[head].conflict = "detect" /\ entries[head].temp = Undefined
         /\ \A x \in DOMAIN entries : x # head => ~SameSlot(entries[head], entries[x])
         /\ Resolved(head) = {head}
<1>1. DOMAIN entries \subseteq Nat \ {0} /\ DOMAIN entries \subseteq Nat
  BY DEF IInv, Order
<1>2. head \in DOMAIN entries /\ EntryConflicts(entries[head], seen)
  BY <1>1, HeadConflictOf
<1>3. /\ entries[head].type = "set" /\ Pinned(entries[head]) /\ RowOf(entries[head]) \in DOMAIN seen
      /\ seen[RowOf(entries[head])] # entries[head].base /\ entries[head].conflict = "detect"
  BY <1>2 DEF EntryConflicts, Pinned
<1>4. /\ entries[head].base \in Nat /\ entries[head].base <= seen[RowOf(entries[head])]
      /\ RowOf(entries[head]) \in issued
  BY <1>2, <1>3 DEF IInv, Pins, PinOK, Known
<1>5. seen[RowOf(entries[head])] \in Nat
  BY <1>3, ConstantFacts DEF IInv, Types
<1>6. entries[head].temp = Undefined
  BY <1>2, <1>3 DEF IInv, EntriesKnown, EntryKnown
<1>7. \A x \in DOMAIN entries : x # head => ~SameSlot(entries[head], entries[x])
  BY <1>2 DEF IInv, Unique
<1>8. FindSet(entries, RowOf(entries[head]), entries[head].slot) = {head} /\ Min({head}) = head
  BY <1>1, <1>2, <1>3, <1>7, FoundSet
<1>9. Resolved(head) = {head}
  BY <1>8 DEF Resolved
<1>10. QED
  BY <1>2, <1>3, <1>4, <1>5, <1>6, <1>7, <1>9

LEMMA TakeTheirsKeeps ==
  ASSUME IInv, ResolveTakeTheirs
  PROVE  IInv'
<1> DEFINE head == HeadConflict(entries, seen)
<1>1. /\ nextSeq' = nextSeq /\ tempCounter' = tempCounter /\ live' = live /\ shown' = shown /\ dead' = dead
      /\ revs' = revs /\ issued' = issued /\ seen' = seen /\ foreign' = foreign \ Resolved(head)
      /\ blind' = blind \ Resolved(head) /\ flushing = {} /\ flushing' = flushing
      /\ head # Undefined
      /\ entries' = TakeTheirs(entries, RowOf(entries[head]), entries[head].slot)
  BY DEF ResolveTakeTheirs
<1>2. /\ head \in DOMAIN entries /\ entries[head].type = "set" /\ entries[head].temp = Undefined
      /\ \A x \in DOMAIN entries : x # head => ~SameSlot(entries[head], entries[x])
      /\ Resolved(head) = {head}
  BY <1>1, HeadFacts
<1> HIDE DEF head
<1>3. DOMAIN entries \subseteq Nat
  BY DEF IInv, Order
<1>4. entries' = Drop(entries, head)
  BY <1>1, <1>2, <1>3, TakeTheirsFields
<1>5. DOMAIN entries' = DOMAIN entries \ {head} /\ \A x \in DOMAIN entries' : entries'[x] = entries[x]
  BY <1>4 DEF Drop, Restrict
<1>6. foreign' = foreign \ {head} /\ blind' = blind \ {head} /\ flushing' = {}
  BY <1>1, <1>2
<1>7. Types'
  BY <1>1, <1>5, <1>6 DEF IInv, Types
<1>8. Order'
  BY <1>1, <1>5 DEF IInv, Order
<1>9. Known'
  BY <1>1 DEF IInv, Known
<1>10. Pins'
  BY <1>1, <1>5 DEF IInv, Pins, PinOK, Pinned
<1>11. Conflicts'
  BY <1>1, <1>5, <1>6 DEF IInv, Conflicts, Foreign, Pinned
<1>12. \A x \in DOMAIN entries' : SameEntry(entries[x], entries'[x])
  BY <1>5, SameEntryItself
<1>13. EntriesKnown' /\ Unique' /\ Behind' /\ Shown'
  BY <1>1, <1>2, <1>5, <1>12, SubqueueKeeps
<1>14. Ghosts' /\ Swept'
  BY <1>1, <1>5, <1>6, DroppedPin
<1>15. QED
  BY <1>7, <1>8, <1>9, <1>10, <1>11, <1>13, <1>14 DEF IInv

\* Keep-mine pins the edit to what the user was shown: it is a conflict still
\* if the server has moved on since, and none otherwise.
LEMMA KeepMineKeeps ==
  ASSUME IInv, ResolveKeepMine
  PROVE  IInv'
<1> DEFINE head == HeadConflict(entries, seen)
           row == RowOf(entries[head])
<1>1. /\ nextSeq' = nextSeq /\ tempCounter' = tempCounter /\ live' = live /\ shown' = shown /\ dead' = dead
      /\ revs' = revs /\ issued' = issued /\ seen' = seen
      /\ head # Undefined
      /\ entries' = KeepMine(entries, RowOf(entries[head]), entries[head].slot, seen[row])
      /\ foreign' = IF Overtaken(entries'[head]) THEN foreign \cup Resolved(head)
                    ELSE foreign \ Resolved(head)
      /\ blind' = blind \ Resolved(head) /\ flushing = {} /\ flushing' = flushing
  BY DEF ResolveKeepMine
<1>2. /\ head \in DOMAIN entries /\ entries[head].type = "set" /\ Pinned(entries[head])
      /\ row \in DOMAIN seen /\ row \in issued
      /\ seen[row] \in Nat /\ entries[head].base \in Nat /\ entries[head].base < seen[row]
      /\ entries[head].conflict = "detect" /\ entries[head].temp = Undefined
      /\ \A x \in DOMAIN entries : x # head => ~SameSlot(entries[head], entries[x])
      /\ Resolved(head) = {head}
  BY <1>1, HeadFacts
<1>3. DOMAIN entries \subseteq Nat /\ IsEntry(entries[head])
  BY <1>2 DEF IInv, Order, Types
<1>4. /\ DOMAIN entries' = DOMAIN entries /\ entries'[head] = Repinned(entries[head], seen[row])
      /\ \A x \in DOMAIN entries \ {head} : entries'[x] = entries[x]
  <2> DEFINE K == KeepMine(entries, RowOf(entries[head]), entries[head].slot, seen[row])
             revision == seen[row]
  <2>1. entries' = K
    BY <1>1
  <2> HIDE DEF head, row, revision
  <2>2. /\ DOMAIN K = DOMAIN entries /\ K[head] = Repinned(entries[head], revision)
        /\ \A x \in DOMAIN entries \ {head} : K[x] = entries[x]
    <3> DEFINE s == head
               Q == KeepMine(entries, RowOf(entries[s]), entries[s].slot, revision)
    <3>1. /\ DOMAIN Q = DOMAIN entries /\ Q[s] = Repinned(entries[s], revision)
          /\ \A x \in DOMAIN entries \ {s} : Q[x] = entries[x]
      <4> HIDE DEF s
      <4>1. /\ s \in DOMAIN entries /\ entries[s].type = "set" /\ DOMAIN entries \subseteq Nat
            /\ \A x \in DOMAIN entries : x # s => ~SameSlot(entries[s], entries[x])
        BY <1>2, <1>3 DEF s
      <4>2. Q = KeepMine(entries, RowOf(entries[s]), entries[s].slot, revision)
        OBVIOUS
      <4> HIDE DEF Q
      <4>3. QED
        BY <4>1, <4>2, KeepMineFields
    <3>2. K = Q
      BY DEF revision
    <3>3. QED
      BY <3>1, <3>2
  <2> HIDE DEF K
  <2>3. QED
    BY <2>1, <2>2 DEF revision
<1> DEFINE e == entries'[head]
<1>5. /\ SameEntry(entries[head], e) /\ e.base = seen[row]
  <2> DEFINE revision == seen[row]
             f == entries[head]
  <2>1. revision \in Nat /\ IsEntry(f) /\ e = Repinned(f, revision)
    BY <1>2, <1>3, <1>4
  <2> HIDE DEF row, head, revision, f, e
  <2>2. SameEntry(f, e) /\ e.base = revision
    BY <2>1, RepinnedFields DEF SameEntry
  <2>3. QED
    BY <2>2 DEF revision, f
<1>6. row = RowOf(entries[head])
  OBVIOUS
<1> HIDE DEF head, row, e
<1>7. /\ IsEntry(e) /\ RowOf(e) = row /\ e.type = "set" /\ e.conflict = "detect" /\ Pinned(e)
      /\ e.base = seen[row] /\ e = entries'[head]
  BY <1>2, <1>5, <1>6 DEF SameEntry, Pinned, Unpinned, e
<1>8. Overtaken(e) <=> row \in DOMAIN revs /\ revs[row] # seen[row]
  BY <1>7 DEF Overtaken, Pinned
<1>9. /\ Overtaken(e) => foreign' = foreign \cup {head}
      /\ ~Overtaken(e) => foreign' = foreign \ {head}
      /\ blind' = blind \ {head} /\ flushing' = {}
  <2>1. Resolved(head) = {head} /\ entries'[head] = e
    BY <1>2, <1>7
  <2>2. foreign' = IF Overtaken(e) THEN foreign \cup {head} ELSE foreign \ {head}
    BY <1>1, <2>1
  <2>3. QED
    BY <1>1, <2>1, <2>2
<1>10. Types'
  <2>1. \A x \in DOMAIN entries' : IsEntry(entries'[x])
    BY <1>4, <1>7 DEF IInv, Types
  <2>2. ASSUME NEW x \in foreign' PROVE x \in DOMAIN entries' /\ entries'[x].type = "set"
    <3>1. x = head \/ x \in foreign
      BY <1>9
    <3>2. CASE x = head
      BY <1>2, <1>4, <1>7, <3>2
    <3>3. CASE x \in foreign /\ x # head
      BY <1>4, <3>3 DEF IInv, Types
    <3>4. QED
      BY <3>1, <3>2, <3>3
  <2>3. QED
    BY <1>1, <2>1, <2>2 DEF IInv, Types
<1>11. Order'
  BY <1>1, <1>4 DEF IInv, Order
<1>12. Known'
  BY <1>1 DEF IInv, Known
<1>13. Pins'
  <2>1. PinOK(e)
    BY <1>2, <1>7 DEF PinOK
  <2>2. \A x \in DOMAIN entries' : PinOK(entries'[x])
    BY <1>4, <1>7, <2>1 DEF IInv, Pins
  <2>3. QED
    BY <1>1, <2>2 DEF IInv, Pins, PinOK, Pinned
<1>14. Conflicts'
  <2>1. row \in DOMAIN revs => (head \in foreign' <=> seen[row] # revs[row])
    BY <1>8, <1>9
  <2>2. \A x \in DOMAIN entries \ {head} : (x \in foreign' <=> x \in foreign) /\ (x \in blind => x \in blind')
    BY <1>9
  <2>3. ASSUME NEW x \in DOMAIN entries, x \notin blind', Pinned(entries'[x]), RowOf(entries'[x]) \in DOMAIN revs
        PROVE  x \in foreign' <=> entries'[x].base # revs[RowOf(entries'[x])]
    <3>1. CASE x = head
      BY <1>7, <2>1, <2>3, <3>1
    <3>2. CASE x # head
      BY <1>4, <2>2, <2>3, <3>2 DEF IInv, Conflicts, Foreign
    <3>3. QED
      BY <3>1, <3>2
  <2>4. QED
    BY <1>1, <1>4, <2>3 DEF Conflicts, Foreign, Pinned
<1>15. \A x \in DOMAIN entries' : SameEntry(entries[x], entries'[x])
  BY <1>4, <1>5, SameEntryItself DEF e
<1>16. EntriesKnown' /\ Unique' /\ Behind' /\ Shown'
  BY <1>1, <1>4, <1>15, SubqueueKeeps
<1>17. Swept'
  BY <1>9 DEF Swept
<1>18. Ghosts'
  <2>1. \A x \in foreign' \cup blind' : x \in DOMAIN entries /\ RowOf(entries'[x]) \in issued
    BY <1>2, <1>4, <1>6, <1>7, <1>9 DEF IInv, Ghosts
  <2>2. \A x \in blind' : x \in blind /\ entries'[x] = entries[x]
    BY <1>4, <1>9 DEF IInv, Ghosts
  <2>3. QED
    BY <1>1, <1>4, <2>1, <2>2 DEF IInv, Ghosts, Pinned
<1>19. QED
  BY <1>10, <1>11, <1>12, <1>13, <1>14, <1>16, <1>17, <1>18 DEF IInv

-----------------------------------------------------------------------------
(* A write the server accepted.                                            *)

\* What an answer says of the write it answers.
LEMMA AnswerMeans ==
  ASSUME NEW e
  PROVE  /\ "ok" \in Answers(e) /\ e.type # "delete" => RefsExist(References(e))
         /\ "ok" \in Answers(e) /\ e.type = "set" /\ e.conflict = "detect"
              => Pinned(e) /\ (RowOf(e) \in DOMAIN revs => e.base = revs[RowOf(e)])
         /\ "conflict" \in Answers(e) => RowOf(e) \in DOMAIN revs
<1> DEFINE A == e.type = "set" /\ e.conflict = "detect" /\ e.base # Unpinned
                  /\ RowOf(e) \in DOMAIN revs /\ e.base # revs[RowOf(e)]
           B == ~RefsExist(References(e)) \/ (e.type = "set" /\ e.conflict = "detect" /\ e.base = Unpinned)
<1>1. CASE e.type = "delete"
  <2>1. Answers(e) = {"ok"}
    BY <1>1 DEF Answers
  <2>2. QED
    BY <1>1, <2>1
<1>2. CASE e.type # "delete" /\ A
  <2>1. Answers(e) = {"conflict"}
    BY <1>2 DEF Answers
  <2>2. QED
    BY <1>2, <2>1
<1>3. CASE e.type # "delete" /\ ~A /\ B
  <2>1. Answers(e) = {"reject"}
    BY <1>3 DEF Answers
  <2>2. QED
    BY <1>3, <2>1
<1>4. CASE e.type # "delete" /\ ~A /\ ~B
  <2>1. Answers(e) = {"ok", "reject"}
    BY <1>4 DEF Answers
  <2>2. QED
    BY <1>4, <2>1 DEF Pinned
<1>5. QED
  BY <1>1, <1>2, <1>3, <1>4

\* A detect set moves its row's revision.
Bumps(e) == e.type = "set" /\ e.conflict = "detect"

\* The row's pins move: behind a detect set they stand right after it and move
\* with the row, behind another entry to what the page has seen of the row.
\* No other pin moves.
Carried(s, row, x) ==
  LET pin == Pinned(entries[x]) /\ RowOf(entries[x]) = row
  IN  /\ Bumps(entries[s]) /\ pin => x > s /\ x \notin foreign /\ entries'[x].base = revs'[row]
      /\ ~Bumps(entries[s]) /\ pin /\ x > s /\ row \in DOMAIN seen => entries'[x].base = seen[row]
      /\ \/ entries'[x].base = entries[x].base
         \/ pin /\ x > s /\ (Bumps(entries[s]) \/ row \in DOMAIN seen)

\* The accepted entry is the first pin of its row and at the row's revision; if
\* the row moves, the pins that follow move with it.
LEMMA WriteFacts ==
  ASSUME IInv, NEW s \in DOMAIN entries, FlushWrite(s), NEW row, row = RowOf(entries[s])
  PROVE  /\ DOMAIN entries' = DOMAIN entries \ {s} /\ entries[s].temp = Undefined
         /\ \A x \in DOMAIN entries' : SameEntry(entries[x], entries'[x])
         /\ \A x \in DOMAIN entries' : Pinned(entries'[x]) <=> Pinned(entries[x])
         /\ \A x \in DOMAIN entries' : Carried(s, row, x)
         /\ Bumps(entries[s]) => /\ row \in DOMAIN revs /\ DOMAIN revs' = DOMAIN revs /\ revs'[row] = revs[row] + 1
                                 /\ revs[row] < MaxRev /\ revs[row] \in Nat
                                 /\ \A r \in DOMAIN revs \ {row} : revs'[r] = revs[r]
                                 /\ DOMAIN seen' = DOMAIN seen \cup {row} /\ seen'[row] = revs'[row]
                                 /\ \A r \in DOMAIN seen \ {row} : seen'[r] = seen[r]
         /\ ~Bumps(entries[s]) => /\ seen' = seen /\ DOMAIN revs' \subseteq DOMAIN revs
                                  /\ \A r \in DOMAIN revs' : revs'[r] = revs[r]
<1> DEFINE e == entries[s]
<1>1. /\ Flushable(s) /\ e.type # "insert" /\ "ok" \in Answers(e)
      /\ Bumps(entries[s]) => revs[row] < MaxRev
  BY DEF FlushWrite, Bumps
<1>2. /\ Bumps(entries[s]) => revs' = [revs EXCEPT ![row] = @ + 1] /\ seen' = Put(seen, row, revs'[row])
      /\ ~Bumps(entries[s]) => seen' = seen
      /\ ~Bumps(entries[s]) => (revs' = Restrict(revs, DOMAIN revs \ {row}) \/ revs' = revs)
  <2>1. CASE Bumps(entries[s])
    BY <2>1 DEF FlushWrite, Bumps
  <2>2. CASE ~Bumps(entries[s])
    BY <2>2 DEF FlushWrite, Bumps
  <2>3. QED
    BY <2>1, <2>2
<1>3. /\ row \in DOMAIN seen' => entries' = AdvanceBase(Drop(entries, s), row, s, seen'[row])
      /\ row \notin DOMAIN seen' => entries' = Drop(entries, s)
  BY DEF FlushWrite
<1>4. IsEntry(e) /\ DOMAIN entries \subseteq Nat
  BY DEF IInv, Types, Order
<1>5. /\ \A x \in DOMAIN entries : Paired(s, x) =>
           /\ s <= x
           /\ x > s /\ x \in foreign /\ RowOf(entries[x]) \in DOMAIN revs => s \in foreign
      /\ row \in DOMAIN revs => s \notin blind
  BY <1>1, FlushableFirst
<1>6. e.temp = Undefined /\ e.id # Undefined
  <2>1. ~(e.id < 0) => e.id \in Nat \ {Undefined}
    BY <1>1 DEF IInv, EntriesKnown, EntryKnown, Known, RowOf
  <2>2. QED
    BY <1>1, <2>1 DEF IInv, EntriesKnown, EntryKnown, Undefined
<1>7. Bumps(entries[s]) => row \in DOMAIN revs /\ Pinned(e) /\ e.base = revs[row]
  <2>1. SUFFICES ASSUME Bumps(entries[s]) PROVE row \in DOMAIN revs /\ Pinned(e) /\ e.base = revs[row]
    OBVIOUS
  <2>2. RefsExist(References(e)) /\ Pinned(e) /\ (row \in DOMAIN revs => e.base = revs[row])
    BY <1>1, <2>1, AnswerMeans DEF Bumps
  <2>3. row \in References(e) /\ row[2] # Undefined
    BY <1>6 DEF References, RowOf
  <2>4. QED
    BY <2>2, <2>3 DEF RefsExist
<1> HIDE DEF e
<1>8. Bumps(entries[s]) => /\ row \in DOMAIN revs /\ DOMAIN revs' = DOMAIN revs /\ revs'[row] = revs[row] + 1
                           /\ revs[row] < MaxRev /\ revs[row] \in Nat
                           /\ \A r \in DOMAIN revs \ {row} : revs'[r] = revs[r]
                           /\ DOMAIN seen' = DOMAIN seen \cup {row} /\ seen'[row] = revs'[row]
                           /\ \A r \in DOMAIN seen \ {row} : seen'[r] = seen[r]
  <2>1. SUFFICES ASSUME Bumps(entries[s]) PROVE <1>8!2
    OBVIOUS
  <2>2. row \in DOMAIN revs /\ revs[row] < MaxRev /\ revs[row] \in Nat
    BY <1>1, <1>7, <2>1, ConstantFacts DEF IInv, Types
  <2>3. /\ DOMAIN revs' = DOMAIN revs /\ revs'[row] = revs[row] + 1
        /\ \A r \in DOMAIN revs \ {row} : revs'[r] = revs[r]
    BY <1>2, <2>1, <2>2
  <2>4. /\ DOMAIN seen' = DOMAIN seen \cup {row} /\ seen'[row] = revs'[row]
        /\ \A r \in DOMAIN seen \ {row} : seen'[r] = seen[r]
    BY <1>2, <2>1 DEF Put
  <2>5. QED
    BY <2>2, <2>3, <2>4
<1>9. ~Bumps(entries[s]) => /\ seen' = seen /\ DOMAIN revs' \subseteq DOMAIN revs
                            /\ \A r \in DOMAIN revs' : revs'[r] = revs[r]
  BY <1>2 DEF Restrict
<1>10. /\ DOMAIN entries' = DOMAIN entries \ {s}
       /\ \A x \in DOMAIN entries \ {s} :
            \/ entries'[x] = entries[x] /\ ~(x > s /\ entries[x].type = "set" /\ RowOf(entries[x]) = row
                                             /\ Pinned(entries[x]) /\ row \in DOMAIN seen')
            \/ /\ entries'[x] = Repinned(entries[x], seen'[row]) /\ row \in DOMAIN seen'
               /\ x > s /\ entries[x].type = "set" /\ RowOf(entries[x]) = row /\ Pinned(entries[x])
  <2> DEFINE rest == Drop(entries, s)
  <2>1. DOMAIN rest = DOMAIN entries \ {s} /\ \A x \in DOMAIN entries \ {s} : rest[x] = entries[x]
    BY DEF Drop, Restrict
  <2>2. CASE row \notin DOMAIN seen'
    BY <1>3, <2>1, <2>2
  <2>3. CASE row \in DOMAIN seen'
    <3>1. entries' = AdvanceBase(rest, row, s, seen'[row])
      BY <1>3, <2>3
    <3> HIDE DEF rest
    <3>2. /\ DOMAIN entries' = DOMAIN rest
          /\ \A x \in DOMAIN rest :
              entries'[x] = IF x > s /\ rest[x].type = "set" /\ RowOf(rest[x]) = row /\ Pinned(rest[x])
                            THEN Repinned(rest[x], seen'[row]) ELSE rest[x]
      BY <3>1 DEF AdvanceBase, Repinned, Pinned
    <3>3. QED
      BY <2>1, <2>3, <3>2
  <2>4. QED
    BY <2>2, <2>3
<1>11. row \in DOMAIN seen' => seen'[row] \in Nat
  <2>1. row \in DOMAIN seen => seen[row] \in Nat
    BY ConstantFacts DEF IInv, Types
  <2>2. QED
    BY <1>8, <1>9, <2>1
<1>12. ASSUME NEW x \in DOMAIN entries \ {s}, Pinned(entries[x])
       PROVE  entries[x].type = "set"
  BY <1>12 DEF IInv, Pins, PinOK
\* Behind a detect set, the row's other pins come later and were not overtaken.
<1>13. ASSUME Bumps(entries[s]), NEW x \in DOMAIN entries \ {s}, Pinned(entries[x]), RowOf(entries[x]) = row
       PROVE  x > s /\ x \notin foreign
  <2>1. row \in DOMAIN revs /\ Pinned(e) /\ e.base = revs[row]
    BY <1>7, <1>13
  <2>2. Paired(s, x)
    BY <1>13, <2>1 DEF Paired, e
  <2>3. s \notin foreign
    BY <1>5, <2>1 DEF IInv, Conflicts, Foreign, e
  <2>4. s <= x /\ (x > s /\ x \in foreign => s \in foreign)
    BY <1>5, <1>13, <2>1, <2>2
  <2>5. x \in Nat /\ s \in Nat /\ x # s
    BY <1>4
  <2>6. QED
    BY <2>3, <2>4, <2>5
<1>14. ASSUME NEW x \in DOMAIN entries'
       PROVE  /\ SameEntry(entries[x], entries'[x])
              /\ Pinned(entries'[x]) <=> Pinned(entries[x])
              /\ Carried(s, row, x)
  <2>1. x \in DOMAIN entries \ {s} /\ IsEntry(entries[x])
    BY <1>10 DEF IInv, Types
  <2>2. CASE ~(Pinned(entries[x]) /\ RowOf(entries[x]) = row /\ x > s /\ row \in DOMAIN seen')
    <3>1. entries'[x] = entries[x]
      BY <1>10, <2>1, <2>2
    <3>2. Carried(s, row, x)
      <4>1. Bumps(entries[s]) => row \in DOMAIN seen'
        BY <1>8
      <4>2. ~Bumps(entries[s]) => (row \in DOMAIN seen' <=> row \in DOMAIN seen)
        BY <1>9
      <4>3. Bumps(entries[s]) /\ Pinned(entries[x]) /\ RowOf(entries[x]) = row => x > s /\ x \notin foreign
        BY <1>13, <2>1
      <4>4. QED
        BY <2>2, <3>1, <4>1, <4>2, <4>3 DEF Carried
    <3>3. QED
      BY <2>1, <3>1, <3>2, SameEntryItself
  <2>3. CASE Pinned(entries[x]) /\ RowOf(entries[x]) = row /\ x > s /\ row \in DOMAIN seen'
    <3>1. entries'[x] = Repinned(entries[x], seen'[row])
      BY <1>10, <1>12, <2>1, <2>3
    <3> DEFINE rev == seen'[row]
    <3>2. rev \in Nat /\ entries'[x] = Repinned(entries[x], rev) /\ rev = seen'[row]
      BY <1>11, <2>3, <3>1
    <3> HIDE DEF rev
    <3>3. /\ SameEntry(entries[x], Repinned(entries[x], rev))
          /\ Repinned(entries[x], rev).base = rev
      BY <2>1, <3>2, RepinnedFields DEF SameEntry
    <3>4. SameEntry(entries[x], entries'[x]) /\ entries'[x].base = seen'[row]
      BY <3>2, <3>3
    <3>5. Pinned(entries'[x])
      BY <3>2, <3>4 DEF Pinned, Unpinned
    <3>6. Bumps(entries[s]) => entries'[x].base = revs'[row] /\ x \notin foreign
      BY <1>8, <1>13, <2>1, <2>3, <3>4
    <3>7. ~Bumps(entries[s]) => entries'[x].base = seen[row] /\ row \in DOMAIN seen
      BY <1>9, <2>3, <3>4
    <3>8. Carried(s, row, x)
      BY <2>3, <3>6, <3>7 DEF Carried
    <3>9. QED
      BY <2>3, <3>4, <3>5, <3>8
  <2>4. QED
    BY <2>2, <2>3
<1>15. QED
  BY <1>6, <1>8, <1>9, <1>10, <1>14 DEF e

LEMMA FlushWriteKeeps ==
  ASSUME IInv, NEW s \in DOMAIN entries, FlushWrite(s), NEW row, row = RowOf(entries[s])
  PROVE  IInv'
<1>1. /\ nextSeq' = nextSeq /\ tempCounter' = tempCounter /\ live' = live /\ shown' = shown /\ dead' = dead
      /\ issued' = issued /\ flushing' = Answered(s)
  BY DEF FlushWrite
<1>2. /\ DOMAIN entries' = DOMAIN entries \ {s} /\ entries[s].temp = Undefined
      /\ \A x \in DOMAIN entries' : SameEntry(entries[x], entries'[x])
      /\ \A x \in DOMAIN entries' : Pinned(entries'[x]) <=> Pinned(entries[x])
  BY WriteFacts
<1>3. \A x \in DOMAIN entries' : Carried(s, row, x)
  BY WriteFacts
<1>4. Bumps(entries[s]) => /\ row \in DOMAIN revs /\ DOMAIN revs' = DOMAIN revs /\ revs'[row] = revs[row] + 1
                           /\ revs[row] < MaxRev /\ revs[row] \in Nat
                           /\ \A r \in DOMAIN revs \ {row} : revs'[r] = revs[r]
                           /\ DOMAIN seen' = DOMAIN seen \cup {row} /\ seen'[row] = revs'[row]
                           /\ \A r \in DOMAIN seen \ {row} : seen'[r] = seen[r]
  BY WriteFacts
<1>5. ~Bumps(entries[s]) => /\ seen' = seen /\ DOMAIN revs' \subseteq DOMAIN revs
                            /\ \A r \in DOMAIN revs' : revs'[r] = revs[r]
  BY WriteFacts
<1>6. EntriesKnown' /\ Unique' /\ Behind' /\ Shown'
  BY <1>1, <1>2, SubqueueKeeps
<1>7. Order'
  BY <1>1, <1>2 DEF IInv, Order
<1>8. /\ DOMAIN revs' \subseteq DOMAIN revs /\ DOMAIN seen \subseteq DOMAIN seen'
      /\ \A r \in DOMAIN seen' : r \in DOMAIN seen \/ r \in DOMAIN revs
  BY <1>4, <1>5
<1>9. Known'
  BY <1>1, <1>8 DEF IInv, Known
<1>10. ASSUME NEW x \in DOMAIN entries'
       PROVE  /\ PinOK(entries[x]) /\ x \in DOMAIN entries /\ x # s /\ x \in Int /\ s \in Int
              /\ RowOf(entries'[x]) = RowOf(entries[x])
              /\ entries'[x].type = entries[x].type /\ entries'[x].conflict = entries[x].conflict
              /\ Pinned(entries'[x]) <=> Pinned(entries[x])
  BY <1>2 DEF IInv, Pins, SameEntry, Order
\* The pins that are carried, and what becomes of the histories.
<1> DEFINE carried(x) == x > s /\ RowOf(entries[x]) = row /\ (Bumps(entries[s]) \/ row \in DOMAIN seen)
<1>11. \A x \in DOMAIN entries' :
         /\ x \in blind' <=> x \in blind /\ ~carried(x)
         /\ Bumps(entries[s]) => (x \in foreign' <=> x \in foreign)
         /\ ~carried(x) => (x \in foreign' <=> x \in foreign)
         /\ ~Bumps(entries[s]) /\ carried(x) => (x \in foreign' <=> Overtaken(entries'[x]))
  <2>1. \A x \in DOMAIN entries : x \in Later(s) <=> x > s /\ RowOf(entries[x]) = row
    BY DEF Later
  <2>2. CASE Bumps(entries[s])
    <3>1. foreign' = foreign \ {s} /\ blind' = blind \ ({s} \cup Later(s))
      BY <2>2 DEF FlushWrite, Bumps
    <3>2. QED
      BY <1>10, <2>1, <2>2, <3>1
  <2>3. CASE ~Bumps(entries[s]) /\ row \in DOMAIN seen
    <3>1. /\ foreign' = (foreign \ ({s} \cup Later(s))) \cup {x \in Later(s) : Overtaken(entries'[x])}
          /\ blind' = blind \ ({s} \cup Later(s))
      BY <2>3 DEF FlushWrite, Bumps
    <3>2. QED
      BY <1>10, <2>1, <2>3, <3>1
  <2>4. CASE ~Bumps(entries[s]) /\ row \notin DOMAIN seen
    <3>1. /\ foreign' = (foreign \ ({s} \cup {})) \cup {x \in {} : Overtaken(entries'[x])}
          /\ blind' = blind \ ({s} \cup {})
      BY <2>4 DEF FlushWrite, Bumps
    <3>2. QED
      BY <1>10, <2>4, <3>1
  <2>5. QED
    BY <2>2, <2>3, <2>4
<1>12. foreign' \cup blind' \subseteq DOMAIN entries'
  <2>1. foreign \cup blind \subseteq DOMAIN entries
    BY DEF IInv, Ghosts
  <2>2. foreign' \cup blind' \subseteq (foreign \cup blind \cup Later(s)) \ {s}
    <3>1. s \notin Later(s)
      BY DEF Later, IInv, Order
    <3>2. CASE Bumps(entries[s])
      BY <3>2 DEF FlushWrite, Bumps
    <3>3. CASE ~Bumps(entries[s])
      BY <3>1, <3>3 DEF FlushWrite, Bumps
    <3>4. QED
      BY <3>2, <3>3
  <2>3. Later(s) \subseteq DOMAIN entries
    BY DEF Later
  <2>4. QED
    BY <1>2, <2>1, <2>2, <2>3
<1> HIDE DEF carried
\* What is overtaken now was so before, or was blind.
<1>13. ASSUME NEW x \in DOMAIN entries', x \in foreign' PROVE x \in foreign \cup blind
  <2>1. SUFFICES ASSUME ~Bumps(entries[s]), carried(x) PROVE x \in foreign \cup blind
    BY <1>11, <1>13
  <2>2. Overtaken(entries'[x])
    BY <1>11, <1>13, <2>1
  <2>3. /\ Pinned(entries'[x]) /\ Pinned(entries[x]) /\ RowOf(entries[x]) = row
        /\ row \in DOMAIN revs /\ revs[row] # entries'[x].base /\ x > s /\ row \in DOMAIN seen
    BY <1>10, <2>1, <2>2 DEF Overtaken, Pinned, carried
  <2>4. entries'[x].base = seen[row]
    BY <1>3, <2>1, <2>3 DEF Carried
  <2>5. QED
    BY <1>10, <2>3, <2>4, BehindIsForeign
<1>14. Types'
  <2>1. Bumps(entries[s]) => revs'[row] \in 0..MaxRev
    BY <1>4, ConstantFacts
  <2>2. \A r \in DOMAIN revs' : revs'[r] \in 0..MaxRev
    BY <1>4, <1>5, <2>1 DEF IInv, Types
  <2>3. \A r \in DOMAIN seen' : seen'[r] \in 0..MaxRev
    BY <1>4, <1>5, <2>1 DEF IInv, Types
  <2>4. \A x \in DOMAIN entries' : IsEntry(entries'[x])
    BY <1>2 DEF SameEntry
  <2>5. ASSUME NEW x \in foreign' PROVE x \in DOMAIN entries' /\ entries'[x].type = "set"
    <3>1. x \in DOMAIN entries' /\ x \in foreign \cup blind
      BY <1>12, <1>13
    <3>2. x \in blind => entries[x].type = "set"
      BY <1>10, <3>1 DEF IInv, Ghosts, PinOK
    <3>3. QED
      BY <1>10, <3>1, <3>2 DEF IInv, Types
  <2>6. QED
    BY <1>1, <2>2, <2>3, <2>4, <2>5 DEF IInv, Types
<1>15. Pins'
  <2>1. ASSUME NEW x \in DOMAIN entries', Pinned(entries'[x]) PROVE PinOK(entries[x])'
    <3> DEFINE f == entries[x]
               r == RowOf(f)
    <3>1. /\ f.type = "set" /\ f.conflict = "detect" /\ f.base \in Nat
          /\ r \in DOMAIN seen => f.base <= seen[r]
          /\ r \notin DOMAIN seen /\ (f.id < 0 \/ r \in DOMAIN revs) => f.base = 0
          /\ entries'[x].id = f.id
      BY <1>2, <1>10, <2>1 DEF PinOK, SameEntry
    <3>2. CASE Bumps(entries[s]) /\ r = row
      <4>1. entries'[x].base = revs'[row] /\ revs'[row] \in Nat
        BY <1>3, <1>4, <1>10, <2>1, <3>2 DEF Carried
      <4>2. seen'[row] = revs'[row] /\ row \in DOMAIN seen'
        BY <1>4, <3>2
      <4>3. revs'[row] <= revs'[row]
        BY <4>1
      <4>4. QED
        BY <1>1, <1>10, <3>1, <3>2, <4>1, <4>2, <4>3 DEF PinOK, Pinned
    <3>3. CASE ~Bumps(entries[s]) /\ r = row /\ x > s /\ row \in DOMAIN seen
      <4>1. entries'[x].base = seen[row] /\ seen[row] \in Nat /\ seen[row] <= seen[row]
        BY <1>3, <1>10, <2>1, <3>3, SeenNat DEF Carried
      <4>2. seen' = seen
        BY <1>5, <3>3
      <4>3. QED
        BY <1>10, <3>1, <3>3, <4>1, <4>2 DEF PinOK, Pinned
    <3>4. CASE ~(r = row /\ x > s /\ (Bumps(entries[s]) \/ row \in DOMAIN seen)) /\ ~(Bumps(entries[s]) /\ r = row)
      <4>1. entries'[x].base = f.base
        BY <1>3, <3>4 DEF Carried
      <4>2. /\ r \in DOMAIN seen' => r \in DOMAIN seen /\ seen'[r] = seen[r]
            /\ r \in DOMAIN seen => r \in DOMAIN seen'
        BY <1>4, <1>5, <3>4
      <4>3. r \in DOMAIN revs' => r \in DOMAIN revs
        BY <1>8
      <4>4. QED
        BY <1>1, <1>10, <3>1, <4>1, <4>2, <4>3 DEF PinOK, Pinned
    <3>5. QED
      BY <3>2, <3>3, <3>4
  <2>2. ASSUME NEW r \in DOMAIN revs' \cap DOMAIN seen' PROVE seen'[r] <= revs'[r]
    <3>1. CASE Bumps(entries[s]) /\ r = row
      <4>1. seen'[r] = revs'[r] /\ revs'[r] \in Nat
        BY <1>4, <3>1
      <4>2. QED
        BY <4>1
    <3>2. CASE ~(Bumps(entries[s]) /\ r = row)
      <4>1. r \in DOMAIN seen /\ r \in DOMAIN revs /\ seen'[r] = seen[r] /\ revs'[r] = revs[r]
        BY <1>4, <1>5, <3>2
      <4>2. QED
        BY <4>1 DEF IInv, Pins
    <3>3. QED
      BY <3>1, <3>2
  <2>3. QED
    BY <2>1, <2>2 DEF Pins, PinOK, Pinned
<1>16. Conflicts'
  <2>1. ASSUME NEW x \in DOMAIN entries', x \notin blind', Pinned(entries'[x]), RowOf(entries'[x]) \in DOMAIN revs'
        PROVE  x \in foreign' <=> entries'[x].base # revs'[RowOf(entries'[x])]
    <3> DEFINE r == RowOf(entries[x])
    <3>1. /\ RowOf(entries'[x]) = r /\ r \in DOMAIN revs /\ Pinned(entries[x]) /\ x \in DOMAIN entries
      BY <1>8, <1>10, <2>1
    <3>2. CASE Bumps(entries[s]) /\ r = row
      <4>1. entries'[x].base = revs'[row] /\ x \notin foreign
        BY <1>3, <3>1, <3>2 DEF Carried
      <4>2. x \notin foreign'
        BY <1>11, <3>2, <4>1
      <4>3. QED
        BY <3>1, <3>2, <4>1, <4>2
    <3>3. CASE ~Bumps(entries[s]) /\ carried(x)
      <4>1. r = row /\ revs'[row] = revs[row] /\ row \in DOMAIN revs
        BY <1>5, <2>1, <3>1, <3>3 DEF carried
      <4>2. x \in foreign' <=> Overtaken(entries'[x])
        BY <1>11, <3>3
      <4>3. Overtaken(entries'[x]) <=> revs[row] # entries'[x].base
        BY <2>1, <3>1, <4>1 DEF Overtaken, Pinned
      <4>4. QED
        BY <3>1, <4>1, <4>2, <4>3
    <3>4. CASE ~carried(x) /\ ~(Bumps(entries[s]) /\ r = row)
      <4>1. entries'[x].base = entries[x].base /\ revs'[r] = revs[r]
        BY <1>3, <1>4, <1>5, <2>1, <3>1, <3>4 DEF Carried, carried
      <4>2. x \notin blind /\ (x \in foreign' <=> x \in foreign)
        BY <1>11, <2>1, <3>4
      <4>3. x \in foreign <=> entries[x].base # revs[r]
        BY <3>1, <4>2 DEF IInv, Conflicts, Foreign
      <4>4. QED
        BY <3>1, <4>1, <4>2, <4>3
    <3>5. Bumps(entries[s]) /\ carried(x) => r = row
      BY DEF carried
    <3>6. QED
      BY <3>2, <3>3, <3>4, <3>5
  <2>2. QED
    BY <2>1 DEF Conflicts, Foreign, Pinned
<1>17. Ghosts'
  <2>1. \A x \in foreign' \cup blind' : /\ x \in foreign \cup blind /\ x \in DOMAIN entries'
                                        /\ RowOf(entries'[x]) = RowOf(entries[x])
    BY <1>10, <1>11, <1>12, <1>13
  <2>2. ASSUME NEW x \in blind' PROVE x \in blind /\ entries'[x].base = entries[x].base
    <3>1. x \in DOMAIN entries' /\ x \in blind /\ ~carried(x)
      BY <1>11, <1>12
    <3>2. QED
      BY <1>3, <3>1 DEF Carried, carried
  <2>3. ASSUME NEW r \in issued, r \in DOMAIN revs'
        PROVE  r \in DOMAIN revs /\ (r \in DOMAIN seen => r \in DOMAIN seen' /\ seen[r] <= seen'[r])
    <3>1. r \in DOMAIN revs
      BY <1>8, <2>3
    <3>2. r \in DOMAIN seen => seen[r] \in Nat /\ seen[r] <= revs[r]
      BY <3>1, SeenNat DEF IInv, Pins
    <3>3. CASE Bumps(entries[s]) /\ r = row
      BY <1>4, <3>1, <3>2, <3>3
    <3>4. CASE ~(Bumps(entries[s]) /\ r = row)
      BY <1>4, <1>5, <3>1, <3>2, <3>4
    <3>5. QED
      BY <3>3, <3>4
  <2>4. \A r \in DOMAIN seen' : seen'[r] \in Nat
    BY <1>14, ConstantFacts DEF Types
  <2>5. QED
    BY <1>1, <2>1, <2>2, <2>3, <2>4, GhostsShrink
<1>18. Swept'
  <2>1. SameRows
    BY <1>10 DEF SameRows
  <2>2. blind' \subseteq blind
    BY <1>11, <1>12
  <2>3. ASSUME NEW y \in DOMAIN entries', NEW x \in DOMAIN entries' PROVE Hides(y, x)
    <3>1. SUFFICES ASSUME x > y, Paired(y, x), y \notin blind, x \in foreign', x \in foreign => y \in foreign
                   PROVE  y \in foreign'
      BY DEF Hides
    <3>2. x \in Int /\ y \in Int /\ s \in Int /\ y # s /\ y \in DOMAIN entries /\ x \in DOMAIN entries
      BY <1>10
    <3>3. Pinned(entries[y]) /\ Pinned(entries[x]) /\ RowOf(entries[y]) = RowOf(entries[x])
      BY <3>1 DEF Paired
    <3>4. CASE Bumps(entries[s]) \/ ~carried(x)
      <4>1. x \in foreign
        BY <1>11, <3>1, <3>4
      <4>2. carried(y) => carried(x)
        BY <3>1, <3>2, <3>3 DEF carried
      <4>3. QED
        BY <1>11, <3>1, <3>4, <4>1, <4>2
    <3>5. CASE ~Bumps(entries[s]) /\ carried(x)
      <4>1. Overtaken(entries'[x]) /\ x > s /\ RowOf(entries[x]) = row /\ row \in DOMAIN seen
        BY <1>11, <3>1, <3>5 DEF carried
      <4>2. row \in DOMAIN revs /\ revs[row] # seen[row]
        BY <1>3, <1>10, <3>3, <3>5, <4>1 DEF Overtaken, Carried
      <4>3. y \in foreign
        BY <3>1, <3>2, <3>3, <4>1, <4>2, BehindIsForeign
      <4>4. CASE carried(y)
        <5>1. y > s
          BY <4>4 DEF carried
        <5>2. entries'[y].base = seen[row] /\ Pinned(entries'[y]) /\ RowOf(entries'[y]) = row
          BY <1>3, <1>10, <3>3, <3>5, <4>1, <5>1 DEF Carried
        <5>3. Overtaken(entries'[y])
          BY <4>2, <5>2 DEF Overtaken, Pinned
        <5>4. QED
          BY <1>11, <3>5, <4>4, <5>3
      <4>5. CASE ~carried(y)
        BY <1>11, <4>3, <4>5
      <4>6. QED
        BY <4>4, <4>5
    <3>6. QED
      BY <3>4, <3>5
  <2>4. QED
    BY <1>1, <1>2, <1>8, <1>10, <1>13, <2>1, <2>2, <2>3, AnsweredIsLess, SweptShrinks
<1>19. QED
  BY <1>6, <1>7, <1>9, <1>14, <1>15, <1>16, <1>17, <1>18 DEF IInv

-----------------------------------------------------------------------------
(* An insert the server accepted.                                          *)

\* What stays of an entry when the temp id of e is replaced by real: its row
\* may become the new one, and it no longer refers to the temp id.
MovedBy(e, real, f, g) ==
  /\ IsEntry(g) /\ g.type = f.type /\ g.table = f.table /\ g.slot = f.slot /\ g.base = f.base
  /\ g.conflict = f.conflict /\ g.temp = f.temp
  /\ \/ g.id = f.id
     \/ g.id = real /\ e.temp < 0 /\ f.id = e.temp /\ f.table = e.table
  /\ \A r \in References(g) : r[2] < 0 => r \in References(f) /\ ~(r[2] = e.temp /\ r[1] = e.table)

LEMMA AckInsertMoves ==
  ASSUME IInv, NEW s \in DOMAIN entries, NEW real \in RealIds, entries[s].type = "insert",
         NEW x \in DOMAIN entries \ {s}
  PROVE  MovedBy(entries[s], real, entries[x], AckInsert(entries, s, real)[x])
<1> DEFINE e == entries[s]
           f == entries[x]
           g == AckInsert(entries, s, real)[x]
           map == [t \in {e.temp} |-> [real |-> real, table |-> e.table]]
<1>1. IsEntry(e) /\ IsEntry(f) /\ EntryKnown(e)
  BY DEF IInv, Types, EntriesKnown
<1>2. CASE e.temp = Undefined
  <2>1. g = f
    BY <1>2 DEF AckInsert, Drop, Restrict
  <2>2. \A r \in References(f) : r[2] < 0 => ~(r[2] = e.temp)
    BY <1>2 DEF Undefined
  <2> HIDE DEF e, f, g
  <2>3. MovedBy(e, real, f, g)
    BY <1>1, <2>1, <2>2 DEF MovedBy
  <2>4. QED
    BY <2>3 DEF e, f, g
<1>3. CASE e.temp # Undefined
  <2>1. g = Translate(f, map)
    BY <1>3 DEF AckInsert, Drop, Restrict
  <2>2. e.temp < 0 /\ e.table \in Tables
    BY <1>1, <1>3 DEF EntryKnown, IsEntry
  <2>3. DOMAIN map = {e.temp} /\ map[e.temp] = [real |-> real, table |-> e.table]
    OBVIOUS
  <2> HIDE DEF e, f, g, map
  <2>4. IsMap(map)
    BY <2>2, <2>3 DEF IsMap
  <2>5. map[e.temp].table = e.table /\ map[e.temp].real = real
    BY <2>3
  <2>6. IsEntry(g)
    BY <1>1, <2>1, <2>4, TranslateTyped
  <2>7. /\ g.type = f.type /\ g.table = f.table /\ g.slot = f.slot /\ g.base = f.base
        /\ g.conflict = f.conflict /\ g.temp = f.temp /\ g.id = Resolve(map, f.id, f.table)
    BY <1>1, <2>1, TranslateFields
  <2>8. g.id = f.id \/ (g.id = real /\ e.temp < 0 /\ f.id = e.temp /\ f.table = e.table)
    BY <2>2, <2>3, <2>5, <2>7 DEF Resolve
  <2>9. ASSUME NEW r \in References(g), r[2] < 0
        PROVE  r \in References(f) /\ ~(r[2] = e.temp /\ r[1] = e.table)
    <3>1. r \in References(f) /\ ~(r[2] \in DOMAIN map /\ map[r[2]].table = r[1])
      BY <1>1, <2>1, <2>4, <2>9, TranslateRefs
    <3>2. QED
      BY <2>3, <2>5, <3>1
  <2>10. MovedBy(e, real, f, g)
    BY <2>6, <2>7, <2>8, <2>9 DEF MovedBy
  <2>11. QED
    BY <2>10 DEF e, f, g
<1>4. QED
  BY <1>2, <1>3

LEMMA FlushInsertKeeps ==
  ASSUME IInv, NEW s \in DOMAIN entries, NEW real \in RealIds, FlushInsert(s, real)
  PROVE  IInv'
<1> DEFINE e == entries[s]
           new == <<e.table, real>>
<1>1. /\ nextSeq' = nextSeq /\ tempCounter' = tempCounter /\ shown' = shown /\ dead' = dead
      /\ seen' = seen /\ foreign' = foreign /\ blind' = blind /\ flushing' = Answered(s)
      /\ e.type = "insert" /\ new \notin issued /\ issued' = issued \cup {new}
      /\ entries' = AckInsert(entries, s, real)
      /\ revs' = Put(revs, new, 0)
      /\ e.temp = Undefined => live' = live
      /\ e.temp # Undefined => live' = Put(live, e.temp, [real |-> real, table |-> e.table])
  BY DEF FlushInsert
<1>2. DOMAIN revs' = DOMAIN revs \cup {new} /\ revs'[new] = 0
      /\ \A r \in DOMAIN revs \ {new} : revs'[r] = revs[r]
  <2> HIDE DEF new, e
  <2>1. QED
    BY <1>1 DEF Put
<1>3. DOMAIN entries' = DOMAIN entries \ {s}
  BY <1>1, AckInsertFields
<1>4. \A x \in DOMAIN entries' : MovedBy(e, real, entries[x], entries'[x])
  BY <1>1, <1>3, AckInsertMoves
<1>5. IsEntry(e) /\ EntryKnown(e)
  BY DEF IInv, Types, EntriesKnown
<1>6. e.table \in Tables /\ real \in Nat \ {0} /\ real \in Int /\ ~(real < 0)
  BY <1>5, ConstantFacts DEF IsEntry
<1>7. e.temp # Undefined => e.temp < 0
  BY <1>5 DEF EntryKnown
<1>8. e.temp # Undefined =>
        /\ DOMAIN live' = DOMAIN live \cup {e.temp}
        /\ live'[e.temp] = [real |-> real, table |-> e.table]
        /\ \A t \in DOMAIN live \ {e.temp} : live'[t] = live[t]
  <2> HIDE DEF e, new
  <2>1. QED
    BY <1>1 DEF Put
<1>9. new[1] = e.table /\ new[2] = real /\ new \in Tables \X (Nat \ {Undefined}) /\ new = <<e.table, real>>
  BY <1>6 DEF Undefined
<1>10. e = entries[s]
  OBVIOUS
<1> HIDE DEF e, new
<1>11. new \notin DOMAIN revs /\ new \notin DOMAIN seen
  BY <1>1 DEF IInv, Known
<1>12. ASSUME NEW x \in DOMAIN entries'
       PROVE  /\ x \in DOMAIN entries /\ x # s /\ IsEntry(entries[x]) /\ EntryKnown(entries[x]) /\ PinOK(entries[x])
              /\ MovedBy(e, real, entries[x], entries'[x])
  BY <1>3, <1>4 DEF IInv, Types, EntriesKnown, Pins
<1>13. ASSUME NEW x \in DOMAIN entries'
       PROVE  \/ RowOf(entries'[x]) = RowOf(entries[x])
              \/ RowOf(entries'[x]) = new /\ RowOf(entries[x]) = <<e.table, e.temp>> /\ entries[x].id < 0
  BY <1>9, <1>12 DEF MovedBy, RowOf
<1>14. Types'
  <2>1. \A r \in DOMAIN revs' : revs'[r] \in 0..MaxRev
    BY <1>2, ConstantFacts DEF IInv, Types
  <2>2. \A t \in DOMAIN live' : t < 0 /\ live'[t] \in [real : RealIds, table : Tables]
    BY <1>1, <1>6, <1>7, <1>8 DEF IInv, Types
  <2>3. \A x \in DOMAIN entries' : IsEntry(entries'[x])
    BY <1>4 DEF MovedBy
  <2>4. \A x \in foreign' : x \in DOMAIN entries' /\ entries'[x].type = "set"
    BY <1>1, <1>3, <1>4, <1>10 DEF IInv, Types, MovedBy
  <2>5. QED
    BY <1>1, <2>1, <2>2, <2>3, <2>4 DEF IInv, Types
<1>15. Order'
  BY <1>1, <1>3 DEF IInv, Order
<1>16. Known'
  <2>1. \A t \in DOMAIN live' : <<live'[t].table, live'[t].real>> \in issued'
    BY <1>1, <1>8, <1>9 DEF IInv, Known
  <2>2. QED
    BY <1>1, <1>2, <1>9, <2>1 DEF IInv, Known
<1>17. EntriesKnown'
  <2>1. ASSUME NEW x \in DOMAIN entries' PROVE EntryKnown(entries[x])'
    <3>1. entries'[x].type = "insert" => entries'[x].id = Undefined
      <4>1. SUFFICES ASSUME entries'[x].type = "insert" PROVE entries'[x].id = Undefined
        OBVIOUS
      <4>2. entries[x].id = Undefined /\ ~(entries[x].id < 0)
        BY <1>12, <4>1 DEF EntryKnown, MovedBy, Undefined
      <4>3. QED
        BY <1>12, <4>2 DEF MovedBy
    <3>2. entries'[x].type # "insert" => entries'[x].id < 0 \/ RowOf(entries'[x]) \in issued'
      BY <1>1, <1>12, <1>13 DEF EntryKnown, MovedBy, RowOf
    <3>3. QED
      BY <1>1, <1>12, <3>1, <3>2 DEF EntryKnown, MovedBy
  <2>2. QED
    BY <2>1 DEF EntriesKnown
<1>18. Unique'
  <2>1. ASSUME NEW x \in DOMAIN entries', NEW y \in DOMAIN entries', x # y,
               SameSlot(entries'[x], entries'[y])
        PROVE  FALSE
    <3>1. /\ entries[x].type \in {"set", "setMembers"} /\ entries[y].type = entries[x].type
          /\ entries[y].slot = entries[x].slot /\ RowOf(entries'[x]) = RowOf(entries'[y])
      BY <1>12, <2>1 DEF SameSlot, MovedBy
    <3>2. RowOf(entries[x]) # RowOf(entries[y])
      BY <1>12, <2>1, <3>1 DEF IInv, Unique, SameSlot
    <3>3. ASSUME NEW z \in DOMAIN entries, entries[z].type # "insert", RowOf(entries[z]) = new PROVE FALSE
      <4>1. entries[z].id = real
        BY <1>9, <3>3 DEF RowOf
      <4>2. EntryKnown(entries[z])
        BY DEF IInv, EntriesKnown
      <4>3. QED
        BY <1>1, <1>6, <3>3, <4>1, <4>2 DEF EntryKnown
    <3>4. QED
      BY <1>12, <1>13, <3>1, <3>2, <3>3
  <2>2. QED
    BY <2>1 DEF Unique
\* A pin stays as it is; on the row just inserted it is the 0 it had.
<1>19. ASSUME NEW x \in DOMAIN entries', Pinned(entries'[x])
       PROVE  /\ Pinned(entries[x]) /\ entries'[x].base = entries[x].base /\ entries[x].base \in Nat
              /\ entries'[x].type = "set" /\ entries'[x].conflict = "detect" /\ RowOf(entries[x]) # new
              /\ \/ RowOf(entries'[x]) = RowOf(entries[x]) /\ entries'[x].id = entries[x].id
                 \/ /\ RowOf(entries'[x]) = new /\ RowOf(entries[x]) = <<e.table, e.temp>>
                    /\ RowOf(entries[x]) \notin issued /\ entries[x].base = 0
  <2>1. Pinned(entries[x]) /\ entries'[x].base = entries[x].base
    BY <1>12, <1>19 DEF MovedBy, Pinned
  <2>2. entries[x].type = "set" /\ entries[x].conflict = "detect" /\ entries[x].base \in Nat
    BY <1>12, <2>1 DEF PinOK
  <2>3. RowOf(entries[x]) # new
    <3>1. SUFFICES ASSUME RowOf(entries[x]) = new PROVE FALSE
      OBVIOUS
    <3>2. entries[x].id = real
      BY <1>9, <3>1 DEF RowOf
    <3>3. QED
      BY <1>1, <1>6, <1>12, <2>2, <3>1, <3>2 DEF EntryKnown
  <2>4. CASE entries[x].id < 0
    <3>1. RowOf(entries[x]) \notin issued
      <4>1. RowOf(entries[x]) \in issued => entries[x].id \in Nat
        BY DEF IInv, Known, RowOf
      <4>2. QED
        BY <2>4, <4>1
    <3>2. entries[x].base = 0
      BY <1>12, <2>1, <2>4, <3>1 DEF PinOK, IInv, Known
    <3>3. QED
      BY <1>9, <1>12, <2>1, <2>2, <2>3, <3>1, <3>2 DEF MovedBy, RowOf
  <2>5. CASE ~(entries[x].id < 0)
    <3>1. entries'[x].id = entries[x].id
      BY <1>7, <1>12, <2>5 DEF MovedBy
    <3>2. RowOf(entries'[x]) = RowOf(entries[x])
      BY <1>12, <3>1 DEF MovedBy, RowOf
    <3>3. QED
      BY <1>12, <2>1, <2>2, <2>3, <3>1, <3>2 DEF MovedBy
  <2>6. QED
    BY <2>4, <2>5
<1>20. Pins'
  <2>1. ASSUME NEW x \in DOMAIN entries', Pinned(entries'[x]) PROVE PinOK(entries[x])'
    <3>1. CASE RowOf(entries'[x]) = RowOf(entries[x]) /\ entries'[x].id = entries[x].id
      BY <1>1, <1>2, <1>12, <1>19, <2>1, <3>1 DEF PinOK, Pinned
    <3>2. CASE RowOf(entries'[x]) = new /\ entries[x].base = 0
      BY <1>1, <1>11, <1>19, <2>1, <3>2 DEF PinOK, Pinned
    <3>3. QED
      BY <1>19, <2>1, <3>1, <3>2
  <2>2. \A r \in DOMAIN revs' \cap DOMAIN seen' : seen'[r] <= revs'[r]
    BY <1>1, <1>2, <1>11 DEF IInv, Pins
  <2>3. QED
    BY <2>1, <2>2 DEF Pins, PinOK, Pinned
\* The histories are about rows the server had issued before.
<1>26. ASSUME NEW x \in foreign \cup blind
       PROVE  /\ x \in DOMAIN entries' /\ x \in DOMAIN entries /\ Pinned(entries[x]) = Pinned(entries'[x])
              /\ RowOf(entries'[x]) = RowOf(entries[x]) /\ RowOf(entries[x]) # new
              /\ entries'[x].base = entries[x].base
  <2>1. x \in DOMAIN entries /\ RowOf(entries[x]) \in issued
    BY DEF IInv, Ghosts
  <2>2. entries[x].type = "set"
    BY <2>1 DEF IInv, Types, Ghosts, Pins, PinOK
  <2>3. x \in DOMAIN entries'
    BY <1>1, <1>3, <1>10, <2>1, <2>2
  <2>4. RowOf(entries[x]) # new
    BY <1>1, <2>1
  <2>5. entries[x].id \in Nat
    BY <2>1 DEF IInv, Known, RowOf
  <2>6. RowOf(entries'[x]) = RowOf(entries[x])
    BY <1>13, <2>3, <2>5
  <2>7. QED
    BY <1>12, <2>1, <2>3, <2>4, <2>6 DEF MovedBy, Pinned
<1>21. Conflicts'
  <2>1. ASSUME NEW x \in DOMAIN entries', x \notin blind, Pinned(entries'[x]), RowOf(entries'[x]) \in DOMAIN revs'
        PROVE  x \in foreign' <=> entries'[x].base # revs'[RowOf(entries'[x])]
    <3>1. CASE RowOf(entries'[x]) = RowOf(entries[x])
      BY <1>1, <1>2, <1>12, <1>19, <2>1, <3>1 DEF IInv, Conflicts, Foreign
    <3>2. CASE RowOf(entries'[x]) = new /\ RowOf(entries[x]) \notin issued /\ entries[x].base = 0
      <4>1. x \notin foreign
        BY <3>2 DEF IInv, Ghosts
      <4>2. QED
        BY <1>1, <1>2, <1>19, <2>1, <3>2, <4>1
    <3>3. QED
      BY <1>19, <2>1, <3>1, <3>2
  <2>2. QED
    BY <1>1, <2>1 DEF Conflicts, Foreign, Pinned
<1>27. Ghosts'
  <2>1. \A x \in foreign' \cup blind' : /\ x \in foreign \cup blind /\ x \in DOMAIN entries'
                                        /\ RowOf(entries'[x]) = RowOf(entries[x])
    BY <1>1, <1>26
  <2>2. \A x \in blind' : x \in blind /\ entries'[x].base = entries[x].base
    BY <1>1, <1>26
  <2>3. \A r \in issued : r \in DOMAIN revs' =>
          r \in DOMAIN revs /\ (r \in DOMAIN seen => r \in DOMAIN seen' /\ seen[r] <= seen'[r])
    BY <1>1, <1>2, SeenNat
  <2>4. issued \subseteq issued' /\ \A r \in DOMAIN seen' : seen'[r] \in Nat
    BY <1>1, SeenNat
  <2>5. QED
    BY <2>1, <2>2, <2>3, <2>4, GhostsShrink
<1>28. Swept'
  <2>1. SameRows
    <3>1. ASSUME NEW y \in DOMAIN entries', NEW x \in DOMAIN entries', Pinned(entries'[y]), Pinned(entries'[x]),
                 RowOf(entries'[y]) = RowOf(entries'[x])
          PROVE  RowOf(entries[y]) = RowOf(entries[x])
      BY <1>19, <3>1
    <3>2. QED
      BY <3>1 DEF SameRows
  <2>2. \A y, x \in DOMAIN entries' : Hides(y, x)
    BY <1>1 DEF Hides
  <2>3. \A x \in DOMAIN entries' : x \in DOMAIN entries /\ (Pinned(entries'[x]) => Pinned(entries[x]))
    BY <1>12, <1>19
  <2>4. \A x \in DOMAIN entries' : x \in foreign \cup blind /\ RowOf(entries'[x]) \in DOMAIN revs'
           => RowOf(entries[x]) \in DOMAIN revs
    BY <1>2, <1>26
  <2>5. QED
    BY <1>1, <1>3, <2>1, <2>2, <2>3, <2>4, AnsweredIsLess, SweptShrinks
<1>22. ASSUME NEW x, NEW r, InsertOf(x, r), r[2] # e.temp \/ r[1] # e.table PROVE InsertOf(x, r)'
  <2>1. CASE x \in DOMAIN dead /\ dead[x].temp = r[2] /\ dead[x].table = r[1]
    BY <1>1, <2>1 DEF InsertOf
  <2>2. CASE x \in DOMAIN entries /\ entries[x].temp = r[2] /\ entries[x].table = r[1]
    <3>1. x # s
      BY <1>10, <1>22, <2>2
    <3>2. QED
      BY <1>3, <1>12, <2>2, <3>1 DEF InsertOf, MovedBy
  <2>3. QED
    BY <1>22, <2>1, <2>2 DEF InsertOf
<1>23. Behind'
  <2>1. ASSUME NEW x \in DOMAIN entries', NEW r \in References(entries'[x]), r[2] < 0
        PROVE  \E y : InsertOf(y, r)' /\ (y < x \/ entries'[x].type = "setMembers")
    <3>1. /\ r \in References(entries[x]) /\ ~(r[2] = e.temp /\ r[1] = e.table)
          /\ entries'[x].type = entries[x].type /\ x \in DOMAIN entries
      BY <1>12, <2>1 DEF MovedBy
    <3>2. PICK y : InsertOf(y, r) /\ (y < x \/ entries[x].type = "setMembers")
      BY <2>1, <3>1 DEF IInv, Behind
    <3>3. QED
      BY <1>22, <3>1, <3>2
  <2>2. QED
    BY <2>1 DEF Behind
<1>24. Shown'
  <2>1. \A r \in shown : \A x \in DOMAIN entries' : entries'[x].temp = r[2] => entries'[x].table = r[1]
    BY <1>12 DEF IInv, Shown, MovedBy
  <2>2. ASSUME NEW r \in shown
        PROVE  (r[2] \in DOMAIN live' /\ live'[r[2]].table = r[1]) \/ \E x : InsertOf(x, r)'
    <3>0. r[2] # Undefined
      BY DEF IInv, Known, Undefined
    <3>1. CASE e.temp = r[2]
      <4>1. r[1] = e.table
        BY <1>10, <3>1 DEF IInv, Shown
      <4>2. QED
        BY <1>8, <3>0, <3>1, <4>1
    <3>2. CASE e.temp # r[2] /\ r[2] \in DOMAIN live /\ live[r[2]].table = r[1]
      BY <1>1, <1>8, <3>2
    <3>3. CASE e.temp # r[2] /\ \E x : InsertOf(x, r)
      BY <1>22, <3>3
    <3>4. QED
      BY <3>1, <3>2, <3>3 DEF IInv, Shown
  <2>3. QED
    BY <1>1, <2>1, <2>2 DEF IInv, Shown
<1>25. QED
  BY <1>14, <1>15, <1>16, <1>17, <1>18, <1>20, <1>21, <1>23, <1>24, <1>27, <1>28 DEF IInv

-----------------------------------------------------------------------------
(* Capture.                                                                *)

\* What every envelope the page captures has: its row and what it refers to
\* are rows the page knows or shows, its pin is what the page has seen of the row
\* it was typed on, or 0.
Captured(e) ==
  /\ DOMAIN e = EntryFields /\ (~Refused(e) => IsEntry(e))
  /\ e.type = "insert" => e.id = Undefined
  /\ e.type # "insert" => e.temp = Undefined /\ RowOf(e) \in Rows
  /\ e.type # "setMembers" => e.members = {}
  /\ \A r \in References(e) : r[2] < 0 => r \in shown
  /\ Pinned(e) => /\ e.type = "set"
                  /\ e.base = IF RowOf(e) \in DOMAIN seen THEN seen[RowOf(e)] ELSE 0

\* The same once its temp ids have gone through the live mapping: a pin taken on
\* an optimistic row may be older than what the page has seen of the real one.
PinSeen(e) ==
  /\ e.base \in Nat
  /\ IF RowOf(e) \in DOMAIN seen THEN e.base <= seen[RowOf(e)] ELSE e.base = 0
Translated(e) ==
  /\ IsEntry(e)
  /\ e.type = "insert" => e.id = Undefined
  /\ e.type # "insert" => e.temp = Undefined /\ (e.id < 0 \/ RowOf(e) \in issued)
  /\ e.type # "setMembers" => e.members = {}
  /\ \A r \in References(e) : r[2] < 0 => \E x : InsertOf(x, r)
  /\ Pinned(e) => e.type = "set" /\ PinSeen(e)

LEMMA CaptureFacts ==
  ASSUME IInv, NEW e0, Captured(e0), ~Refused(Translate(e0, live))
  PROVE  LET e == Translate(e0, live) IN
         Translated(e) /\ e.type = e0.type /\ e.table = e0.table /\ e.temp = e0.temp
<1> DEFINE e == Translate(e0, live)
<1>1. IsMap(live)
  BY DEF IInv, Types, IsMap
<1>2. IsEntry(e0)
  <2>1. e.conflict = e0.conflict
    <3>1. DOMAIN e0 = EntryFields
      BY DEF Captured
    <3> DEFINE id == Resolve(live, e0.id, e0.table)
               fks == [c \in DOMAIN e0.fks |-> Resolve(live, e0.fks[c], FkColumns[e0.table][c])]
               members == {Resolve(live, m, EdgeTarget(e0)) : m \in e0.members}
    <3>2. e = [e0 EXCEPT !.id = id, !.fks = fks, !.members = members]
      BY <3>1 DEF Translate, EntryFields
    <3> HIDE DEF id, fks, members, e
    <3>3. QED
      BY <3>1, <3>2 DEF EntryFields
  <2>2. ~Refused(e0)
    BY <2>1 DEF Refused
  <2>3. QED
    BY <2>2 DEF Captured
<1>3. IsEntry(e)
  BY <1>1, <1>2, TranslateTyped
<1>4. /\ e.type = e0.type /\ e.table = e0.table /\ e.base = e0.base /\ e.temp = e0.temp
      /\ e.id = Resolve(live, e0.id, e0.table)
      /\ e.members = {Resolve(live, m, EdgeTarget(e0)) : m \in e0.members}
  BY <1>2, TranslateFields
<1>5. \A r \in References(e) : r[2] < 0 =>
        r \in References(e0) /\ ~(r[2] \in DOMAIN live /\ live[r[2]].table = r[1])
  BY <1>1, <1>2, TranslateRefs
<1> HIDE DEF e
<1>6. e0.id \in Int
  BY <1>2 DEF IsEntry
<1>7. e0.id >= 0 => e.id = e0.id
  BY <1>1, <1>4, <1>6, ResolveTyped
<1>8. e.type = "insert" => e.id = Undefined
  BY <1>4, <1>7 DEF Captured, Undefined
<1>9. e.type # "insert" => e.temp = Undefined /\ (e.id < 0 \/ RowOf(e) \in issued)
  <2>1. SUFFICES ASSUME e.type # "insert" PROVE e.id < 0 \/ RowOf(e) \in issued
    BY <1>4 DEF Captured
  <2>2. RowOf(e0) \in DOMAIN seen \/ RowOf(e0) \in shown
    BY <1>4, <2>1 DEF Captured, Rows
  <2>3. CASE e.id = e0.id
    <3>1. RowOf(e) = RowOf(e0)
      BY <1>4, <2>3 DEF RowOf
    <3>2. QED
      BY <2>2, <2>3, <3>1 DEF IInv, Known, RowOf
  <2>4. CASE e.id # e0.id
    <3>1. e0.id \in DOMAIN live /\ live[e0.id].table = e0.table /\ e.id = live[e0.id].real
      BY <1>4, <2>4 DEF Resolve
    <3>2. QED
      BY <1>4, <3>1 DEF IInv, Known, RowOf
  <2>5. QED
    BY <2>3, <2>4
<1>10. e.type # "setMembers" => e.members = {}
  BY <1>4 DEF Captured
<1>11. ASSUME NEW r \in References(e), r[2] < 0 PROVE \E x : InsertOf(x, r)
  <2>1. r \in shown /\ ~(r[2] \in DOMAIN live /\ live[r[2]].table = r[1])
    BY <1>5, <1>11 DEF Captured
  <2>2. QED
    BY <2>1 DEF IInv, Shown
<1>12. Pinned(e) => e.type = "set" /\ PinSeen(e)
  <2>1. SUFFICES ASSUME Pinned(e0) PROVE e.type = "set" /\ PinSeen(e)
    BY <1>4 DEF Pinned
  <2>2. /\ e0.type = "set" /\ e.base = e0.base
        /\ RowOf(e0) \in DOMAIN seen => e0.base = seen[RowOf(e0)]
        /\ RowOf(e0) \notin DOMAIN seen => e0.base = 0
    BY <1>4, <2>1 DEF Captured
  <2>3. \A r \in DOMAIN seen : seen[r] \in Nat /\ seen[r] <= seen[r] /\ 0 <= seen[r]
    BY SeenNat
  <2>4. CASE RowOf(e0) \in DOMAIN seen
    <3>1. e0.id \in Nat
      BY <2>4 DEF IInv, Known, RowOf
    <3>2. RowOf(e) = RowOf(e0)
      BY <1>4, <1>7, <3>1 DEF RowOf
    <3>3. QED
      BY <1>4, <2>2, <2>3, <2>4, <3>2 DEF PinSeen
  <2>5. CASE RowOf(e0) \notin DOMAIN seen
    BY <1>4, <2>2, <2>3, <2>5 DEF PinSeen
  <2>6. QED
    BY <2>4, <2>5
<1>13. Translated(e)
  BY <1>3, <1>8, <1>9, <1>10, <1>11, <1>12 DEF Translated
<1>14. QED
  BY <1>4, <1>13 DEF e

\* What a capture does to the screen: nothing, or one more optimistic row.
Screen(type, table, temp) ==
  \/ tempCounter' = tempCounter /\ shown' = shown /\ temp = Undefined
  \/ /\ type = "insert" /\ tempCounter' = tempCounter - 1 /\ -tempCounter < MaxTemps
     /\ temp = tempCounter' /\ shown' = shown \cup {<<table, tempCounter'>>}

LEMMA ScreenFacts ==
  ASSUME IInv, NEW type, NEW table \in Tables, NEW temp, Screen(type, table, temp)
  PROVE  /\ tempCounter' \in Int /\ -tempCounter' \in 0..MaxTemps /\ tempCounter' <= tempCounter
         /\ shown \subseteq shown' /\ shown' \subseteq Tables \X Int
         /\ \A r \in shown' : r[2] < 0 /\ tempCounter' <= r[2]
         /\ temp # Undefined => /\ temp = tempCounter' /\ temp < tempCounter /\ temp < 0
                                /\ type = "insert" /\ shown' = shown \cup {<<table, temp>>}
         /\ temp = Undefined => shown' = shown /\ tempCounter' = tempCounter
<1>1. tempCounter \in Int /\ -tempCounter \in 0..MaxTemps /\ MaxTemps \in Nat
  BY ConstantFacts DEF IInv, Types
<1>2. shown \subseteq Tables \X Int /\ \A r \in shown : r[2] < 0 /\ tempCounter <= r[2]
  BY DEF IInv, Types, Known
<1>3. CASE tempCounter' = tempCounter /\ shown' = shown /\ temp = Undefined
  BY <1>1, <1>2, <1>3
<1>4. CASE /\ type = "insert" /\ tempCounter' = tempCounter - 1 /\ -tempCounter < MaxTemps
           /\ temp = tempCounter' /\ shown' = shown \cup {<<table, tempCounter'>>}
  <2>1. /\ tempCounter' \in Int /\ -tempCounter' \in 0..MaxTemps /\ tempCounter' < tempCounter
        /\ tempCounter' < 0 /\ tempCounter' <= tempCounter' /\ tempCounter' # 0
    BY <1>1, <1>4
  <2>2. \A r \in shown : r \in Tables \X Int /\ r[2] < 0 /\ tempCounter' <= r[2]
    BY <1>1, <1>2, <2>1
  <2> DEFINE new == <<table, tempCounter'>>
  <2>3. new[2] = tempCounter' /\ new \in Tables \X Int /\ new[2] < 0 /\ tempCounter' <= new[2]
    BY <2>1
  <2>4. shown' = shown \cup {new} /\ (temp = tempCounter' => new = <<table, temp>>)
    BY <1>4
  <2> HIDE DEF new
  <2>5. shown \subseteq shown' /\ shown' \subseteq Tables \X Int
        /\ \A r \in shown' : r[2] < 0 /\ tempCounter' <= r[2]
    BY <2>2, <2>3, <2>4
  <2>6. /\ temp = tempCounter' /\ temp < tempCounter /\ temp < 0 /\ temp # Undefined
        /\ type = "insert" /\ shown' = shown \cup {<<table, temp>>}
    BY <1>4, <2>1 DEF Undefined
  <2>7. tempCounter' <= tempCounter
    BY <1>1, <1>4
  <2>8. QED
    BY <2>1, <2>5, <2>6, <2>7
<1>5. QED
  BY <1>3, <1>4 DEF Screen

LEMMA CapturedKeeps ==
  ASSUME IInv, NEW e, Translated(e), NEW s, s = EnqueueSeq(entries, e, nextSeq), nextSeq < MaxSeq,
         entries' = Enqueue(entries, e, nextSeq),
         nextSeq' = IF s = nextSeq THEN nextSeq + 1 ELSE nextSeq,
         NEW older \in BOOLEAN, older = EntryConflicts(Stored(e), seen),
         blind' = IF s = nextSeq /\ older THEN blind \cup {s} ELSE blind,
         foreign' = IF s = nextSeq /\ ~older /\ Overtaken(Stored(e)) THEN foreign \cup {s} ELSE foreign,
         UNCHANGED <<dead, live, revs, issued, seen, flushing>>,
         Screen(e.type, e.table, e.temp)
  PROVE  IInv'
<1> DEFINE g == Stored(e)
<1>1. /\ dead' = dead /\ live' = live /\ revs' = revs /\ issued' = issued /\ seen' = seen
      /\ flushing' = flushing
  OBVIOUS
<1>2. /\ IsEntry(e) /\ e.table \in Tables
      /\ e.type = "insert" => e.id = Undefined
      /\ e.type # "insert" => e.temp = Undefined /\ (e.id < 0 \/ RowOf(e) \in issued)
      /\ e.type # "setMembers" => e.members = {}
      /\ \A r \in References(e) : r[2] < 0 => \E x : InsertOf(x, r)
      /\ Pinned(e) => e.type = "set" /\ PinSeen(e)
  BY DEF Translated, IsEntry
<1>3. /\ tempCounter' \in Int /\ -tempCounter' \in 0..MaxTemps /\ tempCounter' <= tempCounter
      /\ shown \subseteq shown' /\ shown' \subseteq Tables \X Int
      /\ \A r \in shown' : r[2] < 0 /\ tempCounter' <= r[2]
      /\ e.temp # Undefined => /\ e.temp = tempCounter' /\ e.temp < tempCounter /\ e.temp < 0
                               /\ e.type = "insert" /\ shown' = shown \cup {<<e.table, e.temp>>}
      /\ e.temp = Undefined => shown' = shown /\ tempCounter' = tempCounter
  BY <1>2, ScreenFacts
<1>4. /\ DOMAIN entries \subseteq Nat /\ \A x \in DOMAIN entries : IsEntry(entries[x])
      /\ \A x \in DOMAIN entries : x \in Nat \ {0} /\ x < nextSeq
      /\ nextSeq \in Nat \ {0} /\ nextSeq \notin DOMAIN entries /\ nextSeq \notin DOMAIN dead
  <2>1. nextSeq \in Nat \ {0}
    BY ConstantFacts DEF IInv, Types
  <2>2. ~(nextSeq < nextSeq)
    BY <2>1
  <2>3. QED
    BY <2>1, <2>2 DEF IInv, Types, Order
<1>5. /\ IsEntry(g) /\ References(g) = References(e) /\ RowOf(g) = RowOf(e)
      /\ g.type = e.type /\ g.table = e.table /\ g.id = e.id /\ g.slot = e.slot
      /\ g.conflict = e.conflict /\ g.temp = e.temp
      /\ g.base = IF e.type = "set" /\ e.conflict = "detect" THEN e.base ELSE Unpinned
  BY <1>2, StoredFields
<1> HIDE DEF g
\* A new entry, or one more edit on an entry that stays where it is.
<1>6. \/ /\ s = nextSeq /\ DOMAIN entries' = DOMAIN entries \cup {s} /\ entries'[s] = g
         /\ \A x \in DOMAIN entries : entries'[x] = entries[x]
         /\ \A x \in DOMAIN entries : ~SameSlot(e, entries[x])
      \/ /\ s \in DOMAIN entries /\ DOMAIN entries' = DOMAIN entries /\ entries'[s] = Onto(e, entries[s])
         /\ \A x \in DOMAIN entries \ {s} : entries'[x] = entries[x]
         /\ SameSlot(e, entries[s])
  <2> DEFINE Q == Enqueue(entries, e, nextSeq)
             t == EnqueueSeq(entries, e, nextSeq)
  <2>1. \/ /\ t = nextSeq /\ DOMAIN Q = DOMAIN entries \cup {t} /\ Q[t] = Stored(e)
           /\ \A x \in DOMAIN entries : Q[x] = entries[x]
           /\ \A x \in DOMAIN entries : ~SameSlot(e, entries[x])
        \/ /\ t \in DOMAIN entries /\ DOMAIN Q = DOMAIN entries /\ Q[t] = Onto(e, entries[t])
           /\ \A x \in DOMAIN entries \ {t} : Q[x] = entries[x]
           /\ SameSlot(e, entries[t])
    BY <1>2, <1>4, EnqueueCases
  <2>2. entries' = Q /\ s = t
    OBVIOUS
  <2> HIDE DEF Q, t
  <2>3. QED
    BY <2>1, <2>2 DEF g
<1>7. /\ Pinned(g) => /\ g.type = "set" /\ g.conflict = "detect" /\ g.base \in Nat
                      /\ RowOf(g) \in DOMAIN seen => g.base <= seen[RowOf(g)]
                      /\ RowOf(g) \notin DOMAIN seen => g.base = 0
      /\ older <=> Pinned(g) /\ RowOf(g) \in DOMAIN seen /\ g.base # seen[RowOf(g)]
  <2>1. ASSUME Pinned(g)
        PROVE  /\ g.type = "set" /\ g.conflict = "detect" /\ g.base \in Nat
               /\ RowOf(g) \in DOMAIN seen => g.base <= seen[RowOf(g)]
               /\ RowOf(g) \notin DOMAIN seen => g.base = 0
    <3>1. e.type = "set" /\ e.conflict = "detect" /\ g.base = e.base /\ Pinned(e)
      BY <1>5, <2>1 DEF Pinned
    <3>2. QED
      BY <1>2, <1>5, <3>1 DEF PinSeen
  <2>2. older <=> EntryConflicts(g, seen)
    BY DEF g
  <2>3. EntryConflicts(g, seen) <=> Pinned(g) /\ RowOf(g) \in DOMAIN seen /\ g.base # seen[RowOf(g)]
    BY <2>1 DEF EntryConflicts, Pinned
  <2>4. QED
    BY <2>1, <2>2, <2>3
<1>8. Known'
  BY <1>1, <1>3 DEF IInv, Known
\* Entries that stay keep what they are known for.
<1>9. ASSUME NEW x \in DOMAIN entries, NEW f, EntryKnown(entries[x]), f.type = entries[x].type,
             f.id = entries[x].id, f.temp = entries[x].temp, RowOf(f) = RowOf(entries[x])
      PROVE  /\ f.type = "insert" => f.id = Undefined
             /\ f.type # "insert" => f.id < 0 \/ RowOf(f) \in issued
             /\ f.temp # Undefined => f.type = "insert" /\ f.temp < 0 /\ tempCounter' <= f.temp
  <2>1. f.temp # Undefined => tempCounter <= f.temp /\ f.temp \in Int
    BY <1>4, <1>9 DEF EntryKnown, IsEntry
  <2>2. f.temp # Undefined => tempCounter' <= f.temp
    <3>1. tempCounter \in Int
      BY DEF IInv, Types
    <3>2. QED
      BY <1>3, <2>1, <3>1
  <2>3. QED
    BY <1>9, <2>2 DEF EntryKnown
<1>10. CASE s = nextSeq
  <2>1. /\ DOMAIN entries' = DOMAIN entries \cup {s} /\ entries'[s] = g
        /\ \A x \in DOMAIN entries : entries'[x] = entries[x]
        /\ \A x \in DOMAIN entries : ~SameSlot(e, entries[x])
    BY <1>4, <1>6, <1>10
  <2>2. /\ nextSeq' = nextSeq + 1
        /\ ~older /\ Overtaken(g) => foreign' = foreign \cup {s}
        /\ older \/ ~Overtaken(g) => foreign' = foreign
        /\ older => blind' = blind \cup {s}
        /\ ~older => blind' = blind
    BY <1>10 DEF g
  <2>3. Overtaken(g) <=> Pinned(g) /\ RowOf(g) \in DOMAIN revs /\ revs[RowOf(g)] # g.base
    BY DEF Overtaken, Pinned
  <2>4. s \notin DOMAIN entries /\ s \notin DOMAIN dead /\ s \notin foreign /\ s \notin blind
    BY <1>4, <1>10 DEF IInv, Ghosts
  <2>5. Types'
    <3>1. nextSeq' \in 1..MaxSeq
      BY <1>4, <2>2, ConstantFacts
    <3>2. \A x \in DOMAIN entries' : IsEntry(entries'[x])
      BY <1>4, <1>5, <2>1
    <3>3. \A x \in foreign' : x \in DOMAIN entries' /\ entries'[x].type = "set"
      BY <1>7, <2>1, <2>2, <2>3 DEF IInv, Types
    <3>4. QED
      BY <1>1, <1>3, <3>1, <3>2, <3>3 DEF IInv, Types
  <2>6. Order'
    <3>1. s \in Nat \ {0} /\ s < nextSeq'
      BY <1>4, <1>10, <2>2
    <3>2. \A x \in DOMAIN entries : x \in Nat \ {0} /\ x < nextSeq'
      BY <1>4, <2>2
    <3>3. \A x \in DOMAIN dead : x \in Nat \ {0} /\ x < nextSeq'
      BY <1>4, <2>2 DEF IInv, Order
    <3>4. QED
      BY <1>1, <2>1, <2>4, <3>1, <3>2, <3>3 DEF IInv, Order
  <2>7. EntriesKnown'
    <3>1. ASSUME NEW x \in DOMAIN entries' PROVE EntryKnown(entries[x])'
      <4>1. CASE x = s
        <5>1. e.temp # Undefined => tempCounter' <= e.temp
          BY <1>3
        <5>2. QED
          BY <1>1, <1>2, <1>3, <1>5, <2>1, <4>1, <5>1 DEF EntryKnown
      <4>2. CASE x \in DOMAIN entries
        <5>1. EntryKnown(entries[x])
          BY <4>2 DEF IInv, EntriesKnown
        <5>2. entries'[x] = entries[x]
          BY <2>1, <4>2
        <5>3. QED
          BY <1>1, <1>9, <4>2, <5>1, <5>2 DEF EntryKnown
      <4>3. QED
        BY <2>1, <4>1, <4>2
    <3>2. QED
      BY <3>1 DEF EntriesKnown
  <2>8. Unique'
    <3>1. \A x \in DOMAIN entries : ~SameSlot(g, entries[x]) /\ ~SameSlot(entries[x], g)
      BY <1>5, <2>1 DEF SameSlot
    <3>2. QED
      BY <2>1, <3>1 DEF IInv, Unique
  <2>9. Pins'
    <3>1. PinOK(g)
      BY <1>7 DEF PinOK
    <3>2. \A x \in DOMAIN entries' : PinOK(entries'[x])
      BY <2>1, <3>1 DEF IInv, Pins
    <3>3. QED
      BY <1>1, <3>2 DEF IInv, Pins, PinOK, Pinned
  <2>10. Conflicts'
    <3>1. ASSUME NEW x \in DOMAIN entries', x \notin blind', Pinned(entries'[x]), RowOf(entries'[x]) \in DOMAIN revs
          PROVE  x \in foreign' <=> entries'[x].base # revs[RowOf(entries'[x])]
      <4>1. CASE x = s
        <5>1. ~older
          BY <2>2, <3>1, <4>1
        <5>2. QED
          BY <2>1, <2>2, <2>3, <2>4, <3>1, <4>1, <5>1
      <4>2. CASE x \in DOMAIN entries
        <5>1. entries'[x] = entries[x] /\ (x \in foreign' <=> x \in foreign) /\ x \notin blind
          BY <2>1, <2>2, <2>4, <3>1, <4>2
        <5>2. QED
          BY <3>1, <4>2, <5>1 DEF IInv, Conflicts, Foreign
      <4>3. QED
        BY <2>1, <4>1, <4>2
    <3>2. QED
      BY <1>1, <3>1 DEF Conflicts, Foreign, Pinned
  <2>11. ASSUME NEW x, NEW r, InsertOf(x, r) PROVE InsertOf(x, r)' /\ x < s
    BY <1>1, <1>4, <1>10, <2>1, <2>11 DEF InsertOf, IInv, Order
  <2>12. Behind'
    <3>1. ASSUME NEW x \in DOMAIN entries', NEW r \in References(entries'[x]), r[2] < 0
          PROVE  \E y : InsertOf(y, r)' /\ (y < x \/ entries'[x].type = "setMembers")
      <4>1. CASE x = s
        <5>1. PICK y : InsertOf(y, r)
          BY <1>2, <1>5, <2>1, <3>1, <4>1
        <5>2. QED
          BY <2>11, <4>1, <5>1
      <4>2. CASE x \in DOMAIN entries
        <5>1. entries'[x] = entries[x]
          BY <2>1, <4>2
        <5>2. PICK y : InsertOf(y, r) /\ (y < x \/ entries[x].type = "setMembers")
          BY <3>1, <4>2, <5>1 DEF IInv, Behind
        <5>3. QED
          BY <2>11, <5>1, <5>2
      <4>3. QED
        BY <2>1, <4>1, <4>2
    <3>2. QED
      BY <3>1 DEF Behind
  <2>13. Shown'
    <3>1. CASE e.temp = Undefined
      <4>1. \A r \in shown : g.temp # r[2]
        BY <1>5, <3>1 DEF IInv, Known, Undefined
      <4>2. shown' = shown
        BY <1>3, <3>1
      <4>3. \A r \in shown : \A x \in DOMAIN entries' : entries'[x].temp = r[2] => entries'[x].table = r[1]
        BY <2>1, <4>1 DEF IInv, Shown
      <4>4. QED
        BY <1>1, <2>11, <4>2, <4>3 DEF IInv, Shown
    <3>2. CASE e.temp # Undefined
      <4> DEFINE new == <<e.table, e.temp>>
      <4>1. new[1] = e.table /\ new[2] = e.temp
        OBVIOUS
      <4>2. shown' = shown \cup {new} /\ e.temp < tempCounter
        BY <1>3, <3>2
      <4> HIDE DEF new
      <4>3. e.temp \in Int /\ tempCounter \in Int
        BY <1>2 DEF IsEntry, IInv, Types
      <4>4. \A r \in shown : r[2] # e.temp
        <5>1. \A r \in shown : tempCounter <= r[2] /\ r[2] \in Int
          BY DEF IInv, Known, Types
        <5>2. QED
          BY <4>2, <4>3, <5>1
      <4>5. \A x \in DOMAIN entries : entries[x].temp # e.temp
        <5>1. ASSUME NEW x \in DOMAIN entries, entries[x].temp = e.temp PROVE FALSE
          <6>1. tempCounter <= e.temp
            BY <3>2, <5>1 DEF IInv, EntriesKnown, EntryKnown
          <6>2. QED
            BY <4>2, <4>3, <6>1
        <5>2. QED
          BY <5>1
      <4>6. \A r, q \in shown' : r[2] = q[2] => r = q
        BY <4>1, <4>2, <4>4 DEF IInv, Shown
      <4>7. \A r \in shown' : \A x \in DOMAIN entries' : entries'[x].temp = r[2] => entries'[x].table = r[1]
        BY <1>5, <2>1, <4>1, <4>2, <4>4, <4>5 DEF IInv, Shown
      <4>8. InsertOf(s, new)'
        BY <1>5, <2>1, <4>1 DEF InsertOf
      <4>9. QED
        BY <1>1, <2>11, <4>2, <4>6, <4>7, <4>8 DEF IInv, Shown
    <3>3. QED
      BY <3>1, <3>2
  <2>14. Ghosts'
    <3>1. s \in foreign' \cup blind' => RowOf(g) \in issued
      BY <1>7, <2>2, <2>3, <2>4 DEF IInv, Known
    <3>2. ASSUME NEW x \in foreign' \cup blind' PROVE x \in DOMAIN entries' /\ RowOf(entries'[x]) \in issued
      <4>1. CASE x = s
        BY <2>1, <3>1, <3>2, <4>1
      <4>2. CASE x # s
        <5>1. x \in foreign \cup blind
          BY <2>2, <3>2, <4>2
        <5>2. QED
          BY <2>1, <5>1 DEF IInv, Ghosts
      <4>3. QED
        BY <4>1, <4>2
    <3>3. ASSUME NEW x \in blind'
          PROVE  /\ Pinned(entries'[x])
                 /\ RowOf(entries'[x]) \in DOMAIN revs
                      => RowOf(entries'[x]) \in DOMAIN seen /\ entries'[x].base < seen[RowOf(entries'[x])]
      <4>1. CASE x = s
        <5>1. /\ Pinned(g) /\ RowOf(g) \in DOMAIN seen /\ g.base # seen[RowOf(g)]
              /\ g.base <= seen[RowOf(g)] /\ g.base \in Nat
          BY <1>7, <2>2, <2>4, <3>3, <4>1
        <5>2. g.base < seen[RowOf(g)]
          BY <5>1, SeenNat
        <5>3. QED
          BY <2>1, <4>1, <5>1, <5>2
      <4>2. CASE x # s
        <5>1. x \in blind
          BY <2>2, <3>3, <4>2
        <5>2. x \in DOMAIN entries /\ entries'[x] = entries[x]
          BY <2>1, <5>1 DEF IInv, Ghosts
        <5>3. QED
          BY <5>1, <5>2 DEF IInv, Ghosts
      <4>3. QED
        BY <4>1, <4>2
    <3>4. QED
      BY <1>1, <3>2, <3>3 DEF Ghosts, Pinned
  <2>15. Swept'
    <3>1. \A L \in flushing : L # {} /\ L \subseteq DOMAIN entries
      BY DEF IInv, Swept
    <3>2. ASSUME NEW L \in flushing, NEW y \in L, RowOf(entries'[y]) \in DOMAIN revs PROVE y \notin blind'
      <4>1. y \in DOMAIN entries /\ y # s /\ entries'[y] = entries[y]
        BY <2>1, <2>4, <3>1
      <4>2. y \notin blind
        BY <3>2, <4>1 DEF IInv, Swept
      <4>3. QED
        BY <2>2, <4>1, <4>2
    <3>3. ASSUME NEW L \in flushing, NEW y \in L, NEW x \in DOMAIN entries', Paired(y, x)'
          PROVE  /\ x < y => x \in L
                 /\ x > y /\ x \in foreign' /\ RowOf(entries'[x]) \in DOMAIN revs => y \in foreign'
      <4>1. y \in DOMAIN entries /\ y # s /\ entries'[y] = entries[y]
        BY <2>1, <2>4, <3>1
      <4>2. Pinned(entries[y]) /\ Pinned(entries'[x]) /\ RowOf(entries[y]) = RowOf(entries'[x])
        BY <3>3, <4>1 DEF Paired, Pinned
      <4>3. CASE x = s
        <5>1. ~(x < y)
          BY <1>4, <1>10, <4>1, <4>3
        <5>2. ASSUME x \in foreign', RowOf(entries'[x]) \in DOMAIN revs PROVE y \in foreign'
          <6> DEFINE row == RowOf(g)
          <6>1. ~older /\ Pinned(g) /\ row \in DOMAIN revs /\ revs[row] # g.base
            BY <2>2, <2>3, <2>4, <4>3, <5>2
          <6>2. IF row \in DOMAIN seen THEN seen[row] # revs[row] ELSE revs[row] # 0
            BY <1>7, <6>1
          <6>3. y \notin blind /\ RowOf(entries[y]) = row
            BY <2>1, <4>1, <4>2, <4>3, <6>1 DEF IInv, Swept
          <6>4. y \in foreign
            BY <4>1, <4>2, <6>1, <6>2, <6>3, BehindIsForeign
          <6>5. QED
            BY <2>2, <6>4
        <5>3. QED
          BY <5>1, <5>2
      <4>4. CASE x \in DOMAIN entries /\ x # s
        <5>1. entries'[x] = entries[x] /\ Paired(y, x)
          BY <2>1, <4>1, <4>2, <4>4 DEF Paired
        <5>2. (x \in foreign' <=> x \in foreign) /\ (y \in foreign => y \in foreign')
          BY <2>2, <4>4
        <5>3. x < y => x \in L
          BY <4>4, <5>1 DEF IInv, Swept
        <5>4. ASSUME x > y, x \in foreign', RowOf(entries'[x]) \in DOMAIN revs PROVE y \in foreign'
          <6>1. x > y /\ x \in foreign /\ RowOf(entries[x]) \in DOMAIN revs
            BY <5>1, <5>2, <5>4
          <6>2. y \in foreign
            BY <4>4, <5>1, <6>1 DEF IInv, Swept
          <6>3. QED
            BY <5>2, <6>2
        <5>5. QED
          BY <5>3, <5>4
      <4>5. QED
        BY <2>1, <4>3, <4>4
    <3>4. QED
      BY <1>1, <2>1, <3>1, <3>2, <3>3 DEF Swept
  <2>16. QED
    BY <1>8, <2>5, <2>6, <2>7, <2>8, <2>9, <2>10, <2>12, <2>13, <2>14, <2>15 DEF IInv
<1>11. CASE s # nextSeq
  <2> DEFINE h == Onto(e, entries[s])
  <2>1. /\ s \in DOMAIN entries /\ DOMAIN entries' = DOMAIN entries /\ entries'[s] = h
        /\ \A x \in DOMAIN entries \ {s} : entries'[x] = entries[x]
        /\ SameSlot(e, entries[s])
    BY <1>6, <1>11
  <2>2. nextSeq' = nextSeq /\ foreign' = foreign /\ blind' = blind
    BY <1>11
  <2>3. /\ IsEntry(h) /\ RowOf(h) = RowOf(entries[s]) /\ EdgeTarget(h) = EdgeTarget(entries[s])
        /\ h.type = entries[s].type /\ h.table = entries[s].table /\ h.id = entries[s].id
        /\ h.slot = entries[s].slot /\ h.base = entries[s].base /\ h.fks = entries[s].fks
        /\ h.members = e.members /\ h.conflict = entries[s].conflict /\ h.temp = entries[s].temp
    BY <1>2, <1>4, <2>1, OntoFields
  <2> HIDE DEF h
  <2>4. /\ e.type \in {"set", "setMembers"} /\ entries[s].type = e.type
        /\ RowOf(entries[s]) = RowOf(e) /\ entries[s].slot = e.slot
    BY <2>1 DEF SameSlot
  <2>5. e.temp = Undefined /\ shown' = shown /\ tempCounter' = tempCounter
    BY <1>2, <1>3, <2>4
  <2>6. \A x \in DOMAIN entries :
          /\ entries'[x].type = entries[x].type /\ entries'[x].table = entries[x].table
          /\ entries'[x].id = entries[x].id /\ entries'[x].slot = entries[x].slot
          /\ entries'[x].base = entries[x].base /\ entries'[x].conflict = entries[x].conflict
          /\ entries'[x].temp = entries[x].temp /\ RowOf(entries'[x]) = RowOf(entries[x])
          /\ IsEntry(entries'[x])
    BY <1>4, <2>1, <2>3
  <2>7. Types'
    BY <1>1, <2>1, <2>2, <2>5, <2>6 DEF IInv, Types
  <2>8. Order'
    BY <1>1, <2>1, <2>2 DEF IInv, Order
  <2>9. EntriesKnown'
    BY <1>1, <2>1, <2>5, <2>6 DEF IInv, EntriesKnown, EntryKnown
  <2>10. Unique'
    BY <2>1, <2>6 DEF IInv, Unique, SameSlot
  <2>11. Pins'
    BY <1>1, <2>1, <2>6 DEF IInv, Pins, PinOK, Pinned
  <2>12. Conflicts'
    BY <1>1, <2>1, <2>2, <2>6 DEF IInv, Conflicts, Foreign, Pinned
  <2>13. \A x, r : InsertOf(x, r)' <=> InsertOf(x, r)
    BY <1>1, <2>1, <2>6 DEF InsertOf
  <2>14. Behind'
    <3>1. ASSUME NEW r \in References(h)
          PROVE  r \in References(entries[s]) \/ (r \in References(e) /\ e.type = "setMembers")
      <4>1. CASE \E m \in h.members : r = <<EdgeTarget(h), m>>
        <5>1. e.table = entries[s].table
          BY <2>4 DEF RowOf
        <5>2. EdgeTarget(e) = EdgeTarget(h)
          BY <2>3, <2>4, <5>1 DEF EdgeTarget
        <5>3. r \in References(e)
          BY <2>3, <4>1, <5>2 DEF References
        <5>4. e.members # {}
          BY <2>3, <4>1
        <5>5. QED
          BY <1>2, <5>3, <5>4
      <4>2. CASE ~\E m \in h.members : r = <<EdgeTarget(h), m>>
        BY <2>3, <3>1, <4>2 DEF References
      <4>3. QED
        BY <4>1, <4>2
    <3>2. ASSUME NEW x \in DOMAIN entries', NEW r \in References(entries'[x]), r[2] < 0
          PROVE  \E y : InsertOf(y, r)' /\ (y < x \/ entries'[x].type = "setMembers")
      <4>1. CASE r \in References(entries[x])
        <5>1. PICK y : InsertOf(y, r) /\ (y < x \/ entries[x].type = "setMembers")
          BY <2>1, <3>2, <4>1 DEF IInv, Behind
        <5>2. QED
          BY <2>1, <2>6, <2>13, <5>1
      <4>2. CASE r \notin References(entries[x])
        <5>1. x = s /\ r \in References(e) /\ e.type = "setMembers"
          BY <2>1, <3>1, <3>2, <4>2
        <5>2. entries'[x].type = "setMembers"
          BY <2>1, <2>4, <2>6, <5>1
        <5>3. QED
          BY <1>2, <2>13, <3>2, <5>1, <5>2
      <4>3. QED
        BY <4>1, <4>2
    <3>3. QED
      BY <3>2 DEF Behind
  <2>15. Shown'
    BY <1>1, <2>1, <2>5, <2>6, <2>13 DEF IInv, Shown
  <2>16. Ghosts' /\ Swept'
    <3>1. SameRows /\ \A y, x \in DOMAIN entries' : Hides(y, x)
      BY <2>1, <2>2, <2>6 DEF SameRows, Hides
    <3>2. \A K \in flushing' : K # {} /\ \E L \in flushing :
            K \subseteq L /\ K \subseteq DOMAIN entries' /\ L \cap DOMAIN entries' \subseteq K
      BY <1>1, <2>1 DEF IInv, Swept
    <3>3. Swept'
      BY <1>1, <2>1, <2>2, <2>6, <3>1, <3>2, SweptShrinks DEF Pinned
    <3>4. \A x \in foreign \cup blind : x \in DOMAIN entries
      BY DEF IInv, Ghosts
    <3>5. Ghosts'
      BY <1>1, <2>1, <2>2, <2>6, <3>4, SeenNat, GhostsShrink
    <3>6. QED
      BY <3>3, <3>5
  <2>17. QED
    BY <1>8, <2>7, <2>8, <2>9, <2>10, <2>11, <2>12, <2>14, <2>15, <2>16 DEF IInv
<1>12. QED
  BY <1>10, <1>11

LEMMA CaptureKeeps ==
  ASSUME IInv, NEW e0, Captured(e0), Capture(e0), Screen(e0.type, e0.table, e0.temp)
  PROVE  IInv'
<1> DEFINE e == Translate(e0, live)
           s == EnqueueSeq(entries, e, nextSeq)
           older == EntryConflicts(Stored(e), seen)
<1>1. /\ ~Refused(e) /\ nextSeq < MaxSeq
      /\ entries' = Enqueue(entries, e, nextSeq)
      /\ nextSeq' = IF s = nextSeq THEN nextSeq + 1 ELSE nextSeq
      /\ blind' = IF s = nextSeq /\ older THEN blind \cup {s} ELSE blind
      /\ foreign' = IF s = nextSeq /\ ~older /\ Overtaken(Stored(e)) THEN foreign \cup {s} ELSE foreign
      /\ UNCHANGED <<dead, live, revs, issued, seen, flushing>>
  BY DEF Capture
<1>2. Translated(e) /\ e.type = e0.type /\ e.table = e0.table /\ e.temp = e0.temp
  BY <1>1, CaptureFacts
<1>3. s = EnqueueSeq(entries, e, nextSeq) /\ older = EntryConflicts(Stored(e), seen) /\ older \in BOOLEAN
  BY DEF EntryConflicts
<1> HIDE DEF e, s, older
<1>4. Screen(e.type, e.table, e.temp)
  BY <1>2
<1>5. QED
  BY <1>1, <1>2, <1>3, <1>4, CapturedKeeps

\* The rows of the page: pairs, and below zero only those on screen.
LEMMA RowsFacts ==
  ASSUME IInv
  PROVE  /\ \A row \in Rows : /\ row = <<row[1], row[2]>> /\ row[1] \in Tables /\ row[2] \in Int
                              /\ row[2] < 0 => row \in shown
         /\ \A t : \A i \in IdsOf(t) : i \in Int /\ (i < 0 => <<t, i>> \in shown)
<1>1. ASSUME NEW row \in Rows
      PROVE  /\ row = <<row[1], row[2]>> /\ row[1] \in Tables /\ row[2] \in Int
             /\ row[2] < 0 => row \in shown
  <2>1. CASE row \in DOMAIN seen
    <3>1. row \in Tables \X (Nat \ {Undefined})
      BY <2>1 DEF IInv, Known
    <3>2. row = <<row[1], row[2]>> /\ row[1] \in Tables /\ row[2] \in Nat
      BY <3>1
    <3>3. ~(row[2] < 0) /\ row[2] \in Int
      BY <3>2
    <3>4. QED
      BY <3>2, <3>3
  <2>2. CASE row \in shown
    BY <2>2 DEF IInv, Types
  <2>3. QED
    BY <2>1, <2>2 DEF Rows
<1>2. ASSUME NEW t, NEW i \in IdsOf(t) PROVE i \in Int /\ (i < 0 => <<t, i>> \in shown)
  <2>1. PICK row \in Rows : row[1] = t /\ row[2] = i
    BY DEF IdsOf
  <2>2. QED
    BY <1>1, <2>1
<1>3. QED
  BY <1>1, <1>2

LEMMA EnvelopeCaptured ==
  ASSUME IInv, NEW e, DOMAIN e = EntryFields, e.table \in Tables, e.conflict = Policy[e.table],
         e.type \in {"set", "setMembers", "insert", "delete"}, e.slot \in Slots,
         e.id \in Int, e.base \in Int, e.value = Undefined, e.temp \in Int, e.members \subseteq Int,
         DOMAIN e.fks \subseteq DOMAIN FkColumns[e.table], \A c \in DOMAIN e.fks : e.fks[c] \in Int,
         e.type = "insert" => e.id = Undefined,
         e.type # "insert" => e.temp = Undefined /\ RowOf(e) \in Rows,
         e.type # "setMembers" => e.members = {},
         \A c \in DOMAIN e.fks : e.fks[c] < 0 => <<FkColumns[e.table][c], e.fks[c]>> \in shown,
         \A m \in e.members : m < 0 => <<EdgeTarget(e), m>> \in shown,
         Pinned(e) => e.type = "set" /\ e.base = IF RowOf(e) \in DOMAIN seen THEN seen[RowOf(e)] ELSE 0
  PROVE  Captured(e)
<1>1. ~Refused(e) => IsEntry(e)
  BY ConstantFacts DEF Refused, IsEntry
<1>2. ASSUME NEW r \in References(e), r[2] < 0 PROVE r \in shown
  <2>1. CASE e.id # Undefined /\ r = RowOf(e)
    <3>1. RowOf(e) \in Rows
      BY <2>1
    <3>2. QED
      BY <1>2, <2>1, <3>1, RowsFacts
  <2>2. CASE \E c \in DOMAIN e.fks : r = <<FkColumns[e.table][c], e.fks[c]>>
    BY <1>2, <2>2
  <2>3. CASE \E m \in e.members : r = <<EdgeTarget(e), m>>
    BY <1>2, <2>3
  <2>4. QED
    BY <1>2, <2>1, <2>2, <2>3 DEF References
<1>3. QED
  BY <1>1, <1>2 DEF Captured

LEMMA CaptureSetKeeps ==
  ASSUME IInv, NEW row \in Rows, NEW f \in Fields[row[1]], CaptureSet(row, f)
  PROVE  IInv'
<1> DEFINE base == IF row \in DOMAIN seen THEN seen[row] ELSE 0
           e == [Envelope("set", row[1], row[2]) EXCEPT !.slot = f, !.base = base]
<1>1. Capture(e) /\ tempCounter' = tempCounter /\ shown' = shown
  BY DEF CaptureSet
<1>2. base \in Int /\ base = IF row \in DOMAIN seen THEN seen[row] ELSE 0
  BY ConstantFacts DEF IInv, Types
<1> HIDE DEF base
<1>3. /\ DOMAIN e = EntryFields /\ e.type = "set" /\ e.table = row[1] /\ e.id = row[2] /\ e.slot = f
      /\ e.base = base /\ e.value = Undefined /\ e.fks = <<>> /\ e.members = {}
      /\ e.conflict = Policy[row[1]] /\ e.temp = Undefined
  BY DEF Envelope, EntryFields
<1> HIDE DEF e
<1>4. row = <<row[1], row[2]>> /\ row[1] \in Tables /\ row[2] \in Int
  BY RowsFacts
<1>5. f \in Slots
  BY <1>4 DEF Slots
<1>6. RowOf(e) = row
  BY <1>3, <1>4 DEF RowOf
<1>7. DOMAIN e.fks = {} /\ e.temp \in Int /\ e.members \subseteq Int
  BY <1>3 DEF Undefined
<1>8. Pinned(e) => e.type = "set" /\ e.base = IF RowOf(e) \in DOMAIN seen THEN seen[RowOf(e)] ELSE 0
  BY <1>2, <1>3, <1>6
<1>9. Captured(e)
  BY <1>2, <1>3, <1>4, <1>5, <1>6, <1>7, <1>8, EnvelopeCaptured
<1>10. Screen(e.type, e.table, e.temp)
  BY <1>1, <1>3 DEF Screen
<1>11. QED
  BY <1>1, <1>9, <1>10, CaptureKeeps

LEMMA CaptureMembersKeeps ==
  ASSUME IInv, NEW row \in Rows, NEW edge \in DOMAIN Edges[row[1]],
         NEW ms \in SUBSET IdsOf(Edges[row[1]][edge]), CaptureMembers(row, edge, ms)
  PROVE  IInv'
<1> DEFINE e == [Envelope("setMembers", row[1], row[2]) EXCEPT !.slot = edge, !.members = ms]
<1>1. Capture(e) /\ tempCounter' = tempCounter /\ shown' = shown
  BY DEF CaptureMembers
<1>2. /\ DOMAIN e = EntryFields /\ e.type = "setMembers" /\ e.table = row[1] /\ e.id = row[2] /\ e.slot = edge
      /\ e.base = Unpinned /\ e.value = Undefined /\ e.fks = <<>> /\ e.members = ms
      /\ e.conflict = Policy[row[1]] /\ e.temp = Undefined
  BY DEF Envelope, EntryFields
<1> HIDE DEF e
<1>3. row = <<row[1], row[2]>> /\ row[1] \in Tables /\ row[2] \in Int
  BY RowsFacts
<1>4. edge \in Slots
  BY <1>3 DEF Slots
<1>5. RowOf(e) = row
  BY <1>2, <1>3 DEF RowOf
<1>6. DOMAIN e.fks = {} /\ e.temp \in Int /\ e.base \in Int /\ ~Pinned(e)
  BY <1>2 DEF Undefined, Unpinned, Pinned
<1>7. EdgeTarget(e) = Edges[row[1]][edge]
  BY <1>2 DEF EdgeTarget
<1>8. e.members \subseteq Int /\ \A m \in e.members : m < 0 => <<EdgeTarget(e), m>> \in shown
  BY <1>2, <1>7, RowsFacts
<1>9. Captured(e)
  BY <1>2, <1>3, <1>4, <1>5, <1>6, <1>8, EnvelopeCaptured
<1>10. Screen(e.type, e.table, e.temp)
  BY <1>1, <1>2 DEF Screen
<1>11. QED
  BY <1>1, <1>9, <1>10, CaptureKeeps

LEMMA CaptureDeleteKeeps ==
  ASSUME IInv, NEW row \in Rows, CaptureDelete(row)
  PROVE  IInv'
<1> DEFINE e == Envelope("delete", row[1], row[2])
<1>1. Capture(e) /\ tempCounter' = tempCounter /\ shown' = shown
  BY DEF CaptureDelete
<1>2. /\ DOMAIN e = EntryFields /\ e.type = "delete" /\ e.table = row[1] /\ e.id = row[2] /\ e.slot = "none"
      /\ e.base = Unpinned /\ e.value = Undefined /\ e.fks = <<>> /\ e.members = {}
      /\ e.conflict = Policy[row[1]] /\ e.temp = Undefined
  BY DEF Envelope, EntryFields
<1> HIDE DEF e
<1>3. row = <<row[1], row[2]>> /\ row[1] \in Tables /\ row[2] \in Int
  BY RowsFacts
<1>4. RowOf(e) = row
  BY <1>2, <1>3 DEF RowOf
<1>5. DOMAIN e.fks = {} /\ e.temp \in Int /\ e.base \in Int /\ ~Pinned(e) /\ e.slot \in Slots
  BY <1>2 DEF Undefined, Unpinned, Pinned, Slots
<1>6. Captured(e)
  BY <1>2, <1>3, <1>4, <1>5, EnvelopeCaptured
<1>7. Screen(e.type, e.table, e.temp)
  BY <1>1, <1>2 DEF Screen
<1>8. QED
  BY <1>1, <1>6, <1>7, CaptureKeeps

\* Both kinds of insert: without and with an optimistic row.
InsertEnvelope(t, fks, temp) ==
  [Envelope("insert", t, Undefined) EXCEPT !.fks = fks, !.temp = temp]

LEMMA InsertCaptured ==
  ASSUME IInv, NEW t \in Tables, NEW fks \in FkValues(t), NEW temp \in Int
  PROVE  LET e == InsertEnvelope(t, fks, temp)
         IN  Captured(e) /\ e.type = "insert" /\ e.table = t /\ e.temp = temp
<1> DEFINE e == InsertEnvelope(t, fks, temp)
<1>1. /\ DOMAIN e = EntryFields /\ e.type = "insert" /\ e.table = t /\ e.id = Undefined /\ e.slot = "none"
      /\ e.base = Unpinned /\ e.value = Undefined /\ e.fks = fks /\ e.members = {}
      /\ e.conflict = Policy[t] /\ e.temp = temp
  BY DEF InsertEnvelope, Envelope, EntryFields
<1> HIDE DEF e
<1>2. /\ e.base \in Int /\ e.id \in Int /\ ~Pinned(e) /\ e.slot \in Slots
  BY <1>1 DEF Undefined, Unpinned, Pinned, Slots
<1>3. DOMAIN fks = DOMAIN FkColumns[t] /\ \A c \in DOMAIN fks : fks[c] = Undefined \/ fks[c] \in IdsOf(FkColumns[t][c])
  BY DEF FkValues
<1>4. ASSUME NEW c \in DOMAIN e.fks
      PROVE  e.fks[c] \in Int /\ (e.fks[c] < 0 => <<FkColumns[e.table][c], e.fks[c]>> \in shown)
  <2>1. CASE fks[c] = Undefined
    BY <1>1, <2>1 DEF Undefined
  <2>2. CASE fks[c] \in IdsOf(FkColumns[t][c])
    BY <1>1, <2>2, RowsFacts
  <2>3. QED
    BY <1>1, <1>3, <1>4, <2>1, <2>2
<1>5. Captured(e)
  BY <1>1, <1>2, <1>3, <1>4, EnvelopeCaptured
<1>6. QED
  BY <1>1, <1>5 DEF e

LEMMA CaptureInsertKeeps ==
  ASSUME IInv, NEW t \in Tables, NEW fks \in FkValues(t), CaptureInsert(t, fks)
  PROVE  IInv'
<1> DEFINE e == InsertEnvelope(t, fks, Undefined)
<1>1. Capture(e) /\ tempCounter' = tempCounter /\ shown' = shown
  <2> DEFINE plain == [Envelope("insert", t, Undefined) EXCEPT !.fks = fks]
  <2>1. DOMAIN plain = EntryFields /\ plain.temp = Undefined /\ plain = [x \in DOMAIN plain |-> plain[x]]
    BY DEF Envelope, EntryFields
  <2>2. e = [plain EXCEPT !.temp = Undefined]
    BY DEF InsertEnvelope
  <2>3. Capture(plain) /\ tempCounter' = tempCounter /\ shown' = shown
    BY DEF CaptureInsert
  <2> HIDE DEF plain, e
  <2>4. plain = e
    BY <2>1, <2>2 DEF EntryFields
  <2>5. QED
    BY <2>3, <2>4
<1>2. Undefined \in Int
  BY DEF Undefined
<1> HIDE DEF e
<1>3. Captured(e) /\ e.type = "insert" /\ e.table = t /\ e.temp = Undefined
  BY <1>2, InsertCaptured DEF e
<1>4. Screen(e.type, e.table, e.temp)
  BY <1>1, <1>3 DEF Screen
<1>5. QED
  BY <1>1, <1>3, <1>4, CaptureKeeps

LEMMA CaptureTempInsertKeeps ==
  ASSUME IInv, NEW t \in Tables, NEW fks \in FkValues(t), CaptureTempInsert(t, fks)
  PROVE  IInv'
<1> DEFINE temp == tempCounter - 1
           e == InsertEnvelope(t, fks, temp)
<1>1. /\ Capture(e) /\ tempCounter' = tempCounter - 1 /\ -tempCounter < MaxTemps
      /\ shown' = shown \cup {<<t, tempCounter'>>}
  BY DEF CaptureTempInsert, InsertEnvelope
<1>2. temp \in Int
  BY DEF IInv, Types
<1>3. temp = tempCounter - 1
  OBVIOUS
<1> HIDE DEF temp, e
<1>4. Captured(e) /\ e.type = "insert" /\ e.table = t /\ e.temp = temp
  BY <1>2, InsertCaptured DEF e
<1>5. Screen(e.type, e.table, e.temp)
  BY <1>1, <1>3, <1>4 DEF Screen
<1>6. QED
  BY <1>1, <1>4, <1>5, CaptureKeeps

-----------------------------------------------------------------------------
(* The invariant.                                                          *)

LEMMA InitHolds == Init => IInv
<1> SUFFICES ASSUME Init PROVE IInv
  OBVIOUS
<1>1. /\ DOMAIN entries = {} /\ DOMAIN dead = {} /\ DOMAIN live = {} /\ nextSeq = 1 /\ tempCounter = 0
      /\ shown = {} /\ foreign = {} /\ blind = {} /\ flushing = {} /\ issued = InitialRows
      /\ DOMAIN revs = InitialRows /\ seen = revs /\ \A r \in DOMAIN revs : revs[r] = 0
  BY DEF Init
<1>2. Types
  <2>1. nextSeq \in 1..MaxSeq /\ tempCounter \in Int /\ -tempCounter \in 0..MaxTemps
    BY <1>1, ConstantFacts
  <2>2. \A r \in DOMAIN revs : revs[r] \in 0..MaxRev
    BY <1>1, ConstantFacts
  <2>3. QED
    BY <1>1, <2>1, <2>2 DEF Types
<1>3. Order /\ EntriesKnown /\ Unique /\ Conflicts /\ Behind /\ Shown
  BY <1>1 DEF Order, EntriesKnown, Unique, Conflicts, Behind, Shown
<1>4. Known
  BY <1>1, ConstantFacts DEF Known, Undefined
<1>5. Pins
  <2>1. \A r \in DOMAIN revs : revs[r] <= revs[r]
    BY <1>1
  <2>2. QED
    BY <1>1, <2>1 DEF Pins
<1>6. Ghosts /\ Swept
  BY <1>1 DEF Ghosts, Swept
<1>7. QED
  BY <1>2, <1>3, <1>4, <1>5, <1>6 DEF IInv

LEMMA StutterKeeps ==
  ASSUME IInv, UNCHANGED vars
  PROVE  IInv'
<1>1. /\ entries' = entries /\ dead' = dead /\ nextSeq' = nextSeq /\ tempCounter' = tempCounter
      /\ live' = live /\ shown' = shown /\ revs' = revs /\ issued' = issued /\ seen' = seen
      /\ foreign' = foreign /\ blind' = blind /\ flushing' = flushing
  BY DEF vars
<1>2. Types' /\ Known'
  BY <1>1 DEF IInv, Types, Known
<1>3. Pins' /\ Conflicts'
  BY <1>1 DEF IInv, Pins, PinOK, Pinned, Conflicts, Foreign
<1>4. Ghosts' /\ Swept'
  BY <1>1, SeenNat, SamePins
<1>5. QED
  BY <1>1, <1>2, <1>3, <1>4, SameQueue, SameScreen DEF IInv

LEMMA StepKeeps == IInv /\ [Next]_vars => IInv'
<1> SUFFICES ASSUME IInv, [Next]_vars PROVE IInv'
  OBVIOUS
<1>1. CASE CaptureStep
  <2>1. ASSUME NEW row \in Rows, NEW f \in Fields[row[1]], CaptureSet(row, f) PROVE IInv'
    BY <2>1, CaptureSetKeeps
  <2>2. ASSUME NEW row \in Rows, NEW edge \in DOMAIN Edges[row[1]],
               NEW ms \in SUBSET IdsOf(Edges[row[1]][edge]), CaptureMembers(row, edge, ms)
        PROVE  IInv'
    BY <2>2, CaptureMembersKeeps
  <2>3. ASSUME NEW row \in Rows, CaptureDelete(row) PROVE IInv'
    BY <2>3, CaptureDeleteKeeps
  <2>4. ASSUME NEW t \in Tables, NEW fks \in FkValues(t), CaptureInsert(t, fks) PROVE IInv'
    BY <2>4, CaptureInsertKeeps
  <2>5. ASSUME NEW t \in Tables, NEW fks \in FkValues(t), CaptureTempInsert(t, fks) PROVE IInv'
    BY <2>5, CaptureTempInsertKeeps
  <2>6. QED
    BY <1>1, <2>1, <2>2, <2>3, <2>4, <2>5 DEF CaptureStep
<1>2. CASE FlushStep
  <2>1. PICK s \in DOMAIN entries : \/ FlushWrite(s)
                                    \/ \E real \in RealIds : FlushInsert(s, real)
                                    \/ FlushConflict(s)
                                    \/ FlushReject(s)
    BY <1>2 DEF FlushStep
  <2>2. CASE FlushWrite(s)
    BY <2>2, FlushWriteKeeps
  <2>3. ASSUME NEW real \in RealIds, FlushInsert(s, real) PROVE IInv'
    BY <2>3, FlushInsertKeeps
  <2>4. CASE FlushConflict(s)
    <3>1. RowOf(entries[s]) \in DOMAIN revs
      BY <2>4, AnswerMeans DEF FlushConflict
    <3>2. flushing' \subseteq flushing
      BY <2>4 DEF FlushConflict
    <3>3. QED
      BY <2>4, <3>1, <3>2, LearnKeeps DEF FlushConflict
  <2>5. CASE FlushReject(s)
    BY <2>5, FlushRejectKeeps
  <2>6. QED
    BY <2>1, <2>2, <2>3, <2>4, <2>5
<1>3. CASE ResolveKeepMine
  BY <1>3, KeepMineKeeps
<1>4. CASE ResolveTakeTheirs
  BY <1>4, TakeTheirsKeeps
<1>5. ASSUME NEW row \in DOMAIN revs, ForeignMove(row) PROVE IInv'
  BY <1>5, ForeignMoveKeeps
<1>6. ASSUME NEW row \in DOMAIN revs, Learn(row) PROVE IInv'
  <2>1. flushing' \subseteq flushing
    BY <1>6 DEF Learn
  <2>2. QED
    BY <1>6, <2>1, LearnKeeps DEF Learn
<1>7. ASSUME NEW row \in shown, Heal(row) PROVE IInv'
  BY <1>7, HealKeeps
<1>8. CASE Restart
  BY <1>8, RestartKeeps
<1>9. CASE UNCHANGED vars
  BY <1>9, StutterKeeps
<1>10. CASE Reconcile
  BY <1>10, ReconcileKeeps
<1>11. CASE FlushOffline
  BY <1>11, FlushOfflineKeeps
<1>12. QED
  BY <1>1, <1>2, <1>3, <1>4, <1>5, <1>6, <1>7, <1>8, <1>9, <1>10, <1>11 DEF Next

LEMMA Invariance == Spec => []IInv
BY InitHolds, StepKeeps, PTL DEF Spec

-----------------------------------------------------------------------------
(* The theorems.                                                           *)

LEMMA TypesGiveTypeOK == IInv => TypeOK
<1> SUFFICES ASSUME IInv PROVE TypeOK
  OBVIOUS
<1>1. nextSeq \in 1..MaxSeq /\ MaxSeq \in Nat
  BY ConstantFacts DEF IInv, Types
<1>2. \A n : n \in Nat \ {0} /\ n < nextSeq => n \in 1..MaxSeq
  BY <1>1
<1>3. DOMAIN entries \subseteq 1..MaxSeq /\ DOMAIN dead \subseteq 1..MaxSeq
  BY <1>2 DEF IInv, Order
<1>4. \A M \in {revs, seen} : \A r \in DOMAIN M : r \in Tables \X Int /\ M[r] \in 0..MaxRev
  <2>1. issued \subseteq Tables \X Int
    BY DEF IInv, Known
  <2>2. QED
    BY <2>1 DEF IInv, Known, Types
<1>5. foreign \cup blind \cup UNION flushing \subseteq DOMAIN entries
  BY DEF IInv, Ghosts, Swept
<1>6. QED
  BY <1>1, <1>3, <1>4, <1>5 DEF IInv, Types, TypeOK

\* CoalesceUnique: for any tables, policies and bounds the state is well typed
\* and the queue holds at most one set per table:id:field and one setMembers
\* per edge, whatever temp ids have been rewritten since (queue.js:33-52,
\* 171-201).
THEOREM OneEntryPerSlot == Spec => []CoalesceUnique
<1>1. IInv => CoalesceUnique
  <2> SUFFICES ASSUME IInv PROVE CoalesceUnique
    OBVIOUS
  <2>1. ASSUME NEW s \in DOMAIN entries, NEW x \in DOMAIN entries, x # s
        PROVE  x \notin CoalesceTargets(entries, entries[s])
    <3>1. ~SameSlot(entries[s], entries[x])
      BY <2>1 DEF IInv, Unique
    <3>2. QED
      BY <3>1 DEF CoalesceTargets, SameSlot
  <2>2. QED
    BY <2>1, TypesGiveTypeOK DEF CoalesceUnique
<1>2. QED
  BY <1>1, Invariance, PTL

\* ConflictIffForeign: a queued pinned set disagrees with the server's revision
\* exactly when somebody else's write overtook it and its pin has not been moved
\* past that write since, by keep-mine or by the answer to a membership entry,
\* through any number of own acks, coalesced edits and page reloads.  What was
\* typed on an optimistic row the page already knew more of is left out.
THEOREM ConflictsAreForeign == Spec => []ConflictIffForeign
<1>1. IInv => ConflictIffForeign
  BY DEF IInv, Conflicts, Foreign, Pinned, ConflictIffForeign
<1>2. QED
  BY <1>1, Invariance, PTL

\* NoOrphans: whatever waits with a temp id waits behind the insert that will
\* replace it, or that insert was refused.
THEOREM TempRefsHaveInserts == Spec => []NoOrphans
<1>1. IInv => NoOrphans
  <2> SUFFICES ASSUME IInv, NEW s \in DOMAIN entries, NEW r \in TempRefs(entries[s])
               PROVE  \E x \in TempInsertIn(entries, r) \cup TempInsertIn(dead, r) :
                        x < s \/ entries[s].type = "setMembers"
    BY DEF NoOrphans
  <2>1. PICK x : InsertOf(x, r) /\ (x < s \/ entries[s].type = "setMembers")
    BY DEF TempRefs, IInv, Behind
  <2>2. x \in TempInsertIn(entries, r) \cup TempInsertIn(dead, r)
    BY <2>1 DEF InsertOf, TempInsertIn
  <2>3. QED
    BY <2>1, <2>2
<1>2. QED
  BY <1>1, Invariance, PTL

\* A step either appends under the next seq, or leaves the counter alone and
\* adds nothing to the queue; a dead letter stays.
Grows ==
  /\ \/ nextSeq' = nextSeq /\ DOMAIN entries' \subseteq DOMAIN entries
     \/ nextSeq' = nextSeq + 1 /\ DOMAIN entries' \subseteq DOMAIN entries \cup {nextSeq}
  /\ \A s \in DOMAIN dead : s \in DOMAIN dead' /\ dead'[s] = dead[s]

LEMMA SeqStep ==
  ASSUME IInv, [Next]_vars
  PROVE  Grows
<1>1. ASSUME NEW e0, Capture(e0) PROVE Grows
  <2> DEFINE e == Translate(e0, live)
             s == EnqueueSeq(entries, e, nextSeq)
  <2>1. /\ entries' = Enqueue(entries, e, nextSeq) /\ dead' = dead
        /\ nextSeq' = IF s = nextSeq THEN nextSeq + 1 ELSE nextSeq
    BY <1>1 DEF Capture
  <2> HIDE DEF e
  <2>2. CASE CoalesceTargets(entries, e) = {}
    <3>1. s = nextSeq /\ entries' = Put(entries, nextSeq, Stored(e))
      BY <2>1, <2>2 DEF EnqueueSeq, Enqueue
    <3>2. DOMAIN entries' = DOMAIN entries \cup {nextSeq}
      BY <3>1 DEF Put
    <3>3. QED
      BY <2>1, <3>1, <3>2 DEF Grows
  <2>3. CASE CoalesceTargets(entries, e) # {}
    <3>1. DOMAIN entries' = DOMAIN entries
      BY <2>1, <2>3 DEF Enqueue
    <3> HIDE DEF s
    <3>2. nextSeq' = nextSeq \/ nextSeq' = nextSeq + 1
      BY <2>1
    <3>3. QED
      BY <2>1, <3>1, <3>2 DEF Grows
  <2>4. QED
    BY <2>2, <2>3
<1>2. CASE CaptureStep
  <2>1. \A row, f : CaptureSet(row, f) => Grows
    BY <1>1 DEF CaptureSet
  <2>2. \A row, edge, ms : CaptureMembers(row, edge, ms) => Grows
    BY <1>1 DEF CaptureMembers
  <2>3. \A row : CaptureDelete(row) => Grows
    BY <1>1 DEF CaptureDelete
  <2>4. \A t, fks : CaptureInsert(t, fks) => Grows
    BY <1>1 DEF CaptureInsert
  <2>5. \A t, fks : CaptureTempInsert(t, fks) => Grows
    BY <1>1 DEF CaptureTempInsert
  <2>6. QED
    BY <1>2, <2>1, <2>2, <2>3, <2>4, <2>5 DEF CaptureStep
<1>3. CASE FlushStep
  <2>1. PICK s \in DOMAIN entries : \/ FlushWrite(s)
                                    \/ \E real \in RealIds : FlushInsert(s, real)
                                    \/ FlushConflict(s)
                                    \/ FlushReject(s)
    BY <1>3 DEF FlushStep
  <2>2. CASE FlushWrite(s)
    <3>1. DOMAIN entries' = DOMAIN entries \ {s}
      BY <2>2, WriteFacts
    <3>2. QED
      BY <2>2, <3>1 DEF FlushWrite, Grows
  <2>3. ASSUME NEW real \in RealIds, FlushInsert(s, real) PROVE Grows
    <3>1. entries' = AckInsert(entries, s, real) /\ dead' = dead /\ nextSeq' = nextSeq
      BY <2>3 DEF FlushInsert
    <3>2. DOMAIN entries' = DOMAIN entries \ {s}
      BY <3>1, AckInsertFields
    <3>3. QED
      BY <3>1, <3>2 DEF Grows
  <2>4. CASE FlushConflict(s)
    BY <2>4 DEF FlushConflict, queue, Grows
  <2>5. CASE FlushReject(s)
    <3>1. entries' = Drop(entries, s) /\ dead' = Put(dead, s, entries[s]) /\ nextSeq' = nextSeq
      BY <2>5 DEF FlushReject
    <3>2. s \notin DOMAIN dead
      BY DEF IInv, Order
    <3>3. QED
      BY <3>1, <3>2 DEF Drop, Restrict, Put, Grows
  <2>6. QED
    BY <2>1, <2>2, <2>3, <2>4, <2>5
<1>4. CASE ResolveKeepMine
  <2>1. dead' = dead /\ nextSeq' = nextSeq
    BY <1>4 DEF ResolveKeepMine
  <2>2. DOMAIN entries' = DOMAIN entries
    BY <1>4 DEF ResolveKeepMine, KeepMine
  <2>3. QED
    BY <2>1, <2>2 DEF Grows
<1>5. CASE ResolveTakeTheirs
  <2>1. dead' = dead /\ nextSeq' = nextSeq
    BY <1>5 DEF ResolveTakeTheirs
  <2>2. DOMAIN entries' \subseteq DOMAIN entries
    BY <1>5 DEF ResolveTakeTheirs, TakeTheirs, Drop, Restrict
  <2>3. QED
    BY <2>1, <2>2 DEF Grows
<1>6. ASSUME NEW row, ForeignMove(row) \/ Learn(row) \/ Heal(row) PROVE Grows
  BY <1>6 DEF ForeignMove, Learn, Heal, queue, Grows
<1>7. CASE Restart
  BY <1>7 DEF Restart, Grows
<1>8. CASE UNCHANGED vars
  BY <1>8 DEF vars, Grows
<1>9. CASE Reconcile \/ FlushOffline
  BY <1>9 DEF Reconcile, FlushOffline, queue, Grows
<1>10. QED
  BY <1>2, <1>3, <1>4, <1>5, <1>6, <1>7, <1>8, <1>9 DEF Next

\* SeqDiscipline: a sequence number names one captured write for ever; the
\* server's idempotency key is built on it (queue.js:17-29).
THEOREM SeqsNameOneWrite == Spec => SeqDiscipline
<1> DEFINE Disciplined ==
             /\ nextSeq' >= nextSeq
             /\ \A s \in DOMAIN entries' \ DOMAIN entries : s \in nextSeq..(nextSeq' - 1)
             /\ DOMAIN entries' \cap DOMAIN dead' = {}
             /\ \A s \in DOMAIN dead : s \in DOMAIN dead' /\ dead'[s] = dead[s]
<1>1. IInv /\ [Next]_vars => [Disciplined]_vars
  <2> SUFFICES ASSUME IInv, [Next]_vars PROVE Disciplined
    OBVIOUS
  <2>1. nextSeq \in Nat
    BY ConstantFacts DEF IInv, Types
  <2>2. DOMAIN entries' \cap DOMAIN dead' = {}
    BY StepKeeps DEF IInv, Order
  <2>3. nextSeq' >= nextSeq
    BY <2>1, SeqStep DEF Grows
  <2>4. ASSUME NEW s \in DOMAIN entries' \ DOMAIN entries PROVE s \in nextSeq..(nextSeq' - 1)
    <3>1. s = nextSeq /\ nextSeq' = nextSeq + 1
      BY SeqStep DEF Grows
    <3>2. QED
      BY <2>1, <3>1
  <2>5. QED
    BY <2>2, <2>3, <2>4, SeqStep DEF Grows
<1>2. QED
  BY <1>1, Invariance, PTL DEF Spec, SeqDiscipline

-----------------------------------------------------------------------------
(* Lineages: the fold over the pairs, one pair at a time.                  *)

\* The fold of Merge over a set of pairs, for the subsets up to a size.
UpTo(S, n)   == {T \in SUBSET S : Cardinality(T) <= n}
First(T)     == CHOOSE p \in T : TRUE
Merging(it, base, S, n) ==
  it = [T \in UpTo(S, n) |-> IF T = {} THEN base ELSE Merge(First(T), it[T \ {First(T)}])]

LEMMA OneLess ==
  ASSUME NEW S, IsFiniteSet(S), NEW T \in SUBSET S, T # {}
  PROVE  /\ IsFiniteSet(T) /\ Cardinality(T) \in Nat \ {0} /\ First(T) \in T
         /\ T \ {First(T)} \in SUBSET S
         /\ Cardinality(T \ {First(T)}) = Cardinality(T) - 1
<1>1. IsFiniteSet(T) /\ First(T) \in T
  BY FS_Subset DEF First
<1>2. Cardinality(T) \in Nat /\ Cardinality(T) # 0
  BY <1>1, FS_CardinalityType, FS_EmptySet
<1>3. Cardinality(T \ {First(T)}) = Cardinality(T) - 1
  BY <1>1, FS_RemoveElement
<1>. QED BY <1>1, <1>2, <1>3

LEMMA MergingUnrolls ==
  ASSUME NEW base, NEW S, IsFiniteSet(S)
  PROVE  \E it : Merging(it, base, S, Cardinality(S))
<1>. DEFINE N == Cardinality(S)
            Good == {n \in 0..N : \E it : Merging(it, base, S, n)}
<1>0. N \in Nat
  BY FS_CardinalityType
<1>. HIDE DEF N
<1>1. 0 \in Good
  <2>1. ASSUME NEW T \in UpTo(S, 0) PROVE T = {}
    <3>1. T \in SUBSET S /\ Cardinality(T) <= 0
      BY <2>1 DEF UpTo
    <3>2. ASSUME T # {} PROVE FALSE
      <4>1. Cardinality(T) \in Nat \ {0}
        BY <3>1, <3>2, OneLess
      <4>. QED BY <3>1, <4>1
    <3>. QED BY <3>2
  <2>2. Merging([T \in UpTo(S, 0) |-> base], base, S, 0)
    BY <2>1 DEF Merging
  <2>3. \E it : Merging(it, base, S, 0)
    BY <2>2
  <2>. QED BY <1>0, <2>3
<1>2. ASSUME NEW n \in 1..N, n - 1 \in Good PROVE n \in Good
  <2>1. PICK it : Merging(it, base, S, n - 1)
    BY <1>2
  <2>. DEFINE step(T) == IF T = {} THEN base ELSE Merge(First(T), it[T \ {First(T)}])
              h == [T \in UpTo(S, n) |-> step(T)]
  <2>2. ASSUME NEW T \in UpTo(S, n) PROVE h[T] = IF T = {} THEN base ELSE Merge(First(T), h[T \ {First(T)}])
    <3>1. CASE T = {}
      BY <3>1
    <3>2. CASE T # {}
      <4>. DEFINE U == T \ {First(T)}
      <4>1. T \in SUBSET S /\ Cardinality(T) <= n
        BY DEF UpTo
      <4>2. U \in SUBSET S /\ Cardinality(U) \in Nat /\ Cardinality(U) <= n - 1
        BY <3>2, <4>1, OneLess
      <4>3. U \in UpTo(S, n - 1) /\ U \in UpTo(S, n)
        BY <4>2 DEF UpTo
      <4>. HIDE DEF U
      <4>4. it[U] = step(U)
        BY <2>1, <4>3 DEF Merging
      <4>5. h[U] = step(U) /\ h[T] = step(T)
        BY <4>3
      <4>6. step(T) = Merge(First(T), it[U])
        BY <3>2 DEF U
      <4>. HIDE DEF step, h
      <4>7. h[T] = Merge(First(T), h[U])
        BY <4>4, <4>5, <4>6
      <4>. QED BY <3>2, <4>7 DEF U
    <3>. QED BY <3>1, <3>2
  <2>3. h = [T \in UpTo(S, n) |-> h[T]]
    OBVIOUS
  <2>. HIDE DEF h
  <2>4. Merging(h, base, S, n)
    BY <2>2, <2>3 DEF Merging
  <2>5. \E k : Merging(k, base, S, n)
    BY <2>4
  <2>. QED BY <2>5
<1>3. N \in Good
  <2>1. \A n \in 1..N : n - 1 \in Good => n \in Good
    BY <1>2
  <2>. HIDE DEF Good
  <2>2. \A n \in 0..N : n \in Good
    BY <1>0, <1>1, <2>1, Climb
  <2>. QED BY <1>0, <2>2
<1>. QED BY <1>3 DEF N

\* FoldSet's own recursion is that function.
LEMMA FoldUnrolls ==
  ASSUME NEW base, NEW S, IsFiniteSet(S)
  PROVE  \E it : Merging(it, base, S, Cardinality(S)) /\ FoldSet(Merge, base, S) = it[S]
<1>. DEFINE Iter(it) == it = [T \in SUBSET S |-> IF T = {} THEN base ELSE Merge(First(T), it[T \ {First(T)}])]
            f == CHOOSE it : Iter(it)
<1>1. UpTo(S, Cardinality(S)) = SUBSET S
  <2>1. ASSUME NEW T \in SUBSET S PROVE Cardinality(T) <= Cardinality(S)
    BY FS_Subset
  <2>. QED BY <2>1 DEF UpTo
<1>2. PICK it : Merging(it, base, S, Cardinality(S))
  BY MergingUnrolls
<1>3. Iter(it)
  BY <1>1, <1>2 DEF Merging
<1>4. Iter(f)
  BY <1>3
<1>5. FoldSet(Merge, base, S) = f[S]
  BY DEF FoldSet, MapThenFoldSet, First
<1>. HIDE DEF f
<1>6. Merging(f, base, S, Cardinality(S))
  BY <1>1, <1>4 DEF Merging
<1>. QED BY <1>5, <1>6

-----------------------------------------------------------------------------
(* Blocks: what the union-find leaves is the partition the pairs force.     *)

\* No pair has one end in C and the other out of it.
Closed(C, T) == \A p \in T : p[1] \in C <=> p[2] \in C

\* P splits the keys K into the blocks that the pairs T force, and no coarser.
Splits(P, K, T) ==
  /\ UNION P = K
  /\ \A b \in P : b # {}
  /\ \A b, c \in P : b \cap c # {} => b = c
  /\ \A b \in P : Closed(b, T)
  /\ \A C \in SUBSET K : Closed(C, T) => \A b \in P : b \subseteq C \/ b \cap C = {}

\* Uniting one more pair keeps the blocks as coarse as forced, and no coarser.
LEMMA MergeSplits ==
  ASSUME NEW P, NEW K, NEW T, Splits(P, K, T), NEW p, p[1] \in K, p[2] \in K
  PROVE  Splits(Merge(p, P), K, T \cup {p})
<1>. DEFINE hit == {b \in P : p[1] \in b \/ p[2] \in b}
            whole == UNION hit
            Q == (P \ hit) \cup {whole}
<1>0. Merge(p, P) = Q
  BY DEF Merge
<1>1. UNION P = K /\ (\A b \in P : b # {}) /\ (\A b, c \in P : b \cap c # {} => b = c)
  BY DEF Splits
<1>2. PICK b1 \in P : p[1] \in b1
  BY <1>1
<1>3. PICK b2 \in P : p[2] \in b2
  BY <1>1
<1>4. hit = {b1, b2}
  BY <1>1, <1>2, <1>3
<1>5. whole = b1 \cup b2
  BY <1>4
<1>. HIDE DEF hit, whole
<1>6. UNION Q = K
  BY <1>1, <1>2, <1>3, <1>4, <1>5
<1>7. \A b \in Q : b # {}
  BY <1>1, <1>2, <1>5
<1>8. ASSUME NEW b \in Q, NEW c \in Q, b \cap c # {} PROVE b = c
  <2>1. ASSUME NEW d \in P \ hit PROVE d \cap whole = {}
    BY <1>1, <1>2, <1>3, <1>4, <1>5
  <2>. QED BY <1>1, <1>8, <2>1
<1>9. ASSUME NEW b \in Q PROVE Closed(b, T \cup {p})
  <2>1. CASE b = whole
    <3>1. Closed(b1, T) /\ Closed(b2, T)
      BY DEF Splits
    <3>. QED BY <1>2, <1>3, <1>5, <2>1, <3>1 DEF Closed
  <2>2. CASE b \in P \ hit
    <3>1. Closed(b, T)
      BY <2>2 DEF Splits
    <3>2. p[1] \notin b /\ p[2] \notin b
      BY <2>2 DEF hit
    <3>. QED BY <3>1, <3>2 DEF Closed
  <2>. QED BY <2>1, <2>2
<1>10. ASSUME NEW C \in SUBSET K, Closed(C, T \cup {p}), NEW b \in Q PROVE b \subseteq C \/ b \cap C = {}
  <2>1. Closed(C, T) /\ (p[1] \in C <=> p[2] \in C)
    BY <1>10 DEF Closed
  <2>2. \A d \in P : d \subseteq C \/ d \cap C = {}
    BY <2>1 DEF Splits
  <2>3. CASE b \in P
    BY <2>2, <2>3
  <2>4. CASE b = whole
    BY <1>2, <1>3, <1>5, <2>1, <2>2, <2>4
  <2>. QED BY <2>3, <2>4
<1>. HIDE DEF Q
<1>. QED BY <1>0, <1>6, <1>7, <1>8, <1>9, <1>10 DEF Splits

LEMMA FoldSplits ==
  ASSUME NEW K, NEW S, IsFiniteSet(S), \A p \in S : p[1] \in K /\ p[2] \in K
  PROVE  Splits(FoldSet(Merge, {{k} : k \in K}, S), K, S)
<1>. DEFINE base == {{k} : k \in K}
            N == Cardinality(S)
<1>0. N \in Nat
  BY FS_CardinalityType
<1>1. PICK it : Merging(it, base, S, N) /\ FoldSet(Merge, base, S) = it[S]
  BY FoldUnrolls
<1>2. Splits(base, K, {})
  BY DEF Splits, Closed
<1>. HIDE DEF base
<1>. DEFINE Good == {n \in 0..N : \A T \in SUBSET S : Cardinality(T) = n => Splits(it[T], K, T)}
<1>3. ASSUME NEW T \in SUBSET S PROVE it[T] = IF T = {} THEN base ELSE Merge(First(T), it[T \ {First(T)}])
  <2>1. T \in UpTo(S, N)
    BY FS_Subset DEF UpTo
  <2>. QED BY <1>1, <2>1 DEF Merging
<1>4. 0 \in Good
  <2>1. ASSUME NEW T \in SUBSET S, Cardinality(T) = 0 PROVE T = {}
    BY <2>1, OneLess
  <2>2. it[{}] = base
    BY <1>3
  <2>3. \A T \in SUBSET S : Cardinality(T) = 0 => Splits(it[T], K, T)
    BY <1>2, <2>1, <2>2
  <2>. QED BY <1>0, <2>3
<1>5. ASSUME NEW n \in 1..N, n - 1 \in Good PROVE n \in Good
  <2>1. ASSUME NEW T \in SUBSET S, Cardinality(T) = n PROVE Splits(it[T], K, T)
    <3>1. T # {}
      BY <2>1, FS_EmptySet
    <3>. DEFINE p == First(T)
                U == T \ {p}
    <3>2. p \in T /\ U \in SUBSET S /\ Cardinality(U) = n - 1
      BY <2>1, <3>1, OneLess
    <3>3. it[T] = Merge(p, it[U])
      BY <1>3, <3>1
    <3>. HIDE DEF p
    <3>4. T = U \cup {p} /\ p[1] \in K /\ p[2] \in K
      BY <3>2
    <3>. HIDE DEF U
    <3>5. Splits(it[U], K, U)
      BY <1>5, <3>2
    <3>6. Splits(Merge(p, it[U]), K, U \cup {p})
      BY <3>4, <3>5, MergeSplits
    <3>. QED BY <3>3, <3>4, <3>6
  <2>. QED BY <2>1
<1>6. N \in Good
  <2>1. \A n \in 1..N : n - 1 \in Good => n \in Good
    BY <1>5
  <2>. HIDE DEF Good
  <2>2. \A n \in 0..N : n \in Good
    BY <1>0, <1>4, <2>1, Climb
  <2>. QED BY <1>0, <2>2
<1>. QED BY <1>1, <1>6 DEF base

-----------------------------------------------------------------------------
(* Components: what a bounded number of links reaches is all they reach.    *)

\* A set of entries no link leads out of or into.
Whole(E, D) == \A x \in D, y \in DOMAIN E : Linked(E, x, y) \/ Linked(E, y, x) => y \in D

Reaches(g, E, s, n) == g = [k \in 0..n |-> IF k = 0 THEN {s} ELSE Near(E, g[k - 1])]

LEMMA ReachUnrolls ==
  ASSUME NEW E, NEW s, NEW N \in Nat
  PROVE  \E g : Reaches(g, E, s, N)
<1>. DEFINE Good == {m \in 0..N : \E g : Reaches(g, E, s, m)}
<1>1. 0 \in Good
  <2>1. Reaches([k \in 0..0 |-> {s}], E, s, 0)
    BY DEF Reaches
  <2>2. \E g : Reaches(g, E, s, 0)
    BY <2>1
  <2>. QED BY <2>2
<1>2. ASSUME NEW b \in 1..N, b - 1 \in Good PROVE b \in Good
  <2>1. PICK g : Reaches(g, E, s, b - 1)
    BY <1>2
  <2>. DEFINE h == [k \in 0..b |-> IF k = b THEN Near(E, g[b - 1]) ELSE g[k]]
  <2>2. ASSUME NEW k \in 0..b
        PROVE  h[k] = IF k = 0 THEN {s} ELSE Near(E, h[k - 1])
    <3>1. CASE k = b
      BY <3>1
    <3>2. CASE k # b
      <4>1. k \in 0..(b - 1) /\ h[k] = g[k] /\ (k # 0 => k - 1 \in 0..b /\ k - 1 # b /\ h[k - 1] = g[k - 1])
        BY <3>2
      <4>2. g[k] = IF k = 0 THEN {s} ELSE Near(E, g[k - 1])
        BY <2>1, <4>1 DEF Reaches
      <4>. QED BY <4>1, <4>2
    <3>. QED BY <3>1, <3>2
  <2>3. Reaches(h, E, s, b)
    BY <2>2 DEF Reaches
  <2>. HIDE DEF h
  <2>4. \E k : Reaches(k, E, s, b)
    BY <2>3
  <2>. QED BY <2>4
<1>3. \A b \in 1..N : b - 1 \in Good => b \in Good
  BY <1>2
<1>. HIDE DEF Good
<1>4. N \in Good
  BY <1>1, <1>3, Climb
<1>. QED BY <1>4 DEF Good

\* The component of an entry is the smallest whole set it is in.
LEMMA ComponentIsLeast ==
  ASSUME NEW E, IsFiniteSet(DOMAIN E), NEW s \in DOMAIN E
  PROVE  /\ s \in Component(E, s) /\ Component(E, s) \subseteq DOMAIN E
         /\ Whole(E, Component(E, s))
         /\ \A D : s \in D /\ Whole(E, D) => Component(E, s) \subseteq D
<1>. DEFINE N == Cardinality(DOMAIN E)
            g == CHOOSE h : Reaches(h, E, s, N)
<1>0. N \in Nat
  BY FS_CardinalityType
<1>1. Reaches(g, E, s, N)
  BY <1>0, ReachUnrolls
<1>2. Component(E, s) = g[N]
  BY DEF Component, Reaches
<1>. HIDE DEF N, g
<1>3. g[0] = {s} /\ \A k \in 1..N : g[k] = Near(E, g[k - 1])
  <2>1. ASSUME NEW k \in 0..N PROVE g[k] = IF k = 0 THEN {s} ELSE Near(E, g[k - 1])
    BY <1>1 DEF Reaches
  <2>2. g[0] = {s}
    BY <1>0, <2>1
  <2>3. ASSUME NEW k \in 1..N PROVE g[k] = Near(E, g[k - 1])
    BY <2>1
  <2>. QED BY <2>2, <2>3
<1>. DEFINE Big == {k \in 0..N : /\ s \in g[k] /\ g[k] \subseteq DOMAIN E
                                 /\ Near(E, g[k]) = g[k] \/ Cardinality(g[k]) > k
                                 /\ \A D : s \in D /\ Whole(E, D) => g[k] \subseteq D}
<1>4. 0 \in Big
  <2>1. Cardinality({s}) = 1
    BY FS_Singleton
  <2>. QED BY <1>0, <1>3, <2>1
<1>5. ASSUME NEW k \in 1..N, k - 1 \in Big PROVE k \in Big
  <2>. DEFINE was == g[k - 1]
              is  == g[k]
  <2>1. /\ is = Near(E, was) /\ s \in was /\ was \subseteq DOMAIN E
        /\ Near(E, was) = was \/ Cardinality(was) > k - 1
        /\ \A D : s \in D /\ Whole(E, D) => was \subseteq D
    BY <1>3, <1>5
  <2>. HIDE DEF was, is
  <2>2. was \subseteq is /\ s \in is /\ is \subseteq DOMAIN E
    BY <2>1 DEF Near
  <2>3. Near(E, is) = is \/ Cardinality(is) > k
    <3>1. CASE is = was
      BY <2>1, <3>1
    <3>2. CASE is # was
      <4>1. IsFiniteSet(is) /\ IsFiniteSet(was)
        BY <2>2, FS_Subset
      <4>2. Cardinality(was) <= Cardinality(is) /\ Cardinality(was) # Cardinality(is)
        BY <2>2, <3>2, <4>1, FS_Subset
      <4>3. Cardinality(was) \in Nat /\ Cardinality(is) \in Nat
        BY <4>1, FS_CardinalityType
      <4>4. Cardinality(was) > k - 1
        BY <2>1, <3>2
      <4>. QED BY <4>2, <4>3, <4>4
    <3>. QED BY <3>1, <3>2
  <2>4. ASSUME NEW D, s \in D, Whole(E, D) PROVE is \subseteq D
    <3>1. was \subseteq D
      BY <2>1, <2>4
    <3>. QED BY <2>1, <2>4, <3>1 DEF Near, Whole
  <2>. QED BY <2>2, <2>3, <2>4 DEF is
<1>6. N \in Big
  <2>1. \A k \in 1..N : k - 1 \in Big => k \in Big
    BY <1>5
  <2>. HIDE DEF Big
  <2>. QED BY <1>0, <1>4, <2>1, Climb
<1>7. Whole(E, g[N])
  <2>1. Cardinality(g[N]) <= N
    BY <1>6, FS_Subset DEF N
  <2>2. IsFiniteSet(g[N])
    BY <1>6, FS_Subset
  <2>3. Cardinality(g[N]) \in Nat
    BY <2>2, FS_CardinalityType
  <2>4. Near(E, g[N]) = g[N]
    BY <1>0, <1>6, <2>1, <2>3
  <2>. QED BY <2>4 DEF Near, Whole
<1>. QED BY <1>2, <1>6, <1>7

-----------------------------------------------------------------------------
(* Row keys tell the same entries apart as links do.                        *)

\* What the invariant says of a queue as far as row keys can tell.
PlainEntry(s, e) ==
  /\ s # Undefined
  /\ e.type = "insert" => e.id = Undefined
  /\ e.type # "insert" => e.id # Undefined /\ e.temp = Undefined
  /\ Undefined \notin e.members
Plain(E) == IsFiniteSet(DOMAIN E) /\ \A s \in DOMAIN E : PlainEntry(s, E[s])

\* A reference to a row no entry inserts: of a table, absent.
Absent(t) == <<t, Undefined, Undefined>>

LEMMA RowKeyIsNoAbsent ==
  ASSUME NEW E, Plain(E), NEW s \in DOMAIN E, NEW t
  PROVE  RowKey(E, s) # Absent(t)
<1>1. PlainEntry(s, E[s])
  BY DEF Plain
<1>. QED BY <1>1 DEF PlainEntry, RowKey, Absent

\* A key an entry refers to is of a queued insert, or of an absent row.
LEMMA RefKeysAre ==
  ASSUME NEW E, Plain(E), NEW s \in DOMAIN E, NEW k \in RefKeys(E, s)
  PROVE  \/ \E x \in DOMAIN E : k = RowKey(E, x) /\ Linked(E, s, x)
         \/ \E t \in AbsentKeys(E, s) : k = Absent(t)
<1>1. PICK r \in References(E[s]) : /\ k = <<r[1], r[2], Undefined>>
                                    /\ \E x \in DOMAIN E : E[x].temp = r[2] /\ E[x].table = r[1]
  BY DEF RefKeys
<1>2. PICK x \in DOMAIN E : E[x].temp = r[2] /\ E[x].table = r[1]
  BY <1>1
<1>3. PlainEntry(s, E[s]) /\ PlainEntry(x, E[x])
  BY DEF Plain
<1>4. \/ E[s].id # Undefined /\ r = <<E[s].table, E[s].id>>
      \/ \E c \in DOMAIN E[s].fks : r = <<FkColumns[E[s].table][c], E[s].fks[c]>>
      \/ \E m \in E[s].members : r = <<EdgeTarget(E[s]), m>>
  BY <1>1 DEF References, RowOf
<1>5. r = <<r[1], r[2]>>
  BY <1>4
<1>6. CASE r[2] # Undefined
  <2>1. E[x].temp # Undefined /\ <<E[x].table, E[x].temp>> \in References(E[s])
    BY <1>1, <1>2, <1>5, <1>6
  <2>2. Linked(E, s, x)
    BY <2>1 DEF Linked
  <2>3. E[x].type = "insert"
    BY <1>3, <2>1 DEF PlainEntry
  <2>4. k = RowKey(E, x)
    BY <1>1, <1>2, <2>1, <2>3 DEF RowKey
  <2>. QED BY <2>2, <2>4
<1>7. CASE r[2] = Undefined
  <2>1. PICK c \in DOMAIN E[s].fks : r = <<FkColumns[E[s].table][c], E[s].fks[c]>>
    <3>1. ~(E[s].id # Undefined /\ r = <<E[s].table, E[s].id>>)
      BY <1>7
    <3>2. ~(\E m \in E[s].members : r = <<EdgeTarget(E[s]), m>>)
      BY <1>3, <1>7 DEF PlainEntry
    <3>. QED BY <1>4, <3>1, <3>2
  <2>2. r[1] = FkColumns[E[s].table][c] /\ E[s].fks[c] = Undefined
    BY <1>7, <2>1
  <2>3. r[1] \in AbsentKeys(E, s)
    BY <1>2, <1>7, <2>2 DEF AbsentKeys
  <2>. QED BY <1>1, <1>7, <2>3 DEF Absent
<1>. QED BY <1>6, <1>7

LEMMA LinkGivesKey ==
  ASSUME NEW E, Plain(E), NEW s \in DOMAIN E, NEW x \in DOMAIN E,
         E[x].temp # Undefined, <<E[x].table, E[x].temp>> \in References(E[s])
  PROVE  RowKey(E, x) \in RefKeys(E, s)
<1>. DEFINE r == <<E[x].table, E[x].temp>>
<1>1. E[x].type = "insert"
  BY DEF Plain, PlainEntry
<1>2. RowKey(E, x) = <<r[1], r[2], Undefined>>
  BY <1>1 DEF RowKey
<1>3. r \in References(E[s]) /\ E[x].temp = r[2] /\ E[x].table = r[1]
  OBVIOUS
<1>. HIDE DEF r
<1>. QED BY <1>2, <1>3 DEF RefKeys

\* The entries of a set of keys that no united pair leaves are whole.
HoldersOf(E, b) == {x \in DOMAIN E : RowKey(E, x) \in b}

LEMMA HoldersAreWhole ==
  ASSUME NEW E, Plain(E), NEW b, Closed(b, Pairs(E))
  PROVE  Whole(E, HoldersOf(E, b))
<1>. SUFFICES ASSUME NEW x \in DOMAIN E, NEW y \in DOMAIN E, Linked(E, x, y)
              PROVE  RowKey(E, x) \in b <=> RowKey(E, y) \in b
  BY DEF Whole, HoldersOf
<1>1. ASSUME NEW s \in DOMAIN E, NEW k \in RefKeys(E, s) PROVE RowKey(E, s) \in b <=> k \in b
  <2>1. <<RowKey(E, s), k>> \in Pairs(E)
    BY DEF Pairs, PairsOf
  <2>. QED BY <2>1 DEF Closed
<1>2. CASE RowKey(E, x) = RowKey(E, y)
  BY <1>2
<1>3. CASE E[y].temp # Undefined /\ <<E[y].table, E[y].temp>> \in References(E[x])
  <2>1. RowKey(E, y) \in RefKeys(E, x)
    BY <1>3, LinkGivesKey
  <2>. QED BY <1>1, <2>1
<1>. QED BY <1>2, <1>3 DEF Linked

\* The keys of a set of entries, and what those entries refer to.
KeysOf(E, D) == {RowKey(E, x) : x \in D} \cup UNION {RefKeys(E, x) : x \in D}

LEMMA KeysOfWhole ==
  ASSUME NEW E, Plain(E), NEW D \in SUBSET DOMAIN E, Whole(E, D),
         \A x \in D : AbsentKeys(E, x) = {}
  PROVE  /\ Closed(KeysOf(E, D), Pairs(E))
         /\ \A x \in DOMAIN E : RowKey(E, x) \in KeysOf(E, D) => x \in D
<1>1. ASSUME NEW x \in D, NEW y \in DOMAIN E, Linked(E, x, y) \/ Linked(E, y, x) PROVE y \in D
  BY <1>1 DEF Whole
<1>2. ASSUME NEW x \in D, NEW y \in DOMAIN E, RowKey(E, x) = RowKey(E, y) PROVE y \in D
  BY <1>1, <1>2 DEF Linked
<1>3. ASSUME NEW x \in DOMAIN E, RowKey(E, x) \in KeysOf(E, D) PROVE x \in D
  <2>1. CASE \E y \in D : RowKey(E, x) = RowKey(E, y)
    BY <1>2, <2>1
  <2>2. CASE \E y \in D : RowKey(E, x) \in RefKeys(E, y)
    <3>1. PICK y \in D : RowKey(E, x) \in RefKeys(E, y)
      BY <2>2
    <3>2. PICK z \in DOMAIN E : RowKey(E, x) = RowKey(E, z) /\ Linked(E, y, z)
      BY <3>1, RefKeysAre, RowKeyIsNoAbsent
    <3>3. z \in D
      BY <1>1, <3>2
    <3>. QED BY <1>2, <3>2, <3>3
  <2>. QED BY <1>3, <2>1, <2>2 DEF KeysOf
<1>4. ASSUME NEW z \in DOMAIN E, NEW k \in RefKeys(E, z), k \in KeysOf(E, D) PROVE z \in D
  <2>1. CASE \E x \in DOMAIN E : k = RowKey(E, x) /\ Linked(E, z, x)
    <3>1. PICK x \in DOMAIN E : k = RowKey(E, x) /\ Linked(E, z, x)
      BY <2>1
    <3>2. x \in D
      BY <1>3, <1>4, <3>1
    <3>. QED BY <1>1, <3>1, <3>2
  <2>2. CASE \E t \in AbsentKeys(E, z) : k = Absent(t)
    <3>1. PICK t \in AbsentKeys(E, z) : k = Absent(t)
      BY <2>2
    <3>2. PICK x \in D : k \in RefKeys(E, x)
      BY <1>4, <3>1, RowKeyIsNoAbsent DEF KeysOf
    <3>3. \E u \in AbsentKeys(E, x) : k = Absent(u)
      BY <3>1, <3>2, RefKeysAre, RowKeyIsNoAbsent
    <3>. QED BY <3>3
  <2>. QED BY <2>1, <2>2, RefKeysAre
<1>5. Closed(KeysOf(E, D), Pairs(E))
  <2>1. ASSUME NEW z \in DOMAIN E, NEW k \in RefKeys(E, z)
        PROVE  RowKey(E, z) \in KeysOf(E, D) <=> k \in KeysOf(E, D)
    <3>1. RowKey(E, z) \in KeysOf(E, D) => z \in D
      BY <1>3
    <3>2. k \in KeysOf(E, D) => z \in D
      BY <1>4
    <3>3. z \in D => RowKey(E, z) \in KeysOf(E, D) /\ k \in KeysOf(E, D)
      BY DEF KeysOf
    <3>. QED BY <3>1, <3>2, <3>3
  <2>2. \A p \in Pairs(E) : \E z \in DOMAIN E : \E k \in RefKeys(E, z) : p[1] = RowKey(E, z) /\ p[2] = k
    BY DEF Pairs, PairsOf
  <2>. QED BY <2>1, <2>2 DEF Closed
<1>. QED BY <1>3, <1>5

LEMMA PairsFinite ==
  ASSUME NEW E, IsFiniteSet(DOMAIN E)
  PROVE  IsFiniteSet(Pairs(E))
<1>. DEFINE f == [x \in DOMAIN E |-> RowKey(E, x)]
            g == [x \in DOMAIN E |-> <<E[x].table, E[x].temp, Undefined>>]
            A == {f[x] : x \in DOMAIN E}
            B == {g[x] : x \in DOMAIN E}
<1>1. f \in Surjection(DOMAIN E, A) /\ g \in Surjection(DOMAIN E, B)
  BY DEF Surjection
<1>2. IsFiniteSet(A) /\ IsFiniteSet(B)
  <2>. HIDE DEF A, B, f, g
  <2>. QED BY <1>1, FS_Surjection
<1>3. IsFiniteSet(A \X B)
  BY <1>2, FS_Product
<1>4. Pairs(E) \subseteq A \X B
  <2>1. ASSUME NEW s \in DOMAIN E, NEW k \in RefKeys(E, s) PROVE k \in B
    <3>1. PICK r \in References(E[s]), x \in DOMAIN E : k = <<r[1], r[2], Undefined>> /\ E[x].temp = r[2] /\ E[x].table = r[1]
      BY DEF RefKeys
    <3>2. k = g[x]
      BY <3>1
    <3>. QED BY <3>2
  <2>2. \A s \in DOMAIN E : RowKey(E, s) \in A
    BY DEF f
  <2>. HIDE DEF A, B
  <2>. QED BY <2>1, <2>2 DEF Pairs, PairsOf
<1>. QED BY <1>3, <1>4, FS_Subset

LEMMA BlocksSplit ==
  ASSUME NEW E, IsFiniteSet(DOMAIN E)
  PROVE  Splits(Blocks(E), RowKeys(E), Pairs(E))
<1>1. ASSUME NEW p \in Pairs(E) PROVE p[1] \in RowKeys(E) /\ p[2] \in RowKeys(E)
  <2>1. PICK s \in DOMAIN E : p[1] = RowKey(E, s)
    BY DEF Pairs, PairsOf
  <2>. QED BY <2>1 DEF RowKeys
<1>2. IsFiniteSet(Pairs(E))
  BY PairsFinite
<1>. QED BY <1>1, <1>2, FoldSplits DEF Blocks

\* The union-find of any plain queue splits no component, and holds one that
\* leaves no foreign key absent apart from everything else.
LEMMA LineagesOf ==
  ASSUME NEW E, Plain(E), NEW s \in DOMAIN E
  PROVE  /\ \E L \in Lineages(E) : Component(E, s) \subseteq L
         /\ (\A x \in Component(E, s) : AbsentKeys(E, x) = {}) => Component(E, s) \in Lineages(E)
<1>0. IsFiniteSet(DOMAIN E)
  BY DEF Plain
<1>1. Splits(Blocks(E), RowKeys(E), Pairs(E))
  BY <1>0, BlocksSplit
<1>2. PICK b \in Blocks(E) : RowKey(E, s) \in b
  <2>1. RowKey(E, s) \in UNION Blocks(E)
    BY <1>1 DEF Splits, RowKeys
  <2>. QED BY <2>1
<1>. DEFINE D == Component(E, s)
<1>3. /\ s \in D /\ D \subseteq DOMAIN E /\ Whole(E, D)
      /\ \A C : s \in C /\ Whole(E, C) => D \subseteq C
  BY <1>0, ComponentIsLeast
<1>. HIDE DEF D
<1>4. D \subseteq HoldersOf(E, b)
  <2>1. Closed(b, Pairs(E))
    BY <1>1 DEF Splits
  <2>2. Whole(E, HoldersOf(E, b))
    BY <2>1, HoldersAreWhole
  <2>. QED BY <1>2, <1>3, <2>2 DEF HoldersOf
<1>5. HoldersOf(E, b) \in Lineages(E)
  <2>1. HoldersOf(E, b) # {}
    BY <1>3, <1>4
  <2>. QED BY <2>1 DEF Lineages, HoldersOf
<1>6. ASSUME \A x \in D : AbsentKeys(E, x) = {} PROVE D = HoldersOf(E, b)
  <2>1. Closed(KeysOf(E, D), Pairs(E)) /\ \A x \in DOMAIN E : RowKey(E, x) \in KeysOf(E, D) => x \in D
    BY <1>3, <1>6, KeysOfWhole
  <2>2. KeysOf(E, D) \in SUBSET RowKeys(E)
    <3>1. ASSUME NEW x \in D, NEW k \in RefKeys(E, x) PROVE k \in RowKeys(E)
      <4>1. <<RowKey(E, x), k>> \in Pairs(E)
        BY <1>3 DEF Pairs, PairsOf
      <4>. QED BY <4>1 DEF RowKeys
    <3>. QED BY <1>3, <3>1 DEF KeysOf, RowKeys
  <2>3. b \subseteq KeysOf(E, D)
    <3>1. RowKey(E, s) \in KeysOf(E, D)
      BY <1>3 DEF KeysOf
    <3>2. b \subseteq KeysOf(E, D) \/ b \cap KeysOf(E, D) = {}
      BY <1>1, <2>1, <2>2 DEF Splits
    <3>. QED BY <1>2, <3>1, <3>2
  <2>4. HoldersOf(E, b) \subseteq D
    BY <2>1, <2>3 DEF HoldersOf
  <2>. QED BY <1>4, <2>4
<1>. QED BY <1>4, <1>5, <1>6 DEF D

-----------------------------------------------------------------------------
(* Members are rows.                                                       *)

\* No edge is ever set to hold the absent row.
Named(e)     == Undefined \notin e.members
MembersNamed == \A s \in DOMAIN entries : Named(entries[s])

LEMMA TranslateNamed ==
  ASSUME NEW e, DOMAIN e = EntryFields, NEW map, IsMap(map), Named(e)
  PROVE  Named(Translate(e, map)) /\ DOMAIN Translate(e, map) = EntryFields
<1>. DEFINE members == {Resolve(map, m, EdgeTarget(e)) : m \in e.members}
            fks == [c \in DOMAIN e.fks |-> Resolve(map, e.fks[c], FkColumns[e.table][c])]
            f == Translate(e, map)
<1>1. f = [e EXCEPT !.id = Resolve(map, e.id, e.table), !.fks = fks, !.members = members]
  BY DEF Translate, EntryFields
<1>2. ASSUME NEW m \in e.members PROVE Resolve(map, m, EdgeTarget(e)) # Undefined
  BY ConstantFacts DEF Resolve, IsMap, Named
<1>3. Undefined \notin members
  BY <1>2
<1>. HIDE DEF members, fks, f
<1>4. f.members = members /\ DOMAIN f = EntryFields
  BY <1>1 DEF EntryFields
<1>. QED BY <1>3, <1>4 DEF Named, f

LEMMA RepinnedNamed ==
  ASSUME NEW e, IsEntry(e), NEW revision
  PROVE  Repinned(e, revision).members = e.members
BY DEF Repinned, IsEntry, EntryFields

LEMMA CaptureNames ==
  ASSUME IInv, MembersNamed, NEW e0, DOMAIN e0 = EntryFields, Named(e0), Capture(e0)
  PROVE  MembersNamed'
<1>. DEFINE e == Translate(e0, live)
            T == CoalesceTargets(entries, e)
<1>1. Named(e) /\ DOMAIN e = EntryFields
  <2>1. IsMap(live)
    BY DEF IInv, Types, IsMap
  <2>. QED BY <2>1, TranslateNamed
<1>2. entries' = Enqueue(entries, e, nextSeq)
  BY DEF Capture
<1>. HIDE DEF e
<1>3. CASE T = {}
  <2>1. entries' = Put(entries, nextSeq, Stored(e))
    BY <1>2, <1>3 DEF Enqueue, EnqueueSeq
  <2>2. Named(Stored(e))
    BY <1>1 DEF Stored, Named, EntryFields
  <2>3. /\ DOMAIN entries' = DOMAIN entries \cup {nextSeq} /\ entries'[nextSeq] = Stored(e)
        /\ \A x \in DOMAIN entries \ {nextSeq} : entries'[x] = entries[x]
    BY <2>1 DEF Put
  <2>. QED BY <2>2, <2>3 DEF MembersNamed
<1>4. CASE T # {}
  <2>. DEFINE s == Min(T)
  <2>1. entries' = [entries EXCEPT ![s].value = e.value, ![s].members = e.members]
    BY <1>2, <1>4 DEF Enqueue, EnqueueSeq
  <2>. HIDE DEF s
  <2>2. entries' = [entries EXCEPT ![s] = Onto(e, @)]
    BY <2>1 DEF Onto
  <2>3. ASSUME NEW x \in DOMAIN entries PROVE Named(entries'[x])
    <3>1. entries'[x] = entries[x] \/ entries'[x] = Onto(e, entries[x])
      BY <2>2
    <3>2. DOMAIN entries[x] = EntryFields
      BY DEF IInv, Types, IsEntry
    <3>3. Onto(e, entries[x]).members = e.members
      BY <3>2 DEF Onto, EntryFields
    <3>. QED BY <1>1, <3>1, <3>3 DEF Named, MembersNamed
  <2>4. DOMAIN entries' = DOMAIN entries
    BY <2>2
  <2>. QED BY <2>3, <2>4 DEF MembersNamed
<1>. QED BY <1>3, <1>4

LEMMA MembersStayNamed ==
  ASSUME IInv, MembersNamed, [Next]_vars
  PROVE  MembersNamed'
<1>1. ASSUME \A x \in DOMAIN entries' : x \in DOMAIN entries /\ entries'[x].members = entries[x].members
      PROVE  MembersNamed'
  BY <1>1 DEF MembersNamed, Named
<1>2. CASE CaptureStep
  <2>1. ASSUME NEW row, NEW f, CaptureSet(row, f) PROVE MembersNamed'
    <3>. DEFINE e == [Envelope("set", row[1], row[2]) EXCEPT
                        !.slot = f, !.base = IF row \in DOMAIN seen THEN seen[row] ELSE 0]
    <3>1. Capture(e)
      BY <2>1 DEF CaptureSet
    <3>2. DOMAIN e = EntryFields /\ e.members = {}
      BY DEF Envelope, EntryFields
    <3>. HIDE DEF e
    <3>. QED BY <3>1, <3>2, CaptureNames DEF Named
  <2>2. ASSUME NEW row \in Rows, NEW edge \in DOMAIN Edges[row[1]],
               NEW ms \in SUBSET IdsOf(Edges[row[1]][edge]), CaptureMembers(row, edge, ms)
        PROVE  MembersNamed'
    <3>. DEFINE e == [Envelope("setMembers", row[1], row[2]) EXCEPT !.slot = edge, !.members = ms]
    <3>1. Capture(e)
      BY <2>2 DEF CaptureMembers
    <3>2. DOMAIN e = EntryFields /\ e.members = ms
      BY DEF Envelope, EntryFields
    <3>. HIDE DEF e
    <3>3. ASSUME NEW r \in Rows PROVE r[2] # Undefined
      <4>1. r \in DOMAIN seen => r \in Tables \X (Nat \ {Undefined})
        BY DEF IInv, Known
      <4>2. r \in shown => r[2] < 0
        BY DEF IInv, Known
      <4>. QED BY <4>1, <4>2 DEF Rows, Undefined
    <3>4. Undefined \notin ms
      BY <3>3 DEF IdsOf
    <3>. QED BY <3>1, <3>2, <3>4, CaptureNames DEF Named
  <2>3. ASSUME NEW row, CaptureDelete(row) PROVE MembersNamed'
    <3>. DEFINE e == Envelope("delete", row[1], row[2])
    <3>1. Capture(e)
      BY <2>3 DEF CaptureDelete
    <3>2. DOMAIN e = EntryFields /\ e.members = {}
      BY DEF Envelope, EntryFields
    <3>. HIDE DEF e
    <3>. QED BY <3>1, <3>2, CaptureNames DEF Named
  <2>4. ASSUME NEW t, NEW fks, CaptureInsert(t, fks) PROVE MembersNamed'
    <3>. DEFINE e == [Envelope("insert", t, Undefined) EXCEPT !.fks = fks]
    <3>1. Capture(e)
      BY <2>4 DEF CaptureInsert
    <3>2. DOMAIN e = EntryFields /\ e.members = {}
      BY DEF Envelope, EntryFields
    <3>. HIDE DEF e
    <3>. QED BY <3>1, <3>2, CaptureNames DEF Named
  <2>5. ASSUME NEW t, NEW fks, CaptureTempInsert(t, fks) PROVE MembersNamed'
    <3>. DEFINE e == [Envelope("insert", t, Undefined) EXCEPT !.fks = fks, !.temp = tempCounter']
    <3>1. Capture(e)
      BY <2>5 DEF CaptureTempInsert
    <3>2. DOMAIN e = EntryFields /\ e.members = {}
      BY DEF Envelope, EntryFields
    <3>. HIDE DEF e
    <3>. QED BY <3>1, <3>2, CaptureNames DEF Named
  <2>. QED BY <1>2, <2>1, <2>2, <2>3, <2>4, <2>5 DEF CaptureStep
<1>3. ASSUME NEW s, entries' = Drop(entries, s) PROVE MembersNamed'
  <2>1. DOMAIN entries' = DOMAIN entries \ {s} /\ \A x \in DOMAIN entries \ {s} : entries'[x] = entries[x]
    BY <1>3, DropFields
  <2>. QED BY <1>1, <2>1
<1>4. ASSUME NEW s \in DOMAIN entries, FlushWrite(s) PROVE MembersNamed'
  <2>. DEFINE rest == Drop(entries, s)
  <2>1. entries' = rest \/ \E row, revision : entries' = AdvanceBase(rest, row, s, revision)
    BY <1>4 DEF FlushWrite
  <2>2. CASE entries' = rest
    BY <1>3, <2>2
  <2>3. ASSUME NEW row, NEW revision, entries' = AdvanceBase(rest, row, s, revision) PROVE MembersNamed'
    <3>1. DOMAIN rest = DOMAIN entries \ {s} /\ \A x \in DOMAIN entries \ {s} : rest[x] = entries[x]
      BY DropFields
    <3>. HIDE DEF rest
    <3>2. /\ DOMAIN entries' = DOMAIN rest
          /\ \A x \in DOMAIN rest : entries'[x] = rest[x] \/ entries'[x] = Repinned(rest[x], revision)
      BY <2>3, AdvanceBaseFields
    <3>3. ASSUME NEW x \in DOMAIN rest PROVE x \in DOMAIN entries /\ entries'[x].members = entries[x].members
      <4>1. x \in DOMAIN entries /\ rest[x] = entries[x] /\ IsEntry(entries[x])
        BY <3>1 DEF IInv, Types
      <4>2. Repinned(rest[x], revision).members = entries[x].members
        BY <4>1, RepinnedNamed
      <4>. QED BY <3>2, <4>1, <4>2
    <3>. QED BY <1>1, <3>2, <3>3
  <2>. QED BY <2>1, <2>2, <2>3
<1>5. ASSUME NEW s \in DOMAIN entries, NEW real \in RealIds, FlushInsert(s, real) PROVE MembersNamed'
  <2>. DEFINE map == [t \in {entries[s].temp} |-> [real |-> real, table |-> entries[s].table]]
  <2>1. entries' = AckInsert(entries, s, real)
    BY <1>5 DEF FlushInsert
  <2>. DEFINE Q == AckInsert(entries, s, real)
  <2>2. DOMAIN entries' = DOMAIN entries \ {s}
    BY <2>1, AckInsertFields
  <2>3. CASE entries[s].temp = Undefined
    <3>1. \A x \in DOMAIN entries \ {s} : Q[x] = entries[x]
      BY <2>3, AckInsertFields
    <3>. QED BY <1>1, <2>1, <2>2, <3>1
  <2>4. CASE entries[s].temp # Undefined
    <3>1. ASSUME NEW x \in DOMAIN entries \ {s} PROVE Q[x] = Translate(entries[x], map)
      BY <2>4 DEF AckInsert, Drop, Restrict
    <3>2. IsMap(map)
      <4>1. entries[s].temp < 0 /\ entries[s].table \in Tables
        BY <2>4 DEF IInv, EntriesKnown, EntryKnown, Types, IsEntry
      <4>. QED BY <4>1 DEF IsMap
    <3>. HIDE DEF map
    <3>3. ASSUME NEW x \in DOMAIN entries \ {s} PROVE Named(entries'[x])
      <4>1. DOMAIN entries[x] = EntryFields /\ Named(entries[x])
        BY DEF IInv, Types, IsEntry, MembersNamed
      <4>2. Named(Translate(entries[x], map))
        BY <3>2, <4>1, TranslateNamed
      <4>. QED BY <2>1, <3>1, <4>2
    <3>. QED BY <2>2, <3>3 DEF MembersNamed
  <2>. QED BY <2>3, <2>4
<1>6. CASE FlushStep
  <2>1. PICK s \in DOMAIN entries : \/ FlushWrite(s)
                                    \/ \E real \in RealIds : FlushInsert(s, real)
                                    \/ FlushConflict(s)
                                    \/ FlushReject(s)
    BY <1>6 DEF FlushStep
  <2>2. CASE FlushConflict(s)
    BY <1>1, <2>2 DEF FlushConflict, queue
  <2>3. CASE FlushReject(s)
    BY <1>3, <2>3 DEF FlushReject
  <2>. QED BY <1>4, <1>5, <2>1, <2>2, <2>3
<1>7. CASE ResolveKeepMine
  <2>. DEFINE found == FindSet(entries, RowOf(entries[HeadConflict(entries, seen)]),
                               entries[HeadConflict(entries, seen)].slot)
              revision == seen[RowOf(entries[HeadConflict(entries, seen)])]
              s == Min(found)
  <2>1. entries' = entries \/ entries' = [entries EXCEPT ![s].base = revision]
    BY <1>7 DEF ResolveKeepMine, KeepMine
  <2>. HIDE DEF s, revision
  <2>2. entries' = entries \/ entries' = [entries EXCEPT ![s] = Repinned(@, revision)]
    BY <2>1 DEF Repinned
  <2>3. DOMAIN entries' = DOMAIN entries
    BY <2>2
  <2>4. ASSUME NEW x \in DOMAIN entries PROVE entries'[x].members = entries[x].members
    <3>1. entries'[x] = entries[x] \/ entries'[x] = Repinned(entries[x], revision)
      BY <2>2
    <3>2. IsEntry(entries[x])
      BY DEF IInv, Types
    <3>. QED BY <3>1, <3>2, RepinnedNamed
  <2>. QED BY <1>1, <2>3, <2>4
<1>8. CASE ResolveTakeTheirs
  <2>1. entries' = entries \/ \E s : entries' = Drop(entries, s)
    BY <1>8 DEF ResolveTakeTheirs, TakeTheirs
  <2>. QED BY <1>1, <1>3, <2>1
<1>9. ASSUME entries' = entries PROVE MembersNamed'
  BY <1>1, <1>9
<1>10. ASSUME NEW row, ForeignMove(row) \/ Learn(row) \/ Heal(row) PROVE MembersNamed'
  BY <1>9, <1>10 DEF ForeignMove, Learn, Heal, queue
<1>11. CASE Restart
  BY <1>9, <1>11 DEF Restart
<1>12. CASE UNCHANGED vars
  BY <1>9, <1>12 DEF vars
<1>13. CASE Reconcile \/ FlushOffline
  BY <1>9, <1>13 DEF Reconcile, FlushOffline, queue
<1>. QED BY <1>2, <1>6, <1>7, <1>8, <1>10, <1>11, <1>12, <1>13 DEF Next

LEMMA MembersAlwaysNamed == Spec => []MembersNamed
<1>1. Init => MembersNamed
  BY DEF Init, MembersNamed
<1>2. IInv /\ MembersNamed /\ [Next]_vars => MembersNamed'
  BY MembersStayNamed
<1>. QED BY <1>1, <1>2, Invariance, PTL DEF Spec

\* LineagesAreComponents: whatever tables, foreign keys and edges there are and
\* however many writes wait, no lineage of the union-find splits a connected
\* component of the queue, so that parking a conflicted row holds back what
\* depends on it; and it holds back nothing else, unless an entry of the
\* component leaves a foreign key absent (queue.js:204-242).
THEOREM LineagesAreTheComponents == Spec => []LineagesAreComponents
<1>1. IInv /\ MembersNamed => LineagesAreComponents
  <2>. SUFFICES ASSUME IInv, MembersNamed PROVE Plain(entries)
    BY LineagesOf DEF LineagesAreComponents
  <2>1. IsFiniteSet(DOMAIN entries)
    <3>1. nextSeq \in Nat
      BY ConstantFacts DEF IInv, Types
    <3>2. DOMAIN entries \in SUBSET Nat /\ \A s \in DOMAIN entries : s <= nextSeq
      BY <3>1 DEF IInv, Order
    <3>. QED BY <3>1, <3>2, FS_BoundedSetOfNaturals
  <2>2. ASSUME NEW s \in DOMAIN entries PROVE PlainEntry(s, entries[s])
    <3>. DEFINE e == entries[s]
    <3>1. s # Undefined /\ EntryKnown(e) /\ Named(e)
      BY DEF IInv, Order, EntriesKnown, MembersNamed, Undefined
    <3>. HIDE DEF e
    <3>2. ASSUME e.type # "insert" PROVE e.id # Undefined /\ e.temp = Undefined
      <4>1. RowOf(e) \in issued => e.id # Undefined
        BY DEF IInv, Known, RowOf
      <4>. QED BY <3>1, <3>2, <4>1 DEF EntryKnown, Undefined
    <3>. QED BY <3>1, <3>2 DEF PlainEntry, EntryKnown, Named, e
  <2>. QED BY <2>1, <2>2 DEF Plain
<1>. QED BY <1>1, Invariance, MembersAlwaysNamed, PTL

=============================================================================
