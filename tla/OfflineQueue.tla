----------------------------- MODULE OfflineQueue -----------------------------
(***************************************************************************)
(* The pure logic of the offline queue (runtime/queue.js) as operators on   *)
(* values.  A queue is a function from sequence numbers to entries: the    *)
(* code keeps an array sorted by seq and finds entries by seq, which is     *)
(* the same thing.  An entry is one record holding the captured envelope    *)
(* together with the policy (conflict) and the temp id it was queued with.  *)
(*                                                                         *)
(* Abstraction.  Row ids are integers: positive for rows the server made,   *)
(* negative for temp ids, Undefined for a slot the envelope does not have   *)
(* (JavaScript's undefined).  Field and edge names share the slot "slot".   *)
(***************************************************************************)
EXTENDS Integers, FiniteSets, FiniteSetsExt, Functions

CONSTANTS FkColumns,  \* [table -> [column -> referenced table]]
          Edges       \* [table -> [edge -> target table]]

Undefined == 0    \* no id, no temp id
Unpinned  == -1   \* no baseRevision

RowOf(e) == <<e.table, e.id>>

-----------------------------------------------------------------------------
(* Translation: one recognizer, driven by declared bindings, never by sign. *)

\* map is a function from temp ids to the row that replaced them.
Resolve(map, v, table) ==
  IF v \in DOMAIN map /\ map[v].table = table THEN map[v].real ELSE v

EdgeTarget(e) ==
  IF e.slot \in DOMAIN Edges[e.table] THEN Edges[e.table][e.slot] ELSE "none"

Translate(e, map) ==
  [e EXCEPT !.id = Resolve(map, @, e.table),
            !.fks = [c \in DOMAIN @ |-> Resolve(map, e.fks[c], FkColumns[e.table][c])],
            !.members = {Resolve(map, m, EdgeTarget(e)) : m \in @}]

\* Every (value, table) pair the recognizer looks at in an entry.
References(e) ==
  (IF e.id = Undefined THEN {} ELSE {RowOf(e)})
    \cup {<<FkColumns[e.table][c], e.fks[c]>> : c \in DOMAIN e.fks}
    \cup {<<EdgeTarget(e), m>> : m \in e.members}

-----------------------------------------------------------------------------
(* Enqueueing.                                                             *)

Put(E, s, e) == [x \in DOMAIN E \cup {s} |-> IF x = s THEN e ELSE E[x]]
Drop(E, s)   == Restrict(E, DOMAIN E \ {s})

Refused(e) == e.conflict = "offline-readonly"

\* Entries a new set or setMembers lands on; insert and delete have none.
CoalesceTargets(E, e) ==
  {s \in DOMAIN E : /\ e.type \in {"set", "setMembers"}
                    /\ E[s].type = e.type
                    /\ RowOf(E[s]) = RowOf(e)
                    /\ E[s].slot = e.slot}

\* What a NEW entry stores: only a detect set keeps its baseRevision.
Stored(e) ==
  IF e.type = "set" /\ e.conflict = "detect" THEN e ELSE [e EXCEPT !.base = Unpinned]

\* The seq an enqueue of the (already translated) envelope e ends up under.
EnqueueSeq(E, e, fresh) ==
  IF CoalesceTargets(E, e) = {} THEN fresh ELSE Min(CoalesceTargets(E, e))

\* Mutants of Enqueue: the newest baseRevision is pinned; nothing coalesces.
EnqueueRepinned(E, e, fresh) ==
  LET s == EnqueueSeq(E, e, fresh)
  IN  IF CoalesceTargets(E, e) = {}
      THEN Put(E, s, Stored(e))
      ELSE [E EXCEPT ![s].value = e.value, ![s].members = e.members, ![s].base = e.base]
EnqueueAppended(E, e, fresh) == Put(E, fresh, Stored(e))

\* Coalescing replaces the value or the members and nothing else: the first
\* baseRevision stays pinned and the entry keeps its place in the order.
Enqueue(E, e, fresh) ==
  LET s == EnqueueSeq(E, e, fresh)
  IN  IF CoalesceTargets(E, e) = {}
      THEN Put(E, s, Stored(e))
      ELSE [E EXCEPT ![s].value = e.value, ![s].members = e.members]

-----------------------------------------------------------------------------
(* Leaving the queue.                                                      *)

\* Mutant of AckInsert: the rest of the queue is not rewritten.
AckInsertOnly(E, s, real) == Drop(E, s)

\* The insert leaves; its temp id is rewritten in everything still queued.
AckInsert(E, s, real) ==
  LET rest == Drop(E, s)
      map  == [t \in {E[s].temp} |-> [real |-> real, table |-> E[s].table]]
  IN  IF E[s].temp = Undefined THEN rest
      ELSE [x \in DOMAIN rest |-> Translate(rest[x], map)]

-----------------------------------------------------------------------------
(* Lineages: the union-find over row keys, as the partition it computes.    *)

RowKey(E, s) ==
  IF E[s].type = "insert" /\ E[s].temp = Undefined
  THEN <<E[s].table, Undefined, s>>
  ELSE <<E[s].table, IF E[s].type = "insert" THEN E[s].temp ELSE E[s].id, Undefined>>

\* Mutant of RefKeys: members are not looked at.
RefKeysNoMembers(E, s) ==
  {<<r[1], r[2], Undefined>> :
     r \in {q \in References([E[s] EXCEPT !.members = {}]) :
              \E x \in DOMAIN E : E[x].temp = q[2] /\ E[x].table = q[1]}}

\* Temp references: declared slots whose value is the tempId of an entry on
\* the referenced table.  An absent foreign key is undefined, and so is the
\* tempId of every entry that is not a temp insert: those match as well.
RefKeys(E, s) ==
  {<<r[1], r[2], Undefined>> :
     r \in {q \in References(E[s]) :
              \E x \in DOMAIN E : E[x].temp = q[2] /\ E[x].table = q[1]}}

Merge(pair, P) ==
  LET hit == {b \in P : pair[1] \in b \/ pair[2] \in b}
  IN  (P \ hit) \cup {UNION hit}

\* The pairs of row keys that are united, and the blocks that leaves.
PairsOf(E, s) == {<<RowKey(E, s), k>> : k \in RefKeys(E, s)}
Pairs(E)      == UNION {PairsOf(E, s) : s \in DOMAIN E}
RowKeys(E)    == {RowKey(E, s) : s \in DOMAIN E} \cup {p[2] : p \in Pairs(E)}

Blocks(E) == FoldSet(Merge, {{k} : k \in RowKeys(E)}, Pairs(E))

Lineages(E) == {{s \in DOMAIN E : RowKey(E, s) \in b} : b \in Blocks(E)} \ {{}}

\* revs: the revisions map of the page, a function on the rows it knows.
EntryConflicts(e, revs) ==
  /\ e.type = "set" /\ e.conflict = "detect" /\ e.base # Unpinned
  /\ RowOf(e) \in DOMAIN revs /\ revs[RowOf(e)] # e.base

ConflictedSeqs(E, revs) == {s \in DOMAIN E : EntryConflicts(E[s], revs)}

\* reconcile: clean lineages flush, a lineage holding one conflict parks.
CleanLineages(E, revs) ==
  {L \in Lineages(E) : L \cap ConflictedSeqs(E, revs) = {}}

\* An own accepted write at seq "after" carries later pins of the row along.
AdvanceBase(E, row, after, revision) ==
  [s \in DOMAIN E |->
     IF s > after /\ E[s].type = "set" /\ RowOf(E[s]) = row /\ E[s].base # Unpinned
     THEN [E[s] EXCEPT !.base = revision] ELSE E[s]]

-----------------------------------------------------------------------------
(* Resolution, bound to the identity <<row, field>> the prompt showed.      *)

FindSet(E, row, field) ==
  {s \in DOMAIN E : E[s].type = "set" /\ RowOf(E[s]) = row /\ E[s].slot = field}

KeepMine(E, row, field, revision) ==
  LET found == FindSet(E, row, field)
  IN  IF found = {} THEN E ELSE [E EXCEPT ![Min(found)].base = revision]

TakeTheirs(E, row, field) ==
  LET found == FindSet(E, row, field)
  IN  IF found = {} THEN E ELSE Drop(E, Min(found))

\* deriveConflict: the earliest conflicted entry is the one prompted for.
HeadConflict(E, revs) ==
  IF ConflictedSeqs(E, revs) = {} THEN Undefined ELSE Min(ConflictedSeqs(E, revs))

=============================================================================
