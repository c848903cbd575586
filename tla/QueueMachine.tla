----------------------------- MODULE QueueMachine -----------------------------
(***************************************************************************)
(* One offline queue driven the way its harness and its flush driver drive  *)
(* it: edits are captured, entries of clean lineages are flushed in order   *)
(* and answered by the server, conflicts are resolved, the page restarts.   *)
(* The server is reduced to what the queue can tell apart: which rows       *)
(* exist and at which revision.  One step is one call on the queue together *)
(* with the bookkeeping its caller does around it; the interleavings inside *)
(* those calls are the subject of module SyncTabs.                          *)
(***************************************************************************)
EXTENDS OfflineQueue

CONSTANTS Policy,      \* [table -> "detect" | "lww" | "offline-readonly"]
          Fields,      \* [table -> set of bound fields]
          InitialRows, \* <<table, id>> of the rows the server starts with
          RealIds,     \* ids the server may assign
          MaxSeq,      \* bound on sequence numbers handed out
          MaxTemps,    \* bound on temp ids handed out
          MaxRev       \* bound on revisions

Tables == DOMAIN Policy

ASSUME QueueConstants ==
  /\ \A t \in Tables : Policy[t] \in {"detect", "lww", "offline-readonly"}
  /\ DOMAIN FkColumns = Tables /\ DOMAIN Edges = Tables /\ DOMAIN Fields = Tables
  /\ "none" \notin Tables
  /\ InitialRows \subseteq Tables \X (Nat \ {Undefined})
  /\ RealIds \subseteq Nat \ {Undefined}
  /\ MaxSeq \in Nat \ {0} /\ MaxTemps \in Nat /\ MaxRev \in Nat

VARIABLES entries,      \* the queue: [seq -> entry]
          dead,         \* the dead letters: [seq -> entry]
          nextSeq, tempCounter,
          live,         \* temp id -> [real, table], the heal-window mapping
          shown,        \* <<table, temp id>> of the optimistic rows on screen
          revs,         \* the server: [row -> revision], rows that exist
          issued,       \* the rows that ever did: an identity column gives an
                        \* id out once
          seen,         \* the page's revisions map
          flushing,     \* what the resync under way still has to send: the
                        \* lineages it found clean, less the entries answered
          foreign,      \* history: queued seqs a foreign write overtook, and
                        \* whose pin has not been moved past it since
          blind         \* history: queued seqs typed on an optimistic row, hence
                        \* pinned to 0, when the page knew a newer revision of it

queue == <<entries, dead, nextSeq, tempCounter, live>>
vars  == <<entries, dead, nextSeq, tempCounter, live, shown, revs, issued, seen,
           flushing, foreign, blind>>

Init ==
  /\ entries = <<>> /\ dead = <<>> /\ live = <<>>
  /\ nextSeq = 1 /\ tempCounter = 0 /\ shown = {}
  /\ revs = [r \in InitialRows |-> 0] /\ issued = InitialRows
  /\ seen = revs
  /\ flushing = {} /\ foreign = {} /\ blind = {}

-----------------------------------------------------------------------------
(* Capture.                                                                *)

\* Rows the user can edit or refer to: those the page knows from the server
\* and the optimistic ones it still shows.
Rows      == DOMAIN seen \cup shown
IdsOf(t)  == {r[2] : r \in {q \in Rows : q[1] = t}}

Envelope(type, table, id) ==
  [type |-> type, table |-> table, id |-> id, slot |-> "none", base |-> Unpinned,
   value |-> Undefined, fks |-> <<>>, members |-> {},
   conflict |-> Policy[table], temp |-> Undefined]

\* Pinned to a revision the server has already left: born conflicted.
Overtaken(e) == e.base # Unpinned /\ RowOf(e) \in DOMAIN revs /\ revs[RowOf(e)] # e.base

Capture(envelope) ==
  LET e == Translate(envelope, live)
      s == EnqueueSeq(entries, e, nextSeq)
      older == EntryConflicts(Stored(e), seen)
  IN  /\ ~Refused(e) /\ nextSeq < MaxSeq
      /\ entries' = Enqueue(entries, e, nextSeq)
      /\ nextSeq' = IF s = nextSeq THEN nextSeq + 1 ELSE nextSeq
      /\ blind' = IF s = nextSeq /\ older THEN blind \cup {s} ELSE blind
      /\ foreign' = IF s = nextSeq /\ ~older /\ Overtaken(Stored(e))
                    THEN foreign \cup {s} ELSE foreign
      /\ UNCHANGED <<dead, live, revs, issued, seen, flushing>>

\* A detect set carries the revision the page has for the row it was typed on,
\* or 0: that of a row just inserted, and what an optimistic row has for good,
\* also once its real id has moved on.  Other sets lose it when stored.
CaptureSet(row, f) ==
  /\ row[1] \in Tables /\ f \in Fields[row[1]]
  /\ Capture([Envelope("set", row[1], row[2]) EXCEPT
                !.slot = f, !.base = IF row \in DOMAIN seen THEN seen[row] ELSE 0])
  /\ UNCHANGED <<tempCounter, shown>>

CaptureMembers(row, edge, ms) ==
  /\ Capture([Envelope("setMembers", row[1], row[2]) EXCEPT !.slot = edge, !.members = ms])
  /\ UNCHANGED <<tempCounter, shown>>

CaptureDelete(row) ==
  /\ Capture(Envelope("delete", row[1], row[2]))
  /\ UNCHANGED <<tempCounter, shown>>

CaptureInsert(t, fks) ==
  /\ Capture([Envelope("insert", t, Undefined) EXCEPT !.fks = fks])
  /\ UNCHANGED <<tempCounter, shown>>

\* An optimistic row: a temp id is allocated first and shown on screen.
CaptureTempInsert(t, fks) ==
  /\ -tempCounter < MaxTemps
  /\ tempCounter' = tempCounter - 1
  /\ Capture([Envelope("insert", t, Undefined) EXCEPT !.fks = fks, !.temp = tempCounter'])
  /\ shown' = shown \cup {<<t, tempCounter'>>}

-----------------------------------------------------------------------------
(* Flush.  A resync decides once which lineages are clean and sends those,  *)
(* an entry at a time; what is captured meanwhile waits for the next one.   *)
(* The pull before it is Learn, row by row.                                 *)

Reconcile ==
  /\ flushing = {}
  /\ flushing' = CleanLineages(entries, seen)
  /\ UNCHANGED <<queue, shown, revs, issued, seen, foreign, blind>>

\* Each lineage is sent in order; which one is next is left open.
Flushable(s) == \E L \in flushing : s = Min(L)

Answered(s) == {L \ {s} : L \in flushing} \ {{}}

RefsExist(S) == \A r \in S : r[2] = Undefined \/ r \in DOMAIN revs

\* The answer the code of the Wire server gives (a set: a trigger or a
\* constraint of the application may refuse anything but a delete).
Answers(e) ==
  IF e.type = "delete" THEN {"ok"}
  ELSE IF e.type = "set" /\ e.conflict = "detect" /\ e.base # Unpinned
            /\ RowOf(e) \in DOMAIN revs /\ e.base # revs[RowOf(e)] THEN {"conflict"}
  ELSE IF ~RefsExist(References(e)) \/ (e.type = "set" /\ e.conflict = "detect" /\ e.base = Unpinned)
       THEN {"reject"}
  ELSE {"ok", "reject"}

Later(s) == {x \in DOMAIN entries : x > s /\ RowOf(entries[x]) = RowOf(entries[s])}

\* 2xx on a set, setMembers or delete: dequeue, then carry later pins along, to
\* the revision the page has for the row.  Only a detect set's answer brings
\* one: behind any other entry they are carried to what the page has learned,
\* past foreign writes too.
FlushWrite(s) ==
  LET e    == entries[s]
      rest == Drop(entries, s)
      bump == e.type = "set" /\ e.conflict = "detect"
      carried == IF bump \/ RowOf(e) \in DOMAIN seen THEN Later(s) ELSE {}
  IN  /\ Flushable(s) /\ e.type # "insert" /\ "ok" \in Answers(e)
      /\ bump => revs[RowOf(e)] < MaxRev
      /\ revs' = CASE bump -> [revs EXCEPT ![RowOf(e)] = @ + 1]
                   [] e.type = "delete" -> Restrict(revs, DOMAIN revs \ {RowOf(e)})
                   [] OTHER -> revs
      /\ seen' = IF bump THEN Put(seen, RowOf(e), revs'[RowOf(e)]) ELSE seen
      /\ entries' = IF RowOf(e) \in DOMAIN seen'
                    THEN AdvanceBase(rest, RowOf(e), s, seen'[RowOf(e)]) ELSE rest
      /\ foreign' = IF bump THEN foreign \ {s}
                    ELSE (foreign \ ({s} \cup carried))
                           \cup {x \in carried : Overtaken(entries'[x])}
      /\ blind' = blind \ ({s} \cup carried)
      /\ flushing' = Answered(s)
      /\ UNCHANGED <<dead, nextSeq, tempCounter, live, shown, issued>>

\* 2xx on an insert: the queue is rewritten and the mapping goes live.
FlushInsert(s, real) ==
  LET e == entries[s]
  IN  /\ Flushable(s) /\ e.type = "insert" /\ "ok" \in Answers(e)
      /\ <<e.table, real>> \notin issued
      /\ issued' = issued \cup {<<e.table, real>>}
      /\ revs' = Put(revs, <<e.table, real>>, 0)
      /\ entries' = AckInsert(entries, s, real)
      /\ live' = IF e.temp = Undefined THEN live
                 ELSE Put(live, e.temp, [real |-> real, table |-> e.table])
      /\ flushing' = Answered(s)
      /\ UNCHANGED <<dead, nextSeq, tempCounter, shown, seen, foreign, blind>>

\* 409: the page learns the current revision, and the rest of the lineage
\* waits with the entry.
FlushConflict(s) ==
  /\ Flushable(s) /\ "conflict" \in Answers(entries[s])
  /\ seen' = Put(seen, RowOf(entries[s]), revs[RowOf(entries[s])])
  /\ flushing' = {L \in flushing : s \notin L}
  /\ UNCHANGED <<queue, shown, revs, issued, foreign, blind>>

\* A terminal 4xx: moved to the dead letters, never deleted.
FlushReject(s) ==
  /\ Flushable(s) /\ "reject" \in Answers(entries[s])
  /\ entries' = Drop(entries, s)
  /\ dead' = Put(dead, s, entries[s])
  /\ foreign' = foreign \ {s} /\ blind' = blind \ {s}
  /\ flushing' = Answered(s)
  /\ UNCHANGED <<nextSeq, tempCounter, live, shown, revs, issued, seen>>

\* The network fails: the resync ends where it is.
FlushOffline ==
  /\ flushing # {} /\ flushing' = {}
  /\ UNCHANGED <<queue, shown, revs, issued, seen, foreign, blind>>

-----------------------------------------------------------------------------
(* Resolution of the prompted conflict, under the lock a resync holds.      *)

Resolved(head) ==
  {Min(FindSet(entries, RowOf(entries[head]), entries[head].slot))}

ResolveKeepMine ==
  LET head == HeadConflict(entries, seen)
  IN  /\ flushing = {} /\ head # Undefined
      /\ entries' = KeepMine(entries, RowOf(entries[head]), entries[head].slot,
                             seen[RowOf(entries[head])])
      /\ foreign' = IF Overtaken(entries'[head]) THEN foreign \cup Resolved(head)
                    ELSE foreign \ Resolved(head)
      /\ blind' = blind \ Resolved(head)
      /\ UNCHANGED <<dead, nextSeq, tempCounter, live, shown, revs, issued, seen, flushing>>

ResolveTakeTheirs ==
  LET head == HeadConflict(entries, seen)
  IN  /\ flushing = {} /\ head # Undefined
      /\ entries' = TakeTheirs(entries, RowOf(entries[head]), entries[head].slot)
      /\ foreign' = foreign \ Resolved(head) /\ blind' = blind \ Resolved(head)
      /\ UNCHANGED <<dead, nextSeq, tempCounter, live, shown, revs, issued, seen, flushing>>

-----------------------------------------------------------------------------
(* The rest of the world.                                                  *)

\* Somebody else's accepted write moves a row.
ForeignMove(row) ==
  /\ row \in DOMAIN revs /\ revs[row] < MaxRev
  /\ revs' = [revs EXCEPT ![row] = @ + 1]
  /\ foreign' = foreign \cup {s \in DOMAIN entries : entries[s].type = "set"
                                /\ RowOf(entries[s]) = row /\ entries[s].base # Unpinned}
  /\ UNCHANGED <<queue, shown, issued, seen, flushing, blind>>

\* A pull, a refetch or a broadcast: the page learns a row's revision.
Learn(row) ==
  /\ row \in DOMAIN revs
  /\ (row \in DOMAIN seen => seen[row] # revs[row])
  /\ seen' = Put(seen, row, revs[row])
  /\ UNCHANGED <<queue, shown, revs, issued, flushing, foreign, blind>>

\* The refetch that replaces the optimistic row ends its mapping with it.
Heal(row) ==
  /\ row \in shown
  /\ \A s \in DOMAIN entries : entries[s].temp # row[2]
  /\ shown' = shown \ {row}
  /\ live' = Restrict(live, DOMAIN live \ {row[2]})
  /\ UNCHANGED <<entries, dead, nextSeq, tempCounter, revs, issued, seen, flushing,
                 foreign, blind>>

\* Mutant of Restart: the counter is clamped to the queued entries only.
RestartForgetful ==
  /\ nextSeq' = 1 + Max({0} \cup DOMAIN entries)
  /\ live' = <<>> /\ shown' = {} /\ seen' = revs /\ flushing' = {}
  /\ UNCHANGED <<entries, dead, tempCounter, revs, issued, foreign, blind>>

\* Page reload: createQueue restores the snapshot, the mapping is not in it.
Restart ==
  /\ live' = <<>> /\ shown' = {} /\ seen' = revs /\ flushing' = {}
  /\ UNCHANGED <<entries, dead, nextSeq, tempCounter, revs, issued, foreign, blind>>

FkValues(t) == {f \in [DOMAIN FkColumns[t] -> {Undefined} \cup UNION {IdsOf(u) : u \in Tables}] :
                  \A c \in DOMAIN f : f[c] \in {Undefined} \cup IdsOf(FkColumns[t][c])}

CaptureStep ==
  \/ \E row \in Rows : \E f \in Fields[row[1]] : CaptureSet(row, f)
  \/ \E row \in Rows : \E edge \in DOMAIN Edges[row[1]] :
       \E ms \in SUBSET IdsOf(Edges[row[1]][edge]) : CaptureMembers(row, edge, ms)
  \/ \E row \in Rows : CaptureDelete(row)
  \/ \E t \in Tables : \E fks \in FkValues(t) : CaptureInsert(t, fks)
  \/ \E t \in Tables : \E fks \in FkValues(t) : CaptureTempInsert(t, fks)

FlushStep ==
  \E s \in DOMAIN entries : \/ FlushWrite(s)
                            \/ \E real \in RealIds : FlushInsert(s, real)
                            \/ FlushConflict(s)
                            \/ FlushReject(s)

Next ==
  \/ CaptureStep
  \/ Reconcile
  \/ FlushStep
  \/ FlushOffline
  \/ ResolveKeepMine
  \/ ResolveTakeTheirs
  \/ \E row \in DOMAIN revs : ForeignMove(row) \/ Learn(row)
  \/ \E row \in shown : Heal(row)
  \/ Restart

Spec == Init /\ [][Next]_vars

-----------------------------------------------------------------------------
(* Properties.                                                             *)

Slots == {"none"} \cup UNION {Fields[t] \cup DOMAIN Edges[t] : t \in Tables}

EntryFields == {"type", "table", "id", "slot", "base", "value", "fks", "members",
                "conflict", "temp"}

IsEntry(e) ==
  /\ DOMAIN e = EntryFields
  /\ e.type \in {"set", "setMembers", "insert", "delete"} /\ e.table \in Tables
  /\ e.slot \in Slots /\ e.conflict \in {"detect", "lww"}
  /\ e.id \in Int /\ e.base \in Int /\ e.value \in Int /\ e.temp \in Int
  /\ e.members \subseteq Int
  /\ DOMAIN e.fks \subseteq DOMAIN FkColumns[e.table] /\ \A c \in DOMAIN e.fks : e.fks[c] \in Int

\* Types of all variables.
TypeOK ==
  /\ \A Q \in {entries, dead} : DOMAIN Q \subseteq 1..MaxSeq /\ \A s \in DOMAIN Q : IsEntry(Q[s])
  /\ nextSeq \in 1..MaxSeq /\ -tempCounter \in 0..MaxTemps
  /\ \A t \in DOMAIN live : t < 0 /\ live[t] \in [real : RealIds, table : Tables]
  /\ \A M \in {revs, seen} : \A r \in DOMAIN M : r \in Tables \X Int /\ M[r] \in 0..MaxRev
  /\ shown \subseteq Tables \X Int
  /\ foreign \cup blind \cup UNION flushing \subseteq DOMAIN entries

\* A sequence number names one captured write for ever: no capture, flush,
\* resolution or page restart gives a new entry a seq handed out before, the
\* queue and the dead letters never share one, and a dead letter stays as it
\* was put away.  The server's idempotency key is built on it (queue.js:17-29).
SeqDiscipline ==
  [][/\ nextSeq' >= nextSeq
     /\ \A s \in DOMAIN entries' \ DOMAIN entries : s \in nextSeq..(nextSeq' - 1)
     /\ DOMAIN entries' \cap DOMAIN dead' = {}
     /\ \A s \in DOMAIN dead : s \in DOMAIN dead' /\ dead'[s] = dead[s]]_vars

\* The state is well typed, with at most one queued set per table:id:field and
\* one setMembers per edge, also after temp ids have been rewritten: otherwise
\* "first baseRevision stays pinned" and the check-then-act verbs (findSet)
\* would be ambiguous.
CoalesceUnique ==
  TypeOK /\ \A s, x \in DOMAIN entries :
    (x # s) => x \notin CoalesceTargets(entries, entries[s])

\* Only a FOREIGN move is a conflict, and every foreign move is one: a queued
\* pinned set mismatches the server's revision exactly when somebody else's
\* write overtook it and its pin has not been moved past that write since, by
\* keep-mine or (see FlushWrite) by the answer to a membership entry.  Holds
\* across coalescing (first pin stays), own acks (later pins advance) and the
\* row an insert leaves behind (pin 0).  Excepted: what was typed on an
\* optimistic row when the page already had a newer revision of the real one,
\* if only from its own flush; that is pinned to 0 and prompts all the same.
ConflictIffForeign ==
  \A s \in DOMAIN entries \ blind :
    LET e == entries[s]
    IN  (e.type = "set" /\ e.base # Unpinned /\ RowOf(e) \in DOMAIN revs)
          => (s \in foreign <=> e.base # revs[RowOf(e)])

TempInsertIn(Q, r) == {x \in DOMAIN Q : Q[x].temp = r[2] /\ Q[x].table = r[1]}
TempRefs(e)        == {r \in References(e) : r[2] < 0}

\* Whatever the queue holds about an optimistic row is behind that row's own
\* insert, which is still queued or was refused: no entry ever waits with a
\* temp id that nothing will rewrite, in the heal window either.  Only a
\* setMembers may stand before the insert, since coalescing keeps its place.
NoOrphans ==
  \A s \in DOMAIN entries : \A r \in TempRefs(entries[s]) :
    \E x \in TempInsertIn(entries, r) \cup TempInsertIn(dead, r) :
      x < s \/ entries[s].type = "setMembers"

\* The two ways entries belong together: same row; s refers to the temp row
\* that x inserts (docs/apskel-design.md:2742-2746).
Linked(E, s, x) ==
  \/ RowKey(E, s) = RowKey(E, x)
  \/ E[x].temp # Undefined /\ <<E[x].table, E[x].temp>> \in References(E[s])

\* Reference definition of the lineage of s: what n links in either
\* direction reach from it, for n up to the size of the queue.
Near(E, S) == S \cup {y \in DOMAIN E : \E x \in S : Linked(E, x, y) \/ Linked(E, y, x)}

Component(E, s) ==
  LET reach[n \in 0..Cardinality(DOMAIN E)] == IF n = 0 THEN {s} ELSE Near(E, reach[n - 1])
  IN  reach[Cardinality(DOMAIN E)]

\* Tables an entry leaves a foreign key to absent while an entry of that table
\* has no temp id either: undefined matches undefined (queue.js:208), and any
\* two entries that share such a table end up in one lineage.
AbsentKeys(E, s) ==
  {FkColumns[E[s].table][c] : c \in {c \in DOMAIN E[s].fks : E[s].fks[c] = Undefined}}
    \cap {E[x].table : x \in {x \in DOMAIN E : E[x].temp = Undefined}}

\* What the docs promise: a lineage is a connected component of the queue.
\* Not an invariant: see AbsentKeys.
LineagesAsDocumented ==
  Lineages(entries) = {Component(entries, s) : s \in DOMAIN entries}

\* The union-find (queue.js:218-242) never splits a connected component, so
\* parking a conflicted row holds back everything that depends on it, through
\* any number of temp references; and it holds back nothing else, unless an
\* entry of the component leaves a foreign key absent.
LineagesAreComponents ==
  \A s \in DOMAIN entries :
    LET D == Component(entries, s)
    IN  /\ \E L \in Lineages(entries) : D \subseteq L
        /\ D \in Lineages(entries) \/ \E x \in D : AbsentKeys(entries, x) # {}

=============================================================================
