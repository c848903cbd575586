--------------------------- MODULE PageStateProofs ---------------------------
(***************************************************************************)
(* Proofs about PageState: what a page at rest shows, what a settled        *)
(* cascade hands to the Wire, for any fields, watchers, bodies and routes,  *)
(* and what the history tells, for routes that tell their states.           *)
(*                                                                         *)
(* A cascade keeps the rules between its store, its queue and its effects   *)
(* that Kept lists: no view's or sender's news is lost, because whoever is  *)
(* not up to date has an entry waiting, and the entry holds the last value. *)
(* Kept holds write by write, so the fold of a body's writes keeps it too.  *)
(* So does what UrlInv says: whenever a field that routes assign changed,   *)
(* the outward watcher waits, and it fires once.                            *)
(***************************************************************************)
EXTENDS PageState, CommonLemmas

Entries == [watcher : Watchers,
            change : [path : Fields, value : Values, oldValue : Values, origin : Origins]]
States == [store : [Fields -> Values], pending : Seq(Entries), local : SUBSET Fields]

Waiting(queue, w) == \E i \in DOMAIN queue : queue[i].watcher = w

\* A queue's entries: each is about a field its watcher watches; a view's and a
\* sender's hold the field's value; a sender's is about a local change.
Timely(st) ==
  \A i \in DOMAIN st.pending :
    LET w == st.pending[i].watcher
        c == st.pending[i].change
    IN  /\ c.path \in FieldsOf[w]
        /\ w \in Views \union Senders => c.value = st.store[c.path]
        /\ w \in Senders => c.path \in st.local

\* The views show the store, as far as no entry of theirs is waiting.
Shown(st, d) ==
  \A w \in Views : \A f \in FieldsOf[w] : Waiting(st.pending, w) \/ d[w] = st.store[f]

\* The effects es are local changes with their last value, as far as no sender
\* is waiting; and no local change of a bound field is without an effect and
\* without a sender waiting.
SenderWaits(queue, f) == \E w \in Senders : f \in FieldsOf[w] /\ Waiting(queue, w)
Collected(st, es) ==
  /\ \A i \in DOMAIN es :
       /\ es[i].path \in st.local \intersect BoundFields
       /\ SenderWaits(st.pending, es[i].path) \/ es[i].value = st.store[es[i].path]
  /\ \A f \in st.local \intersect BoundFields :
       SenderWaits(st.pending, f) \/ \E i \in DOMAIN es : es[i].path = f

Kept(st, d, es) == Timely(st) /\ (torn \/ Shown(st, d)) /\ Collected(st, es)

Now == [store |-> store, pending |-> pending, local |-> local]

-----------------------------------------------------------------------------
(* Folds unroll, step by step.                                             *)

ScheduleRun(g, queue, change, N) ==
  /\ g[0] = queue
  /\ \A n \in 1..N : g[n] = Notified(g[n - 1], WatchOrder[n], change)
  /\ Schedule(queue, change) = g[N]

PutRun(g, state, writes, N) ==
  /\ g[0] = state
  /\ \A n \in 1..N : g[n] = Put(g[n - 1], writes[n])
  /\ PutAll(state, writes) = g[N]

\* #schedule goes through the watchers one by one.
LEMMA ScheduleUnrolls ==
  ASSUME NEW queue, NEW change, NEW N \in Nat, N = Len(WatchOrder)
  PROVE  \E g : ScheduleRun(g, queue, change, N)
<1>. DEFINE Unrolled(g, m) == g = [n \in 0..m |-> IF n = 0 THEN queue ELSE Notified(g[n - 1], WatchOrder[n], change)]
            Good == {m \in 0..N : \E g : Unrolled(g, m)}
<1>1. 0 \in Good
  <2>1. Unrolled([n \in 0..0 |-> queue], 0)
    OBVIOUS
  <2>. HIDE DEF Unrolled
  <2>2. \E g : Unrolled(g, 0)
    BY <2>1
  <2>. QED BY <2>2
<1>2. ASSUME NEW b \in 1..N, b - 1 \in Good PROVE b \in Good
  <2>1. PICK g : Unrolled(g, b - 1)
    BY <1>2
  <2>. DEFINE h == [n \in 0..b |-> IF n = b THEN Notified(g[b - 1], WatchOrder[b], change) ELSE g[n]]
  <2>2. ASSUME NEW n \in 0..b
        PROVE  h[n] = IF n = 0 THEN queue ELSE Notified(h[n - 1], WatchOrder[n], change)
    <3>1. CASE n = b
      BY <3>1
    <3>2. CASE n # b
      <4>1. n \in 0..(b - 1) /\ h[n] = g[n] /\ (n # 0 => n - 1 \in 0..b /\ n - 1 # b /\ h[n - 1] = g[n - 1])
        BY <3>2
      <4>2. g[n] = IF n = 0 THEN queue ELSE Notified(g[n - 1], WatchOrder[n], change)
        BY <2>1, <4>1
      <4>. QED BY <4>1, <4>2
    <3>. QED BY <3>1, <3>2
  <2>3. Unrolled(h, b)
    BY <2>2
  <2>. HIDE DEF Unrolled, h
  <2>4. \E k : Unrolled(k, b)
    BY <2>3
  <2>. QED BY <2>4
<1>3. \E g : Unrolled(g, N)
  <2>1. N \in Good
    <3>1. \A b \in 1..N : b - 1 \in Good => b \in Good
      BY <1>2
    <3>. HIDE DEF Good
    <3>2. \A n \in 0..N : n \in Good
      BY <1>1, <3>1, Climb
    <3>. QED BY <3>2
  <2>. QED BY <2>1
<1>. DEFINE f == CHOOSE g : Unrolled(g, N)
<1>4. Unrolled(f, N)
  BY <1>3
<1>5. Schedule(queue, change) = f[N]
  BY DEF Schedule
<1>. HIDE DEF f
<1>6. f[0] = queue /\ \A n \in 1..N : f[n] = Notified(f[n - 1], WatchOrder[n], change)
  BY <1>4
<1>7. ScheduleRun(f, queue, change, N)
  BY <1>5, <1>6 DEF ScheduleRun
<1>. QED BY <1>7

\* A batch and a body write one by one.
LEMMA PutAllUnrolls ==
  ASSUME NEW state, NEW writes, NEW N \in Nat, N = Len(writes)
  PROVE  \E g : PutRun(g, state, writes, N)
<1>. DEFINE Unrolled(g, m) == g = [n \in 0..m |-> IF n = 0 THEN state ELSE Put(g[n - 1], writes[n])]
            Good == {m \in 0..N : \E g : Unrolled(g, m)}
<1>1. 0 \in Good
  <2>1. Unrolled([n \in 0..0 |-> state], 0)
    OBVIOUS
  <2>. HIDE DEF Unrolled
  <2>2. \E g : Unrolled(g, 0)
    BY <2>1
  <2>. QED BY <2>2
<1>2. ASSUME NEW b \in 1..N, b - 1 \in Good PROVE b \in Good
  <2>1. PICK g : Unrolled(g, b - 1)
    BY <1>2
  <2>. DEFINE h == [n \in 0..b |-> IF n = b THEN Put(g[b - 1], writes[b]) ELSE g[n]]
  <2>2. ASSUME NEW n \in 0..b
        PROVE  h[n] = IF n = 0 THEN state ELSE Put(h[n - 1], writes[n])
    <3>1. CASE n = b
      BY <3>1
    <3>2. CASE n # b
      <4>1. n \in 0..(b - 1) /\ h[n] = g[n] /\ (n # 0 => n - 1 \in 0..b /\ n - 1 # b /\ h[n - 1] = g[n - 1])
        BY <3>2
      <4>2. g[n] = IF n = 0 THEN state ELSE Put(g[n - 1], writes[n])
        BY <2>1, <4>1
      <4>. QED BY <4>1, <4>2
    <3>. QED BY <3>1, <3>2
  <2>3. Unrolled(h, b)
    BY <2>2
  <2>. HIDE DEF Unrolled, h
  <2>4. \E k : Unrolled(k, b)
    BY <2>3
  <2>. QED BY <2>4
<1>3. \E g : Unrolled(g, N)
  <2>1. N \in Good
    <3>1. \A b \in 1..N : b - 1 \in Good => b \in Good
      BY <1>2
    <3>. HIDE DEF Good
    <3>2. \A n \in 0..N : n \in Good
      BY <1>1, <3>1, Climb
    <3>. QED BY <3>2
  <2>. QED BY <2>1
<1>. DEFINE f == CHOOSE g : Unrolled(g, N)
<1>4. Unrolled(f, N)
  BY <1>3
<1>5. PutAll(state, writes) = f[N]
  BY DEF PutAll
<1>. HIDE DEF f
<1>6. f[0] = state /\ \A n \in 1..N : f[n] = Put(f[n - 1], writes[n])
  BY <1>4
<1>7. PutRun(f, state, writes, N)
  BY <1>5, <1>6 DEF PutRun
<1>. QED BY <1>7

\* A set that every write keeps holds what the batch ends in.
LEMMA PutAllKeeps ==
  ASSUME NEW S, NEW state \in S, NEW writes, Len(writes) \in Nat,
         \A st \in S : \A n \in 1..Len(writes) : Put(st, writes[n]) \in S
  PROVE  PutAll(state, writes) \in S
<1>. DEFINE N == Len(writes)
<1>0. N \in Nat /\ N = Len(writes)
  OBVIOUS
<1>. HIDE DEF N
<1>run. PICK g : PutRun(g, state, writes, N)
  BY <1>0, PutAllUnrolls
<1>1. /\ g[0] = state /\ PutAll(state, writes) = g[N]
      /\ \A n \in 1..N : g[n] = Put(g[n - 1], writes[n])
  BY <1>run DEF PutRun
<1>. DEFINE Good == {n \in 0..N : g[n] \in S}
<1>2. 0 \in Good
  BY <1>0, <1>1
<1>3. \A n \in 1..N : n - 1 \in Good => n \in Good
  BY <1>0, <1>1
<1>4. N \in Good
  <2>. HIDE DEF Good
  <2>1. \A n \in 0..N : n \in Good
    BY <1>0, <1>2, <1>3, Climb
  <2>. QED BY <1>0, <2>1
<1>. QED BY <1>1, <1>4

-----------------------------------------------------------------------------
(* Scheduling.                                                             *)

LEMMA EntryFields ==
  ASSUME NEW q \in Seq(Entries), NEW i \in DOMAIN q
  PROVE  /\ q[i] \in Entries /\ q[i].watcher \in Watchers
         /\ q[i].change.path \in Fields /\ q[i].change.value \in Values
<1>1. q[i] \in Entries
  BY ElementOfSeq
<1>. QED BY <1>1 DEF Entries

LEMMA NotifiedIs ==
  ASSUME NEW q \in Seq(Entries), NEW w, NEW change, [watcher |-> w, change |-> change] \in Entries,
         NEW r, r = Notified(q, w, change)
  PROVE  /\ r \in Seq(Entries) /\ Len(q) <= Len(r)
         /\ \A i \in DOMAIN q : r[i].watcher = q[i].watcher
         /\ \A i \in DOMAIN r :
               \/ r[i] = [watcher |-> w, change |-> change] /\ Wakes(w, change)
               \/ i \in DOMAIN q /\ r[i] = q[i] /\ ~(q[i].watcher = w /\ Wakes(w, change))
         /\ Wakes(w, change) => Waiting(r, w)
<1>. DEFINE e == [watcher |-> w, change |-> change]
<1>0. e.watcher = w /\ e \in Entries
  OBVIOUS
<1>. HIDE DEF e
<1>1. CASE ~Wakes(w, change)
  <2>1. r = q
    BY <1>1 DEF Notified
  <2>. QED BY <1>1, <2>1
<1>2. CASE Wakes(w, change) /\ Waiting(q, w)
  <2>1. r = [i \in DOMAIN q |-> IF q[i].watcher = w THEN e ELSE q[i]]
    BY <1>2 DEF Notified, Waiting, e
  <2>2. r \in Seq(Entries) /\ Len(r) = Len(q) /\ DOMAIN r = DOMAIN q
    BY <1>0, <2>1
  <2>3. \A i \in DOMAIN q : r[i].watcher = q[i].watcher
    BY <1>0, <2>1
  <2>4. \A i \in DOMAIN r : r[i] = e \/ (r[i] = q[i] /\ q[i].watcher # w)
    BY <2>1
  <2>. QED BY <1>2, <2>2, <2>3, <2>4 DEF Waiting, e
<1>3. CASE Wakes(w, change) /\ ~Waiting(q, w)
  <2>1. r = Append(q, e)
    BY <1>3 DEF Notified, Waiting, e
  <2>2. /\ r \in Seq(Entries) /\ Len(r) = Len(q) + 1
        /\ \A i \in 1..Len(q) : r[i] = q[i]
        /\ r[Len(q) + 1] = e
    BY <1>0, <2>1, Push
  <2>3. DOMAIN q = 1..Len(q) /\ DOMAIN r = 1..(Len(q) + 1) /\ Len(q) \in Nat
    BY <2>2
  <2>4. \A i \in DOMAIN q : q[i].watcher # w
    BY <1>3 DEF Waiting
  <2>5. Waiting(r, w)
    BY <1>0, <2>2, <2>3 DEF Waiting
  <2>. QED BY <1>3, <2>2, <2>3, <2>4, <2>5 DEF e
<1>. QED BY <1>1, <1>2, <1>3

\* The last value of a change reaches everyone it wakes, and nobody else.
LEMMA ScheduleIs ==
  ASSUME NEW q \in Seq(Entries), NEW change,
         \A w \in Watchers : [watcher |-> w, change |-> change] \in Entries,
         NEW r, r = Schedule(q, change)
  PROVE  /\ r \in Seq(Entries) /\ Len(q) <= Len(r)
         /\ \A i \in DOMAIN q : r[i].watcher = q[i].watcher
         /\ \A i \in DOMAIN r :
               \/ r[i].change = change /\ Wakes(r[i].watcher, change)
               \/ i \in DOMAIN q /\ r[i] = q[i] /\ ~Wakes(q[i].watcher, change)
         /\ \A w \in Watchers : Wakes(w, change) => Waiting(r, w)
<1>. DEFINE N == Len(WatchOrder)
<1>0. /\ N \in Nat /\ N = Len(WatchOrder)
      /\ \A n \in 1..N : WatchOrder[n] \in Watchers
      /\ \A w \in Watchers : \E n \in 1..N : w = WatchOrder[n]
  BY EngineAssumption DEF Range
<1>. HIDE DEF N
<1>run. PICK g : ScheduleRun(g, q, change, N)
  BY <1>0, ScheduleUnrolls
<1>1. /\ g[0] = q /\ r = g[N]
      /\ \A n \in 1..N : g[n] = Notified(g[n - 1], WatchOrder[n], change)
  BY <1>run DEF ScheduleRun
<1>. DEFINE Done(n) ==
              /\ g[n] \in Seq(Entries) /\ Len(q) <= Len(g[n])
              /\ \A i \in DOMAIN q : g[n][i].watcher = q[i].watcher
              /\ \A i \in DOMAIN g[n] :
                    \/ g[n][i].change = change /\ Wakes(g[n][i].watcher, change)
                    \/ /\ i \in DOMAIN q /\ g[n][i] = q[i]
                       /\ \A m \in 1..n : ~(q[i].watcher = WatchOrder[m] /\ Wakes(WatchOrder[m], change))
              /\ \A m \in 1..n : Wakes(WatchOrder[m], change) => Waiting(g[n], WatchOrder[m])
            Good == {n \in 0..N : Done(n)}
<1>2. 0 \in Good
  <2>1. Done(0)
    BY <1>1
  <2>. HIDE DEF Done
  <2>. QED BY <1>0, <2>1
<1>3. ASSUME NEW n \in 1..N, n - 1 \in Good PROVE n \in Good
  <2>. DEFINE a == g[n - 1]
              b == g[n]
              w == WatchOrder[n]
  <2>1. /\ Done(n - 1) /\ n \in Nat /\ n - 1 \in 0..N /\ w \in Watchers
        /\ \A m \in 1..n : m = n \/ m \in 1..(n - 1)
    BY <1>0, <1>3
  <2>2. a \in Seq(Entries) /\ [watcher |-> w, change |-> change] \in Entries /\ b = Notified(a, w, change)
    BY <1>1, <2>1
  <2>3. /\ b \in Seq(Entries) /\ Len(a) <= Len(b)
        /\ \A i \in DOMAIN a : b[i].watcher = a[i].watcher
        /\ \A i \in DOMAIN b :
              \/ b[i] = [watcher |-> w, change |-> change] /\ Wakes(w, change)
              \/ i \in DOMAIN a /\ b[i] = a[i] /\ ~(a[i].watcher = w /\ Wakes(w, change))
        /\ Wakes(w, change) => Waiting(b, w)
    <3>. HIDE DEF a, b, w
    <3>. QED BY <2>2, NotifiedIs
  <2>4. Done(n)
    <3>1. Len(q) <= Len(b) /\ \A i \in DOMAIN q : i \in DOMAIN a /\ b[i].watcher = q[i].watcher
      <4>1. Len(q) <= Len(a) /\ Len(a) \in Nat /\ Len(b) \in Nat /\ DOMAIN a = 1..Len(a)
        BY <2>1, <2>2, <2>3
      <4>. QED BY <2>1, <2>3, <4>1
    <3>2. ASSUME NEW i \in DOMAIN b
          PROVE  \/ b[i].change = change /\ Wakes(b[i].watcher, change)
                 \/ /\ i \in DOMAIN q /\ b[i] = q[i]
                    /\ \A m \in 1..n : ~(q[i].watcher = WatchOrder[m] /\ Wakes(WatchOrder[m], change))
      <4>1. CASE b[i] = [watcher |-> w, change |-> change] /\ Wakes(w, change)
        BY <4>1
      <4>2. CASE i \in DOMAIN a /\ b[i] = a[i] /\ ~(a[i].watcher = w /\ Wakes(w, change))
        BY <2>1, <4>2
      <4>. QED BY <2>3, <4>1, <4>2
    <3>3. ASSUME NEW m \in 1..n, Wakes(WatchOrder[m], change) PROVE Waiting(b, WatchOrder[m])
      <4>1. CASE m = n
        BY <2>3, <3>3, <4>1
      <4>2. CASE m \in 1..(n - 1)
        <5>1. PICK i \in DOMAIN a : a[i].watcher = WatchOrder[m]
          BY <2>1, <3>3, <4>2 DEF Waiting
        <5>2. i \in DOMAIN b
          BY <2>2, <2>3
        <5>. QED BY <2>3, <5>1, <5>2 DEF Waiting
      <4>. QED BY <2>1, <4>1, <4>2
    <3>. QED BY <2>3, <3>1, <3>2, <3>3
  <2>. HIDE DEF Done
  <2>. QED BY <2>4
<1>4. Done(N)
  <2>1. \A n \in 1..N : n - 1 \in Good => n \in Good
    BY <1>3
  <2>2. \A n \in Good : Done(n)
    OBVIOUS
  <2>. HIDE DEF Good, Done
  <2>3. \A n \in 0..N : n \in Good
    BY <1>0, <1>2, <2>1, Climb
  <2>. QED BY <1>0, <2>2, <2>3
<1>5. r \in Seq(Entries) /\ \A i \in DOMAIN q : q[i].watcher \in Watchers
  BY <1>1, <1>4, EntryFields
<1>. QED BY <1>0, <1>1, <1>4, <1>5

-----------------------------------------------------------------------------
(* Kept, write by write.                                                   *)

LEMMA WatchesOne ==
  /\ \A w \in Views : w \in Watchers /\ SkipsOf[w] = {}
  /\ \A w \in Senders : w \in Watchers /\ SkipsOf[w] = {"server", "replay"}
  /\ \A w \in Views \union Senders : \E f \in Fields : FieldsOf[w] = {f}
  /\ \A f \in BoundFields : f \in Fields /\ \E w \in Senders : f \in FieldsOf[w]
BY EngineAssumption, PageAssumption

LEMMA PutKeeps ==
  ASSUME NEW st \in States, NEW wr \in Writes, NEW d, NEW es \in Seq([path : Fields, value : Values]),
         Kept(st, d, es), Outward(wr.origin) \/ st.local = {}
  PROVE  /\ Put(st, wr) \in States /\ Kept(Put(st, wr), d, es)
         /\ Outward(wr.origin) \/ Put(st, wr).local = {}
<1>1. CASE st.store[wr.path] = wr.value
  BY <1>1 DEF Put
<1>2. CASE st.store[wr.path] # wr.value
  <2>. DEFINE p == wr.path
              c == Change(p, wr.value, st.store[p], wr.origin)
              q == st.pending
              r == Schedule(q, c)
              s2 == [st.store EXCEPT ![p] = wr.value]
              l2 == IF Outward(wr.origin) THEN st.local \union {p} ELSE st.local
              st2 == [store |-> s2, pending |-> r, local |-> l2]
  <2>1. Put(st, wr) = st2
    BY <1>2 DEF Put
  <2>2. /\ p \in Fields /\ wr.value \in Values /\ wr.origin \in Origins
        /\ st.store \in [Fields -> Values] /\ q \in Seq(Entries) /\ st.local \subseteq Fields
    BY DEF Writes, States
  <2>3. /\ c.path = p /\ c.value = wr.value /\ c.origin = wr.origin
        /\ \A w \in Watchers : [watcher |-> w, change |-> c] \in Entries
    BY <2>2 DEF Change, Entries
  <2>4. /\ s2 \in [Fields -> Values] /\ s2[p] = wr.value /\ \A f \in Fields \ {p} : s2[f] = st.store[f]
        /\ l2 \subseteq Fields /\ st.local \subseteq l2 /\ (Outward(wr.origin) => p \in l2)
        /\ \A f \in l2 : f \in st.local \/ (f = p /\ Outward(wr.origin))
    BY <2>2
  <2>5. /\ r \in Seq(Entries) /\ Len(q) <= Len(r)
        /\ \A i \in DOMAIN q : r[i].watcher = q[i].watcher
        /\ \A i \in DOMAIN r :
              \/ r[i].change = c /\ Wakes(r[i].watcher, c)
              \/ i \in DOMAIN q /\ r[i] = q[i] /\ ~Wakes(q[i].watcher, c)
        /\ \A w \in Watchers : Wakes(w, c) => Waiting(r, w)
    <3>. HIDE DEF q, c, r
    <3>1. r = Schedule(q, c)
      BY DEF r
    <3>. QED BY <2>2, <2>3, <3>1, ScheduleIs
  <2>6. \A w : Waiting(q, w) => Waiting(r, w)
    <3>1. DOMAIN q \subseteq DOMAIN r
      BY <2>2, <2>5
    <3>. QED BY <2>5, <3>1 DEF Waiting
  <2>7. /\ \A w \in Views : p \in FieldsOf[w] => Waiting(r, w)
        /\ Outward(wr.origin) => \A w \in Senders : p \in FieldsOf[w] => Waiting(r, w)
    <3>. HIDE DEF r, c
    <3>1. ASSUME NEW w \in Views, p \in FieldsOf[w] PROVE Waiting(r, w)
      <4>1. w \in Watchers /\ Wakes(w, c)
        BY <2>3, <3>1, WatchesOne DEF Wakes
      <4>. QED BY <2>5, <4>1
    <3>2. ASSUME Outward(wr.origin), NEW w \in Senders, p \in FieldsOf[w] PROVE Waiting(r, w)
      <4>1. w \in Watchers /\ Wakes(w, c)
        BY <2>3, <3>2, WatchesOne DEF Wakes, Outward
      <4>. QED BY <2>5, <4>1
    <3>. QED BY <3>1, <3>2
  <2>. HIDE DEF s2, l2, r, c
  <2>8. Timely(st2)
    <3>1. ASSUME NEW i \in DOMAIN r
          PROVE  /\ r[i].change.path \in FieldsOf[r[i].watcher]
                 /\ r[i].watcher \in Views \union Senders => r[i].change.value = s2[r[i].change.path]
                 /\ r[i].watcher \in Senders => r[i].change.path \in l2
      <4>1. CASE r[i].change = c /\ Wakes(r[i].watcher, c)
        BY <2>3, <2>4, <4>1, WatchesOne DEF Wakes, Outward
      <4>2. CASE i \in DOMAIN q /\ r[i] = q[i] /\ ~Wakes(q[i].watcher, c)
        <5>1. /\ q[i].change.path \in FieldsOf[q[i].watcher] /\ q[i].change.path \in Fields
              /\ q[i].watcher \in Views \union Senders =>
                   q[i].change.value = st.store[q[i].change.path]
              /\ q[i].watcher \in Senders => q[i].change.path \in st.local
          BY <2>2, <4>2, EntryFields DEF Kept, Timely
        <5>2. q[i].watcher \in Views \union Senders => q[i].change.path # p
          BY <2>2, <2>3, <4>2, <5>1, WatchesOne DEF Wakes, Outward, Origins
        <5>. QED BY <2>4, <4>2, <5>1, <5>2
      <4>. QED BY <2>5, <4>1, <4>2
    <3>. QED BY <3>1 DEF Timely
  <2>9. torn \/ Shown(st2, d)
    <3>1. ASSUME ~torn, NEW w \in Views, NEW f \in FieldsOf[w] PROVE Waiting(r, w) \/ d[w] = s2[f]
      <4>1. f \in Fields
        BY WatchesOne
      <4>2. Waiting(q, w) \/ d[w] = st.store[f]
        BY <3>1 DEF Kept, Shown
      <4>. QED BY <2>4, <2>6, <2>7, <4>1, <4>2
    <3>. QED BY <3>1 DEF Shown
  <2>10. \A f : SenderWaits(q, f) => SenderWaits(r, f)
    BY <2>6 DEF SenderWaits
  <2>11. p \in BoundFields /\ Outward(wr.origin) => SenderWaits(r, p)
    BY <2>7, WatchesOne DEF SenderWaits
  <2>12. Collected(st2, es)
    <3>1. ASSUME NEW i \in DOMAIN es
          PROVE  /\ es[i].path \in l2 \intersect BoundFields
                 /\ SenderWaits(r, es[i].path) \/ es[i].value = s2[es[i].path]
      <4>1. /\ es[i].path \in st.local \intersect BoundFields
            /\ SenderWaits(q, es[i].path) \/ es[i].value = st.store[es[i].path]
        BY DEF Kept, Collected
      <4>2. CASE es[i].path = p
        BY <2>4, <2>11, <4>1, <4>2
      <4>3. CASE es[i].path # p
        BY <2>2, <2>4, <2>10, <4>1, <4>3
      <4>. QED BY <4>2, <4>3
    <3>2. ASSUME NEW f \in l2 \intersect BoundFields
          PROVE  SenderWaits(r, f) \/ \E i \in DOMAIN es : es[i].path = f
      <4>1. CASE f \in st.local
        BY <2>10, <3>2, <4>1 DEF Kept, Collected
      <4>2. CASE f = p /\ Outward(wr.origin)
        BY <2>11, <3>2, <4>2
      <4>. QED BY <2>4, <4>1, <4>2
    <3>. QED BY <3>1, <3>2 DEF Collected
  <2>13. Outward(wr.origin) \/ l2 = {}
    BY DEF l2
  <2>14. st2 \in States
    BY <2>4, <2>5 DEF States
  <2>. QED BY <2>1, <2>8, <2>9, <2>12, <2>13, <2>14 DEF Kept
<1>. QED BY <1>1, <1>2

-----------------------------------------------------------------------------
(* Effects are a Map: one per path, the last value.                        *)

Pairs == [path : Fields, value : Values]
OncePerPath(es) == \A i \in DOMAIN es : \A j \in DOMAIN es : es[i].path = es[j].path => i = j

LEMMA PairFields ==
  ASSUME NEW q \in Seq(Pairs)
  PROVE  DOMAIN q = 1..Len(q) /\ \A i \in DOMAIN q : q[i].path \in Fields /\ q[i].value \in Values
<1>1. \A i \in DOMAIN q : q[i] \in Pairs
  BY ElementOfSeq
<1>. QED BY <1>1 DEF Pairs

\* A sender that fires enqueues what its field holds, and waits no more.
LEMMA EnqueueCollects ==
  ASSUME NEW before, NEW after, after.store = before.store, after.local = before.local,
         NEW es \in Seq(Pairs), OncePerPath(es), Collected(before, es),
         NEW p \in Fields, NEW v \in Values,
         p \in before.local \intersect BoundFields, v = before.store[p],
         \A f : SenderWaits(before.pending, f) => f = p \/ SenderWaits(after.pending, f)
  PROVE  /\ Enqueue(es, p, v) \in Seq(Pairs) /\ OncePerPath(Enqueue(es, p, v))
         /\ Collected(after, Enqueue(es, p, v))
<1>. DEFINE r == Enqueue(es, p, v)
<1>1. /\ r \in Seq(Pairs) /\ OncePerPath(r)
      /\ \A i \in DOMAIN r :
            \/ r[i].path = p /\ r[i].value = v
            \/ i \in DOMAIN es /\ r[i] = es[i] /\ es[i].path # p
      /\ \A i \in DOMAIN es : i \in DOMAIN r /\ r[i].path = es[i].path
      /\ \E i \in DOMAIN r : r[i].path = p
  <2>. DEFINE e == [path |-> p, value |-> v]
  <2>0. e \in Pairs /\ e.path = p /\ e.value = v
    BY DEF Pairs
  <2>. HIDE DEF e
  <2>1. CASE \E i \in DOMAIN es : es[i].path = p
    <3>1. r = [i \in DOMAIN es |-> IF es[i].path = p THEN e ELSE es[i]]
      BY <2>1 DEF Enqueue, e
    <3>2. r \in Seq(Pairs) /\ DOMAIN r = DOMAIN es
      BY <2>0, <3>1
    <3>3. \A i \in DOMAIN es : r[i].path = es[i].path
      BY <2>0, <3>1
    <3>4. OncePerPath(r)
      BY <3>2, <3>3 DEF OncePerPath
    <3>5. \A i \in DOMAIN r : (r[i].path = p /\ r[i].value = v) \/ (r[i] = es[i] /\ es[i].path # p)
      BY <2>0, <3>1
    <3>. QED BY <2>1, <3>2, <3>3, <3>4, <3>5
  <2>2. CASE ~\E i \in DOMAIN es : es[i].path = p
    <3>1. r = Append(es, e)
      BY <2>2 DEF Enqueue, e
    <3>2. /\ r \in Seq(Pairs) /\ Len(r) = Len(es) + 1
          /\ \A i \in 1..Len(es) : r[i] = es[i]
          /\ r[Len(es) + 1] = e
      BY <2>0, <3>1, Push
    <3>3. DOMAIN es = 1..Len(es) /\ DOMAIN r = 1..(Len(es) + 1) /\ Len(es) \in Nat
      BY <3>2
    <3>4. OncePerPath(r)
      BY <2>0, <2>2, <3>2, <3>3 DEF OncePerPath
    <3>. QED BY <2>0, <2>2, <3>2, <3>3, <3>4
  <2>. QED BY <2>1, <2>2
<1>. HIDE DEF r
<1>2. ASSUME NEW i \in DOMAIN r
      PROVE  /\ r[i].path \in after.local \intersect BoundFields
             /\ SenderWaits(after.pending, r[i].path) \/ r[i].value = after.store[r[i].path]
  <2>1. CASE r[i].path = p /\ r[i].value = v
    BY <2>1
  <2>2. CASE i \in DOMAIN es /\ r[i] = es[i] /\ es[i].path # p
    BY <2>2 DEF Collected
  <2>. QED BY <1>1, <2>1, <2>2
<1>3. ASSUME NEW f \in after.local \intersect BoundFields
      PROVE  SenderWaits(after.pending, f) \/ \E i \in DOMAIN r : r[i].path = f
  BY <1>1 DEF Collected
<1>. QED BY <1>1, <1>2, <1>3 DEF Collected, r

\* A batch or a body's writes, all local or all from outside, keep it.
LEMMA PutAllIsKept ==
  ASSUME NEW st \in States, NEW writes \in Seq(Writes), NEW d, NEW es \in Seq(Pairs),
         Kept(st, d, es),
         \/ \A i \in DOMAIN writes : Outward(writes[i].origin)
         \/ st.local = {} /\ \A i \in DOMAIN writes : ~Outward(writes[i].origin)
  PROVE  PutAll(st, writes) \in States /\ Kept(PutAll(st, writes), d, es)
<1>0. Len(writes) \in Nat /\ DOMAIN writes = 1..Len(writes)
      /\ \A n \in 1..Len(writes) : writes[n] \in Writes
  BY ElementOfSeq
<1>1. CASE \A i \in DOMAIN writes : Outward(writes[i].origin)
  <2>. DEFINE S == {s \in States : Kept(s, d, es)}
  <2>1. \A s \in S : \A n \in 1..Len(writes) : Put(s, writes[n]) \in S
    BY <1>0, <1>1, PutKeeps DEF Pairs
  <2>2. st \in S
    OBVIOUS
  <2>. HIDE DEF S
  <2>3. PutAll(st, writes) \in S
    BY <1>0, <2>1, <2>2, PutAllKeeps
  <2>. QED BY <2>3 DEF S
<1>2. CASE st.local = {} /\ \A i \in DOMAIN writes : ~Outward(writes[i].origin)
  <2>. DEFINE S == {s \in States : Kept(s, d, es) /\ s.local = {}}
  <2>1. \A s \in S : \A n \in 1..Len(writes) : Put(s, writes[n]) \in S
    BY <1>0, <1>2, PutKeeps DEF Pairs
  <2>2. st \in S
    BY <1>2
  <2>. HIDE DEF S
  <2>3. PutAll(st, writes) \in S
    BY <1>0, <2>1, <2>2, PutAllKeeps
  <2>. QED BY <2>3 DEF S
<1>. QED BY <1>1, <1>2

-----------------------------------------------------------------------------
(* The inductive invariant.                                                *)

CascadeTypes ==
  /\ store \in [Fields -> Values] /\ dom \in [Views -> Values]
  /\ running \in BOOLEAN /\ aborted \in BOOLEAN /\ torn \in BOOLEAN
  /\ pending \in Seq(Entries) /\ firings \in [Watchers -> 0..MaxFirings]
  /\ effects \in Seq(Pairs) /\ outbox \in Seq(Pairs) /\ local \subseteq Fields

BrowserTypes ==
  /\ entries \in Seq(AppUrls) /\ at \in DOMAIN entries /\ toApply \in Seq(Pairs)
  /\ pushes \in Nat /\ planned \in Nat /\ moves \in 0..MaxMoves

\* In a cascade the effects are collected and nothing is delivered yet; between
\* two, what was delivered is what was changed.
Collecting ==
  /\ Collected(Now, effects) /\ OncePerPath(effects)
  /\ outbox = <<>> /\ ~aborted

Delivered ==
  /\ pending = <<>> /\ effects = <<>>
  /\ aborted => outbox = <<>>
  /\ ~aborted => Collected(Now, outbox) /\ OncePerPath(outbox)

CascadeInv ==
  /\ CascadeTypes
  /\ Timely(Now) /\ (torn \/ Shown(Now, dom))
  /\ running => Collecting
  /\ ~running => Delivered

IInv == CascadeInv /\ BrowserTypes

LEMMA NowIs ==
  ASSUME CascadeTypes
  PROVE  Now \in States /\ Now.store = store /\ Now.pending = pending /\ Now.local = local
BY DEF CascadeTypes, Now, States

\* A cascade that opens on a page at rest.
LEMMA OpenKeeps ==
  ASSUME CascadeInv, NEW writes \in Seq(Writes), Open(writes),
         \/ \A i \in DOMAIN writes : Outward(writes[i].origin)
         \/ \A i \in DOMAIN writes : ~Outward(writes[i].origin)
  PROVE  CascadeInv'
<1>. DEFINE quiet == [store |-> store, pending |-> <<>>, local |-> {}]
            after == PutAll(quiet, writes)
<1>1. /\ quiet \in States /\ quiet.local = {} /\ quiet.store = store /\ quiet.pending = <<>>
      /\ <<>> \in Seq(Pairs)
  BY DEF CascadeInv, CascadeTypes, States
<1>2. Kept(quiet, dom, <<>>)
  <2>1. Timely(quiet) /\ Collected(quiet, <<>>)
    BY <1>1 DEF Timely, Collected
  <2>2. torn \/ Shown(quiet, dom)
    BY <1>1, NowIs DEF CascadeInv, Delivered, Shown, Waiting, Open
  <2>. QED BY <2>1, <2>2 DEF Kept
<1>3. after \in States /\ Kept(after, dom, <<>>)
  <2>. HIDE DEF quiet
  <2>. QED BY <1>1, <1>2, PutAllIsKept
<1>4. /\ store' = after.store /\ pending' = after.pending /\ local' = after.local
      /\ running' = TRUE /\ firings' = [w \in Watchers |-> 0] /\ effects' = <<>>
      /\ outbox' = <<>> /\ aborted' = FALSE /\ dom' = dom /\ torn' = torn
  BY DEF Open
<1>. HIDE DEF after, quiet
<1>5. /\ after.store \in [Fields -> Values] /\ after.pending \in Seq(Entries)
      /\ after.local \subseteq Fields
      /\ after = [store |-> after.store, pending |-> after.pending, local |-> after.local]
  BY <1>3 DEF States
<1>6. Now' = after
  BY <1>4, <1>5 DEF Now
<1>7. CascadeTypes'
  <2>1. MaxFirings \in Nat
    BY EngineAssumption
  <2>2. firings' \in [Watchers -> 0..MaxFirings]
    BY <1>4, <2>1
  <2>. QED BY <1>1, <1>4, <1>5, <2>2 DEF CascadeInv, CascadeTypes
<1>8. Timely(Now') /\ (torn \/ Shown(Now', dom)) /\ Collected(Now', <<>>)
  BY <1>3, <1>6 DEF Kept
<1>9. Timely(Now)' /\ (torn \/ Shown(Now, dom))' /\ Collected(Now, effects)'
  BY <1>4, <1>8 DEF Timely, Shown, Collected
<1>10. OncePerPath(effects)'
  BY <1>4 DEF OncePerPath
<1>. QED BY <1>4, <1>7, <1>9, <1>10 DEF CascadeInv, Collecting

\* The body of the watcher at the head runs: what it wrote before its turn and
\* what it enqueues are up to date, and its own writes keep the rest so.
LEMMA BodyKeeps ==
  ASSUME CascadeInv, NEW w \in Watchers, AtHead(w), RunBody(w),
         firings' \in [Watchers -> 0..MaxFirings]
  PROVE  CascadeInv'
<1>. DEFINE c == Head(pending).change
            quiet == [store |-> store, pending |-> Tail(pending), local |-> local]
            after == PutAll(quiet, Body(w, c, store))
            d == IF w \in Views THEN [dom EXCEPT ![w] = c.value] ELSE dom
            e == IF w \in Senders THEN Enqueue(effects, c.path, c.value) ELSE effects
<1>0. /\ CascadeTypes /\ Collecting /\ running /\ pending # <<>> /\ Head(pending).watcher = w
      /\ Timely(Now) /\ (torn \/ Shown(Now, dom))
      /\ Now.store = store /\ Now.pending = pending /\ Now.local = local
  BY NowIs DEF CascadeInv, AtHead
<1>1. /\ DOMAIN pending = 1..Len(pending) /\ Len(pending) \in Nat \ {0}
      /\ pending[1].change = c /\ pending[1].watcher = w /\ pending[1] \in Entries
      /\ Tail(pending) \in Seq(Entries) /\ DOMAIN Tail(pending) = 1..(Len(pending) - 1)
      /\ \A i \in 1..(Len(pending) - 1) : Tail(pending)[i] = pending[i + 1]
  BY <1>0, DropHead DEF CascadeTypes
<1>2. /\ c.path \in FieldsOf[w] /\ c.path \in Fields /\ c.value \in Values
      /\ (w \in Views \union Senders => c.value = store[c.path])
      /\ (w \in Senders => c.path \in local)
  <2>1. 1 \in DOMAIN pending
    BY <1>1
  <2>. QED BY <1>0, <1>1, <2>1, EntryFields DEF Timely, CascadeTypes
<1>3. c \in Changes(w)
  BY <1>1, <1>2 DEF Entries, Changes
<1>4. /\ Body(w, c, store) \in Seq(Writes)
      /\ \A i \in DOMAIN Body(w, c, store) : Outward(Body(w, c, store)[i].origin)
  BY <1>0, <1>3, EngineAssumption DEF CascadeTypes
<1>5. /\ quiet \in States /\ quiet.store = store /\ quiet.pending = Tail(pending)
      /\ quiet.local = local
  BY <1>0, <1>1 DEF CascadeTypes, States
<1>6. /\ store' = after.store /\ pending' = after.pending /\ local' = after.local
      /\ dom' = d /\ effects' = e
      /\ running' = running /\ outbox' = outbox /\ aborted' = aborted /\ torn' = torn
  BY DEF RunBody
<1>. HIDE DEF c, quiet
<1>7. \A x : Waiting(pending, x) => x = w \/ Waiting(Tail(pending), x)
  <2>1. ASSUME NEW x, Waiting(pending, x), x # w PROVE Waiting(Tail(pending), x)
    <3>1. PICK i \in 1..Len(pending) : pending[i].watcher = x
      BY <1>1, <2>1 DEF Waiting
    <3>2. i - 1 \in 1..(Len(pending) - 1) /\ pending[i] = pending[(i - 1) + 1]
      BY <1>1, <2>1, <3>1
    <3>3. Tail(pending)[i - 1].watcher = x
      BY <1>1, <3>1, <3>2
    <3>. QED BY <1>1, <3>2, <3>3 DEF Waiting
  <2>. QED BY <2>1
<1>8. Timely(quiet)
  <2>1. ASSUME NEW i \in DOMAIN Tail(pending)
        PROVE  \E j \in DOMAIN pending : Tail(pending)[i] = pending[j]
    <3>1. i + 1 \in DOMAIN pending /\ Tail(pending)[i] = pending[i + 1]
      BY <1>1
    <3>. QED BY <3>1
  <2>. QED BY <1>0, <1>5, <2>1 DEF Timely
<1>9. d \in [Views -> Values] /\ (torn \/ Shown(quiet, d))
  <2>1. d \in [Views -> Values] /\ \A v \in Views : v # w => d[v] = dom[v]
    BY <1>0, <1>2 DEF CascadeTypes
  <2>2. ASSUME NEW v \in Views, NEW f \in FieldsOf[v], ~torn
        PROVE  Waiting(Tail(pending), v) \/ d[v] = store[f]
    <3>1. CASE v = w
      <4>1. d[w] = c.value /\ c.value = store[c.path]
        BY <1>0, <1>2, <3>1 DEF CascadeTypes
      <4>2. c.path = f
        BY <1>2, <3>1, WatchesOne
      <4>. QED BY <3>1, <4>1, <4>2
    <3>2. CASE v # w
      <4>. HIDE DEF d
      <4>. QED BY <1>0, <1>7, <2>1, <2>2, <3>2 DEF Shown
    <3>. QED BY <3>1, <3>2
  <2>. QED BY <1>5, <2>1, <2>2 DEF Shown
<1>10. e \in Seq(Pairs) /\ OncePerPath(e) /\ Collected(quiet, e)
  <2>0. effects \in Seq(Pairs) /\ OncePerPath(effects) /\ Collected(Now, effects)
    BY <1>0 DEF CascadeTypes, Collecting
  <2>1. CASE w \in Senders
    <3>1. c.path \in local \intersect BoundFields /\ c.value = store[c.path] /\ FieldsOf[w] = {c.path}
      BY <1>2, <2>1, WatchesOne, PageAssumption
    <3>2. \A f : SenderWaits(pending, f) => f = c.path \/ SenderWaits(Tail(pending), f)
      BY <1>7, <3>1 DEF SenderWaits
    <3>3. e = Enqueue(effects, c.path, c.value)
      BY <2>1
    <3>. HIDE DEF e
    <3>4. /\ quiet.store = Now.store /\ quiet.local = Now.local
          /\ c.path \in Now.local \intersect BoundFields /\ c.value = Now.store[c.path]
          /\ \A f : SenderWaits(Now.pending, f) => f = c.path \/ SenderWaits(quiet.pending, f)
      BY <1>0, <1>5, <3>1, <3>2
    <3>5. /\ Enqueue(effects, c.path, c.value) \in Seq(Pairs)
          /\ OncePerPath(Enqueue(effects, c.path, c.value))
          /\ Collected(quiet, Enqueue(effects, c.path, c.value))
      BY <1>2, <2>0, <3>4, EnqueueCollects
    <3>. QED BY <3>3, <3>5
  <2>2. CASE w \notin Senders
    <3>1. e = effects
      BY <2>2
    <3>2. \A f : SenderWaits(pending, f) => SenderWaits(Tail(pending), f)
      BY <1>7, <2>2 DEF SenderWaits
    <3>. HIDE DEF e
    <3>. QED BY <1>0, <1>5, <2>0, <3>1, <3>2 DEF Collected
  <2>. QED BY <2>1, <2>2
<1>. HIDE DEF d, e
<1>11. after \in States /\ Kept(after, d, e)
  <2>1. Kept(quiet, d, e)
    BY <1>8, <1>9, <1>10 DEF Kept
  <2>. QED BY <1>4, <1>5, <1>10, <2>1, PutAllIsKept
<1>. HIDE DEF after
<1>12. /\ after.store \in [Fields -> Values] /\ after.pending \in Seq(Entries)
       /\ after.local \subseteq Fields
       /\ after = [store |-> after.store, pending |-> after.pending, local |-> after.local]
  BY <1>11 DEF States
<1>13. Now' = after
  BY <1>6, <1>12 DEF Now
<1>14. CascadeTypes'
  BY <1>0, <1>6, <1>9, <1>10, <1>12 DEF CascadeTypes
<1>15. Timely(Now)' /\ (torn \/ Shown(Now, dom))' /\ Collected(Now, effects)'
  BY <1>6, <1>11, <1>13 DEF Kept, Timely, Shown, Collected
<1>. QED BY <1>0, <1>6, <1>10, <1>14, <1>15 DEF CascadeInv, Collecting, OncePerPath

LEMMA AbortKeeps ==
  ASSUME CascadeInv, NEW w \in Watchers, Abort(w)
  PROVE  CascadeInv'
<1>1. <<>> \in Seq(Entries) /\ <<>> \in Seq(Pairs) /\ CascadeTypes /\ Collecting
  BY DEF CascadeInv, Abort, AtHead
<1>2. CascadeTypes'
  BY <1>1 DEF CascadeTypes, Abort
<1>3. Delivered'
  BY <1>1 DEF Abort, Delivered, Collecting
<1>4. Timely(Now)' /\ torn' /\ running' = FALSE
  BY DEF Abort, Timely, Now
<1>. QED BY <1>2, <1>3, <1>4 DEF CascadeInv

LEMMA SettleKeeps ==
  ASSUME CascadeInv, Settle
  PROVE  CascadeInv'
<1>1. <<>> \in Seq(Pairs) /\ CascadeTypes /\ Collecting /\ running' = FALSE
  BY DEF CascadeInv, Settle
<1>2. CascadeTypes'
  BY <1>1 DEF CascadeTypes, Settle
<1>3. Now' = Now /\ dom' = dom /\ torn' = torn /\ outbox' = effects
  BY DEF Settle, Now
<1>4. Timely(Now)' /\ (torn \/ Shown(Now, dom))'
  BY <1>3 DEF CascadeInv, Timely, Shown
<1>5. Collected(Now, outbox)' /\ OncePerPath(outbox)'
  BY <1>1, <1>3 DEF Collecting, Collected, OncePerPath
<1>6. Delivered'
  BY <1>1, <1>5 DEF Settle, Delivered, Collecting
<1>. QED BY <1>1, <1>2, <1>4, <1>6 DEF CascadeInv

LEMMA StandsStill ==
  ASSUME CascadeInv, UNCHANGED cascadeVars
  PROVE  CascadeInv'
BY DEF cascadeVars, CascadeInv, CascadeTypes, Timely, Shown, Collecting, Delivered, Collected,
       OncePerPath, Now

\* The history holds URLs of the app.
LEMMA AppUrl ==
  /\ \A url \in Urls : url \in AppUrls /\ Corrected(url) \in AppUrls
  /\ \A s \in [Fields -> Values] : PathFromState(s) # NoUrl => PathFromState(s) \in AppUrls
  /\ \A url \in AppUrls : Assignments(url) \in Seq(Pairs) /\ Corrected(url) \in AppUrls
<1>1. \A url \in Urls : url \in AppUrls
  BY DEF AppUrls, GivenUrls
<1>2. \A s \in [Fields -> Values] : PathFromState(s) # NoUrl => PathFromState(s) \in AppUrls
  BY DEF AppUrls, GivenUrls
<1>. QED BY <1>1, <1>2, PageAssumption DEF Pairs

LEMMA PushIs ==
  ASSUME BrowserTypes, NEW url \in AppUrls
  PROVE  /\ Append(SubSeq(entries, 1, at), url) \in Seq(AppUrls)
         /\ at + 1 \in DOMAIN Append(SubSeq(entries, 1, at), url)
<1>1. entries \in Seq(AppUrls) /\ at \in 1..Len(entries) /\ Len(entries) \in Nat
  BY DEF BrowserTypes
<1>2. SubSeq(entries, 1, at) \in Seq(AppUrls) /\ Len(SubSeq(entries, 1, at)) = at
  BY <1>1, SubSeqProperties
<1>. HIDE DEF BrowserTypes
<1>. QED BY <1>1, <1>2, Push

LEMMA InitIsInv == Init => IInv
<1>. SUFFICES ASSUME Init PROVE IInv
  OBVIOUS
<1>1. PICK url \in Urls :
        /\ CascadeInit([f \in Fields |->
              LET given == {i \in DOMAIN Assignments(url) : Assignments(url)[i].path = f}
              IN  IF given = {} THEN Mounted[f]
                  ELSE Assignments(url)[CHOOSE i \in given : TRUE].value])
        /\ entries = <<Corrected(url)>> /\ at = 1 /\ toApply = <<>>
        /\ pushes = 0 /\ planned = 0 /\ moves = 0
  BY DEF Init
<1>2. Assignments(url) \in Seq(Pairs) /\ Corrected(url) \in AppUrls
  BY AppUrl
<1>3. store \in [Fields -> Values]
  <2>1. \A i \in DOMAIN Assignments(url) : Assignments(url)[i].value \in Values
    BY <1>2, PairFields
  <2>2. Mounted \in [Fields -> Values]
    BY PageAssumption
  <2>. QED BY <1>1, <2>1, <2>2 DEF CascadeInit
<1>4. /\ dom = [w \in Views |-> store[CHOOSE f \in FieldsOf[w] : TRUE]]
      /\ running = FALSE /\ pending = <<>> /\ firings = [w \in Watchers |-> 0] /\ effects = <<>>
      /\ outbox = <<>> /\ aborted = FALSE /\ torn = FALSE /\ local = {}
  BY <1>1 DEF CascadeInit
<1>5. dom \in [Views -> Values] /\ \A w \in Views : \A f \in FieldsOf[w] : dom[w] = store[f]
  BY <1>3, <1>4, WatchesOne
<1>6. firings \in [Watchers -> 0..MaxFirings]
  <2>1. MaxFirings \in Nat
    BY EngineAssumption
  <2>. QED BY <1>4, <2>1
<1>7. CascadeTypes
  <2>1. <<>> \in Seq(Entries) /\ <<>> \in Seq(Pairs)
    OBVIOUS
  <2>. QED BY <1>3, <1>4, <1>5, <1>6, <2>1 DEF CascadeTypes
<1>8. Timely(Now) /\ Shown(Now, dom) /\ Collected(Now, outbox) /\ OncePerPath(outbox)
  BY <1>4, <1>5, <1>7, NowIs DEF Timely, Shown, Collected, OncePerPath
<1>9. BrowserTypes
  <2>1. MaxMoves \in Nat
    BY PageAssumption
  <2>. QED BY <1>1, <1>2, <2>1 DEF BrowserTypes
<1>. QED BY <1>4, <1>7, <1>8, <1>9 DEF IInv, CascadeInv, Delivered

LEMMA NextKeepsInv == IInv /\ [Next]_vars => IInv'
<1>. SUFFICES ASSUME IInv, [Next]_vars PROVE IInv'
  OBVIOUS
<1>0. /\ CascadeInv /\ BrowserTypes /\ store \in [Fields -> Values] /\ MaxMoves \in Nat
      /\ <<>> \in Seq(Pairs)
  BY PageAssumption DEF IInv, CascadeInv, CascadeTypes
<1>1. ASSUME NEW f \in WrittenFields, NEW v \in Contents, Input(f, v) PROVE IInv'
  <2>. DEFINE writes == <<[path |-> f, value |-> v, origin |-> "user"]>>
  <2>1. writes \in Seq(Writes) /\ \A i \in DOMAIN writes : Outward(writes[i].origin)
    BY PageAssumption DEF Writes, Origins, Outward
  <2>2. CascadeInv'
    <3>1. Open(writes)
      BY <1>1 DEF Input
    <3>. HIDE DEF writes
    <3>. QED BY <1>0, <2>1, <3>1, OpenKeeps
  <2>3. BrowserTypes'
    BY <1>0, <1>1 DEF Input, Begins, BrowserTypes
  <2>. QED BY <2>2, <2>3 DEF IInv
<1>2. ASSUME NEW press \in Presses, FieldSet(press) PROVE IInv'
  <2>. DEFINE writes == [i \in DOMAIN press |->
                [path |-> press[i].path, value |-> press[i].value, origin |-> "user"]]
  <2>1. writes \in Seq(Writes) /\ \A i \in DOMAIN writes : Outward(writes[i].origin)
    <3>1. press \in Seq(Pairs)
      BY PageAssumption DEF Pairs
    <3>2. DOMAIN press = 1..Len(press) /\ Len(press) \in Nat
          /\ \A i \in DOMAIN press : press[i].path \in Fields /\ press[i].value \in Values
      BY <3>1, PairFields
    <3>3. \A i \in DOMAIN press : writes[i] \in Writes /\ Outward(writes[i].origin)
      BY <3>2 DEF Writes, Origins, Outward
    <3>4. writes \in [1..Len(press) -> Writes]
      BY <3>2, <3>3
    <3>. QED BY <3>2, <3>3, <3>4
  <2>2. CascadeInv'
    <3>1. Open(writes)
      BY <1>2 DEF FieldSet
    <3>. HIDE DEF writes
    <3>. QED BY <1>0, <2>1, <3>1, OpenKeeps
  <2>3. BrowserTypes'
    BY <1>0, <1>2 DEF FieldSet, Begins, BrowserTypes
  <2>. QED BY <2>2, <2>3 DEF IInv
<1>3. ASSUME NEW f \in WrittenFields, NEW v \in Contents, NEW o \in {"server", "replay", "system"},
             OtherWrite(f, v, o)
      PROVE  IInv'
  <2>. DEFINE writes == <<[path |-> f, value |-> v, origin |-> o]>>
  <2>1. /\ writes \in Seq(Writes)
        /\ \/ \A i \in DOMAIN writes : Outward(writes[i].origin)
           \/ \A i \in DOMAIN writes : ~Outward(writes[i].origin)
    BY PageAssumption DEF Writes, Origins, Outward
  <2>2. CascadeInv'
    <3>1. Open(writes)
      BY <1>3 DEF OtherWrite
    <3>. HIDE DEF writes
    <3>. QED BY <1>0, <2>1, <3>1, OpenKeeps
  <2>3. BrowserTypes'
    BY <1>0, <1>3 DEF OtherWrite, Begins, BrowserTypes
  <2>. QED BY <2>2, <2>3 DEF IInv
<1>4. ASSUME NEW url \in Urls, Navigate(url) PROVE IInv'
  <2>1. CascadeInv'
    BY <1>0, <1>4, StandsStill DEF Navigate
  <2>2. Assignments(url) \in Seq(Pairs) /\ Corrected(url) \in AppUrls
    BY AppUrl
  <2>3. entries' \in Seq(AppUrls) /\ at' \in DOMAIN entries'
    <3>1. CASE url = Location
      <4>1. entries' = [entries EXCEPT ![at] = Corrected(url)] /\ at' = at
        BY <1>4, <3>1 DEF Navigate
      <4>. QED BY <1>0, <2>2, <4>1 DEF BrowserTypes
    <3>2. CASE url # Location
      <4>1. entries' = Append(SubSeq(entries, 1, at), Corrected(url)) /\ at' = at + 1
        BY <1>4, <3>2 DEF Navigate
      <4>2. BrowserTypes
        BY <1>0
      <4>. QED BY <2>2, <4>1, <4>2, PushIs
    <3>. QED BY <3>1, <3>2
  <2>4. BrowserTypes'
    <3>1. /\ toApply' = Assignments(url) /\ pushes' \in Nat /\ planned' \in Nat
          /\ moves < MaxMoves /\ moves' = moves + 1
      <4>1. Len(Assignments(url)) \in Nat
        BY <2>2
      <4>. QED BY <1>4, <4>1 DEF Navigate, Begins
    <3>2. moves' \in 0..MaxMoves
      BY <1>0, <3>1 DEF BrowserTypes
    <3>. QED BY <2>2, <2>3, <3>1, <3>2 DEF BrowserTypes
  <2>. QED BY <2>1, <2>4 DEF IInv
<1>5. ASSUME NEW to \in DOMAIN entries, PopState(to) PROVE IInv'
  <2>1. CascadeInv'
    BY <1>0, <1>5, StandsStill DEF PopState
  <2>2. entries \in Seq(AppUrls) /\ entries[to] \in AppUrls
    BY <1>0, <1>5, ElementOfSeq DEF BrowserTypes
  <2>3. Assignments(entries[to]) \in Seq(Pairs) /\ Corrected(entries[to]) \in AppUrls
    BY <2>2, AppUrl
  <2>4. entries' = [entries EXCEPT ![to] = Corrected(@)] /\ at' = to
    BY <1>5 DEF PopState
  <2>5. entries' \in Seq(AppUrls) /\ at' \in DOMAIN entries'
    BY <1>5, <2>2, <2>3, <2>4
  <2>6. BrowserTypes'
    BY <1>0, <1>5, <2>3, <2>5 DEF PopState, Begins, BrowserTypes
  <2>. QED BY <2>1, <2>6 DEF IInv
<1>6. ASSUME NEW w \in Watchers, FireWatcher(w) PROVE IInv'
  <2>1. AtHead(w) /\ RunBody(w) /\ firings[w] < MaxFirings /\ firings' = [firings EXCEPT ![w] = @ + 1]
    BY <1>6 DEF FireWatcher, Fire
  <2>2. firings' \in [Watchers -> 0..MaxFirings]
    <3>1. firings \in [Watchers -> 0..MaxFirings] /\ MaxFirings \in Nat
      BY <1>0, EngineAssumption DEF CascadeInv, CascadeTypes
    <3>. QED BY <2>1, <3>1
  <2>3. CascadeInv'
    BY <1>0, <2>1, <2>2, BodyKeeps
  <2>4. BrowserTypes'
    <3>1. toApply' = toApply /\ planned' = planned /\ moves' = moves
      BY <1>6 DEF FireWatcher
    <3>2. CASE UNCHANGED <<entries, at, pushes>>
      BY <1>0, <3>1, <3>2 DEF BrowserTypes
    <3>3. CASE PathFromState(store) # NoUrl /\ PushState(PathFromState(store))
      BY <1>0, <3>1, <3>3, AppUrl, PushIs DEF PushState, BrowserTypes
    <3>. QED BY <1>6, <3>2, <3>3 DEF FireWatcher
  <2>. QED BY <2>3, <2>4 DEF IInv
<1>7. ASSUME NEW w \in Watchers, AbortCascade(w) PROVE IInv'
  <2>1. CascadeInv'
    BY <1>0, <1>7, AbortKeeps DEF AbortCascade
  <2>. QED BY <1>0, <1>7, <2>1 DEF IInv, AbortCascade, BrowserTypes
<1>8. ASSUME SettleCascade PROVE IInv'
  <2>1. CascadeInv'
    BY <1>0, <1>8, SettleKeeps DEF SettleCascade
  <2>. QED BY <1>0, <1>8, <2>1 DEF IInv, SettleCascade, browserVars, BrowserTypes
<1>9. ASSUME ApplyNext PROVE IInv'
  <2>. DEFINE a == Head(toApply)
              writes == <<[path |-> a.path, value |-> a.value, origin |-> "system"]>>
  <2>1. a \in Pairs /\ Tail(toApply) \in Seq(Pairs)
    BY <1>0, <1>9, DropHead DEF ApplyNext, BrowserTypes
  <2>2. writes \in Seq(Writes) /\ \A i \in DOMAIN writes : Outward(writes[i].origin)
    <3>1. a.path \in Fields /\ a.value \in Values
      BY <2>1 DEF Pairs
    <3>. HIDE DEF a
    <3>. QED BY <3>1 DEF Writes, Origins, Outward
  <2>3. CascadeInv'
    <3>1. CASE UNCHANGED cascadeVars
      BY <1>0, <3>1, StandsStill
    <3>2. CASE Open(writes)
      <4>. HIDE DEF writes
      <4>. QED BY <1>0, <2>2, <3>2, OpenKeeps
    <3>. QED BY <1>9, <3>1, <3>2 DEF ApplyNext
  <2>4. BrowserTypes'
    BY <1>0, <1>9, <2>1 DEF ApplyNext, BrowserTypes
  <2>. QED BY <2>3, <2>4 DEF IInv
<1>10. ASSUME UNCHANGED vars PROVE IInv'
  <2>1. CascadeInv'
    BY <1>0, <1>10, StandsStill DEF vars
  <2>. QED BY <1>0, <1>10, <2>1 DEF IInv, vars, browserVars, BrowserTypes
<1>. QED BY <1>1, <1>2, <1>3, <1>4, <1>5, <1>6, <1>7, <1>8, <1>9, <1>10 DEF Next, Running

-----------------------------------------------------------------------------
(* The outward watcher waits whenever a field that routes assign changed.   *)

OnceEach(q) == \A i, j \in DOMAIN q : q[i].watcher = q[j].watcher => i = j

\* A watcher has one entry at most: a change is coalesced into the one it has.
LEMMA NotifiedOnce ==
  ASSUME NEW q \in Seq(Entries), OnceEach(q), NEW w, NEW change,
         [watcher |-> w, change |-> change] \in Entries
  PROVE  Notified(q, w, change) \in Seq(Entries) /\ OnceEach(Notified(q, w, change))
<1>. DEFINE e == [watcher |-> w, change |-> change]
            r == Notified(q, w, change)
<1>. SUFFICES r \in Seq(Entries) /\ OnceEach(r)
  OBVIOUS
<1>0. e.watcher = w /\ e \in Entries
  OBVIOUS
<1>1. CASE r = q
  BY <1>1
<1>2. CASE r = [i \in DOMAIN q |-> IF q[i].watcher = w THEN e ELSE q[i]]
  <2>1. DOMAIN r = DOMAIN q /\ \A i \in DOMAIN q : r[i].watcher = q[i].watcher
    BY <1>0, <1>2
  <2>2. r \in Seq(Entries)
    BY <1>0, <1>2
  <2>. HIDE DEF r
  <2>. QED BY <2>1, <2>2 DEF OnceEach
<1>3. CASE ~Waiting(q, w) /\ r = Append(q, e)
  <2>. HIDE DEF r, e
  <2>1. /\ r \in Seq(Entries) /\ Len(r) = Len(q) + 1
        /\ \A i \in 1..Len(q) : r[i] = q[i]
        /\ r[Len(q) + 1] = e
    BY <1>0, <1>3, Push
  <2>2. DOMAIN q = 1..Len(q) /\ DOMAIN r = 1..(Len(q) + 1) /\ Len(q) \in Nat
    BY <2>1
  <2>3. \A i \in 1..Len(q) : r[i].watcher # w
    BY <1>3, <2>1, <2>2 DEF Waiting
  <2>. QED BY <1>0, <2>1, <2>2, <2>3 DEF OnceEach, r
<1>4. r = q \/ r = [i \in DOMAIN q |-> IF q[i].watcher = w THEN e ELSE q[i]]
      \/ (~Waiting(q, w) /\ r = Append(q, e))
  BY DEF Notified, Waiting
<1>. HIDE DEF r, e
<1>. QED BY <1>1, <1>2, <1>3, <1>4

LEMMA ScheduleOnce ==
  ASSUME NEW q \in Seq(Entries), OnceEach(q), NEW change,
         \A w \in Watchers : [watcher |-> w, change |-> change] \in Entries
  PROVE  OnceEach(Schedule(q, change))
<1>. DEFINE N == Len(WatchOrder)
<1>0. N \in Nat /\ N = Len(WatchOrder) /\ \A n \in 1..N : WatchOrder[n] \in Watchers
  BY EngineAssumption DEF Range
<1>. HIDE DEF N
<1>run. PICK g : ScheduleRun(g, q, change, N)
  BY <1>0, ScheduleUnrolls
<1>1. /\ g[0] = q /\ Schedule(q, change) = g[N]
      /\ \A n \in 1..N : g[n] = Notified(g[n - 1], WatchOrder[n], change)
  BY <1>run DEF ScheduleRun
<1>. DEFINE Good == {n \in 0..N : g[n] \in Seq(Entries) /\ OnceEach(g[n])}
<1>2. 0 \in Good
  BY <1>0, <1>1
<1>3. ASSUME NEW n \in 1..N, n - 1 \in Good PROVE n \in Good
  <2>1. /\ g[n - 1] \in Seq(Entries) /\ OnceEach(g[n - 1]) /\ n \in 0..N
        /\ [watcher |-> WatchOrder[n], change |-> change] \in Entries
    BY <1>0, <1>3
  <2>2. Notified(g[n - 1], WatchOrder[n], change) \in Seq(Entries)
        /\ OnceEach(Notified(g[n - 1], WatchOrder[n], change))
    BY <2>1, NotifiedOnce
  <2>3. g[n] = Notified(g[n - 1], WatchOrder[n], change)
    BY <1>1
  <2>. QED BY <2>1, <2>2, <2>3
<1>4. N \in Good
  <2>1. \A n \in 1..N : n - 1 \in Good => n \in Good
    BY <1>3
  <2>. HIDE DEF Good
  <2>2. \A n \in 0..N : n \in Good
    BY <1>0, <1>2, <2>1, Climb
  <2>. QED BY <1>0, <2>2
<1>. QED BY <1>1, <1>4

\* What a write does to the fields of routes and to the outward watcher, which
\* skips no origin.
LEMMA PutTells ==
  ASSUME NEW st \in States, OnceEach(st.pending), NEW wr \in Writes
  PROVE  LET nx == Put(st, wr)
         IN  /\ nx \in States /\ OnceEach(nx.pending)
             /\ Waiting(st.pending, SyncUrl) => Waiting(nx.pending, SyncUrl)
             /\ Waiting(nx.pending, SyncUrl) \/ \A f \in Targets : nx.store[f] = st.store[f]
             /\ wr.path \notin Targets /\ Waiting(nx.pending, SyncUrl) => Waiting(st.pending, SyncUrl)
             /\ wr.path \in Targets => Waiting(nx.pending, SyncUrl) \/ st.store[wr.path] = wr.value
<1>1. CASE st.store[wr.path] = wr.value
  BY <1>1 DEF Put
<1>2. CASE st.store[wr.path] # wr.value
  <2>. DEFINE p == wr.path
              c == Change(p, wr.value, st.store[p], wr.origin)
              q == st.pending
              r == Schedule(q, c)
              s2 == [st.store EXCEPT ![p] = wr.value]
              l2 == IF Outward(wr.origin) THEN st.local \union {p} ELSE st.local
              st2 == [store |-> s2, pending |-> r, local |-> l2]
  <2>1. Put(st, wr) = st2
    BY <1>2 DEF Put
  <2>2. /\ p \in Fields /\ wr.value \in Values /\ wr.origin \in Origins
        /\ st.store \in [Fields -> Values] /\ q \in Seq(Entries) /\ st.local \subseteq Fields
    BY DEF Writes, States
  <2>3. /\ c.path = p /\ c.origin = wr.origin
        /\ \A w \in Watchers : [watcher |-> w, change |-> c] \in Entries
    BY <2>2 DEF Change, Entries
  <2>4. /\ s2 \in [Fields -> Values] /\ \A f \in Fields \ {p} : s2[f] = st.store[f]
        /\ l2 \subseteq Fields
    BY <2>2
  <2>5. /\ r \in Seq(Entries) /\ Len(q) <= Len(r)
        /\ \A i \in DOMAIN q : r[i].watcher = q[i].watcher
        /\ \A i \in DOMAIN r :
              \/ r[i].change = c /\ Wakes(r[i].watcher, c)
              \/ i \in DOMAIN q /\ r[i] = q[i] /\ ~Wakes(q[i].watcher, c)
        /\ \A w \in Watchers : Wakes(w, c) => Waiting(r, w)
        /\ OnceEach(r)
    <3>. HIDE DEF c, r
    <3>1. r = Schedule(q, c)
      BY DEF r
    <3>. HIDE DEF q
    <3>2. OnceEach(q)
      BY DEF q
    <3>. QED BY <2>2, <2>3, <3>1, <3>2, ScheduleIs, ScheduleOnce
  <2>6. Waiting(q, SyncUrl) => Waiting(r, SyncUrl)
    <3>1. DOMAIN q \subseteq DOMAIN r
      BY <2>2, <2>5
    <3>. QED BY <2>5, <3>1 DEF Waiting
  <2>7. SyncUrl \in Watchers /\ FieldsOf[SyncUrl] = Targets /\ SkipsOf[SyncUrl] = {}
    BY PageAssumption
  <2>8. Wakes(SyncUrl, c) <=> p \in Targets
    BY <2>3, <2>7 DEF Wakes
  <2>9. Targets \subseteq Fields
    BY <2>7, EngineAssumption
  <2>. HIDE DEF s2, l2, r, c
  <2>10. Waiting(r, SyncUrl) \/ \A f \in Targets : s2[f] = st.store[f]
    BY <2>4, <2>5, <2>7, <2>8, <2>9
  <2>11. p \notin Targets /\ Waiting(r, SyncUrl) => Waiting(q, SyncUrl)
    BY <2>5, <2>8 DEF Waiting
  <2>12. st2 \in States
    BY <2>4, <2>5 DEF States
  <2>13. p \in Targets => Waiting(r, SyncUrl)
    BY <2>5, <2>7, <2>8
  <2>. QED BY <2>1, <2>5, <2>6, <2>10, <2>11, <2>12, <2>13
<1>. QED BY <1>1, <1>2

LEMMA PutAllTells ==
  ASSUME NEW st \in States, OnceEach(st.pending), NEW writes \in Seq(Writes),
         NEW after, after = PutAll(st, writes)
  PROVE  /\ OnceEach(after.pending)
         /\ Waiting(st.pending, SyncUrl) => Waiting(after.pending, SyncUrl)
         /\ Waiting(after.pending, SyncUrl) \/ \A f \in Targets : after.store[f] = st.store[f]
         /\ (\A i \in DOMAIN writes : writes[i].path \notin Targets)
              => (Waiting(after.pending, SyncUrl) => Waiting(st.pending, SyncUrl))
<1>0. /\ Len(writes) \in Nat /\ DOMAIN writes = 1..Len(writes)
      /\ \A n \in 1..Len(writes) : writes[n] \in Writes
  BY ElementOfSeq
<1>. DEFINE Fine(s) == /\ OnceEach(s.pending)
                       /\ Waiting(st.pending, SyncUrl) => Waiting(s.pending, SyncUrl)
                       /\ Waiting(s.pending, SyncUrl) \/ \A f \in Targets : s.store[f] = st.store[f]
            S == {s \in States : Fine(s)}
            T == {s \in States : Fine(s) /\ (Waiting(s.pending, SyncUrl) => Waiting(st.pending, SyncUrl))}
<1>1. ASSUME NEW s \in S, NEW n \in 1..Len(writes)
      PROVE  /\ Put(s, writes[n]) \in S
             /\ writes[n].path \notin Targets /\ Waiting(Put(s, writes[n]).pending, SyncUrl)
                  => Waiting(s.pending, SyncUrl)
  <2>1. s \in States /\ Fine(s) /\ writes[n] \in Writes
    BY <1>0
  <2>. DEFINE nx == Put(s, writes[n])
  <2>2. /\ nx \in States /\ OnceEach(nx.pending)
        /\ Waiting(s.pending, SyncUrl) => Waiting(nx.pending, SyncUrl)
        /\ Waiting(nx.pending, SyncUrl) \/ \A f \in Targets : nx.store[f] = s.store[f]
        /\ writes[n].path \notin Targets /\ Waiting(nx.pending, SyncUrl) => Waiting(s.pending, SyncUrl)
    BY <2>1, PutTells
  <2>. HIDE DEF nx
  <2>3. Fine(nx)
    BY <2>1, <2>2
  <2>. QED BY <2>2, <2>3 DEF nx
<1>2. st \in S /\ st \in T
  OBVIOUS
<1>3. after \in S
  <2>1. \A s \in S : \A n \in 1..Len(writes) : Put(s, writes[n]) \in S
    BY <1>1
  <2>. HIDE DEF S
  <2>. QED BY <1>0, <1>2, <2>1, PutAllKeeps
<1>4. ASSUME \A i \in DOMAIN writes : writes[i].path \notin Targets PROVE after \in T
  <2>1. ASSUME NEW s \in T, NEW n \in 1..Len(writes) PROVE Put(s, writes[n]) \in T
    <3>1. s \in S /\ writes[n].path \notin Targets
          /\ (Waiting(s.pending, SyncUrl) => Waiting(st.pending, SyncUrl))
      BY <1>0, <1>4, <2>1
    <3>2. /\ Put(s, writes[n]) \in S
          /\ Waiting(Put(s, writes[n]).pending, SyncUrl) => Waiting(s.pending, SyncUrl)
      <4>. HIDE DEF S
      <4>. QED BY <1>1, <3>1
    <3>. QED BY <3>1, <3>2
  <2>. HIDE DEF T
  <2>. QED BY <1>0, <1>2, <2>1, PutAllKeeps
<1>. QED BY <1>3, <1>4

-----------------------------------------------------------------------------
(* URL and state agree, where the routes tell the states.                   *)

LEMMA RouteShape ==
  ASSUME NEW r \in DOMAIN Routes
  PROVE  /\ r \in Nat /\ r # 0
         /\ Len(Routes[r].segs) \in Nat /\ DOMAIN Routes[r].segs = 1..Len(Routes[r].segs)
         /\ \A k \in DOMAIN Routes[r].segs : Routes[r].segs[k].param \in BOOLEAN
         /\ \A i \in DOMAIN Routes[r].sets :
               /\ Routes[r].sets[i].field \in Targets
               /\ Routes[r].sets[i].param \in BOOLEAN
               /\ Routes[r].sets[i].param => \E k \in DOMAIN Routes[r].segs :
                     Routes[r].segs[k].param /\ Routes[r].segs[k] = Param(Routes[r].sets[i].value)
         /\ Targets \subseteq Fields
<1>1. \A i \in DOMAIN Routes[r].sets : Routes[r].sets[i].field \in Targets
  BY DEF Targets
<1>2. Targets \subseteq Fields
  BY PageAssumption, EngineAssumption
<1>3. \A i \in DOMAIN Routes[r].sets : Routes[r].sets[i].param => \E k \in DOMAIN Routes[r].segs :
          Routes[r].segs[k].param /\ Routes[r].segs[k] = Param(Routes[r].sets[i].value)
  <2>1. ASSUME NEW i \in DOMAIN Routes[r].sets, Routes[r].sets[i].param
        PROVE  \E k \in DOMAIN Routes[r].segs :
                  Routes[r].segs[k].param /\ Routes[r].segs[k] = Param(Routes[r].sets[i].value)
    <3>1. PICK k \in DOMAIN Routes[r].segs : Routes[r].segs[k] = Param(Routes[r].sets[i].value)
      BY <2>1, PageAssumption
    <3>2. Routes[r].segs[k].param
      BY <3>1 DEF Param
    <3>. QED BY <3>1, <3>2
  <2>. QED BY <2>1
<1>. QED BY <1>1, <1>2, <1>3, PageAssumption

\* What a route built from a state has in place of its parameters.
LEMMA BuiltUrl ==
  ASSUME RoutesTell, NEW s, NEW r \in DOMAIN Routes, NEW url, url = BuildPath(Routes[r], s)
  PROVE  LET segs == Routes[r].segs
             sets == Routes[r].sets
         IN  /\ DOMAIN url = DOMAIN segs /\ Len(url) = Len(segs)
             /\ \A k \in DOMAIN segs : ~segs[k].param => url[k] = segs[k].name
             /\ \A k \in DOMAIN segs : segs[k].param =>
                   \E i \in DOMAIN sets : url[k] = Encode[s[sets[i].field]]
             /\ \A k \in DOMAIN segs : \A i \in DOMAIN sets :
                   segs[k].param /\ sets[i].param /\ sets[i].value = segs[k].name
                     => url[k] = Encode[s[sets[i].field]]
<1>. DEFINE segs == Routes[r].segs
            sets == Routes[r].sets
            Names(seg, i) == sets[i].param /\ sets[i].value = seg.name
            n(seg) == CHOOSE i \in DOMAIN sets : Names(seg, i)
<1>1. url = [k \in DOMAIN segs |->
               IF ~segs[k].param THEN segs[k].name ELSE Encode[s[sets[n(segs[k])].field]]]
  BY DEF BuildPath
<1>2. DOMAIN segs = 1..Len(segs) /\ Len(segs) \in Nat /\ \A k \in DOMAIN segs : segs[k].param \in BOOLEAN
  BY RouteShape
<1>3. ASSUME NEW k \in DOMAIN segs, segs[k].param
      PROVE  \E i \in DOMAIN sets : \A x \in DOMAIN sets : Names(segs[k], x) <=> x = i
  <2>1. PICK i \in DOMAIN sets : {x \in DOMAIN sets : Names(segs[k], x)} = {i}
    BY <1>3 DEF RoutesTell
  <2>. HIDE DEF Names
  <2>. QED BY <2>1
<1>4. ASSUME NEW k \in DOMAIN segs, segs[k].param
      PROVE  /\ n(segs[k]) \in DOMAIN sets
             /\ \A i \in DOMAIN sets : Names(segs[k], i) => i = n(segs[k])
  <2>. HIDE DEF Names
  <2>. QED BY <1>3, <1>4
<1>. HIDE DEF n, segs
<1>5. /\ DOMAIN url = DOMAIN segs /\ Len(url) = Len(segs)
      /\ \A k \in DOMAIN segs : ~segs[k].param => url[k] = segs[k].name
      /\ \A k \in DOMAIN segs : segs[k].param => url[k] = Encode[s[sets[n(segs[k])].field]]
  <2>1. DOMAIN url = DOMAIN segs
    BY <1>1
  <2>2. Len(url) = Len(segs)
    BY <1>2, <2>1
  <2>3. ASSUME NEW k \in DOMAIN segs
        PROVE  url[k] = IF ~segs[k].param THEN segs[k].name ELSE Encode[s[sets[n(segs[k])].field]]
    BY <1>1
  <2>4. \A k \in DOMAIN segs : ~segs[k].param => url[k] = segs[k].name
    BY <2>3
  <2>5. ASSUME NEW k \in DOMAIN segs, segs[k].param
        PROVE  url[k] = Encode[s[sets[n(segs[k])].field]]
    BY <1>2, <2>3, <2>5
  <2>. QED BY <2>1, <2>2, <2>4, <2>5
<1>6. /\ \A k \in DOMAIN segs : segs[k].param => \E i \in DOMAIN sets : url[k] = Encode[s[sets[i].field]]
      /\ \A k \in DOMAIN segs : \A i \in DOMAIN sets :
            segs[k].param /\ Names(segs[k], i) => url[k] = Encode[s[sets[i].field]]
  BY <1>4, <1>5
<1>. QED BY <1>5, <1>6 DEF segs

LEMMA LastOf ==
  ASSUME NEW n \in Nat, NEW S \in SUBSET (1..n), S # {}
  PROVE  (CHOOSE j \in S : \A l \in S : l <= j) \in S
<1>. DEFINE flip == {n - j : j \in S}
<1>1. flip \in SUBSET Nat /\ flip # {}
  <2>1. \A j \in S : n - j \in Nat
    OBVIOUS
  <2>2. flip \in SUBSET Nat
    BY <2>1
  <2>3. PICK j \in S : TRUE
    OBVIOUS
  <2>4. n - j \in flip
    BY <2>3
  <2>. QED BY <2>2, <2>4
<1>2. Min(flip) \in flip /\ \A y \in flip : Min(flip) <= y
  <2>. HIDE DEF flip
  <2>. QED BY <1>1, MinOf
<1>3. PICK j \in S : Min(flip) = n - j
  BY <1>2
<1>4. ASSUME NEW l \in S PROVE l <= j
  <2>1. n - l \in flip
    OBVIOUS
  <2>2. l \in Nat /\ j \in Nat
    OBVIOUS
  <2>. HIDE DEF flip
  <2>. QED BY <1>2, <1>3, <2>1, <2>2
<1>. QED BY <1>4

\* A parameter is read off a segment that stands for it.
LEMMA ParamIs ==
  ASSUME NEW r \in DOMAIN Routes, NEW url, DOMAIN url = DOMAIN Routes[r].segs,
         NEW i \in DOMAIN Routes[r].sets, Routes[r].sets[i].param
  PROVE  \E k \in DOMAIN Routes[r].segs :
            /\ Routes[r].segs[k].param /\ Routes[r].segs[k].name = Routes[r].sets[i].value
            /\ ParamOf(Routes[r], url, Routes[r].sets[i].value) = Coerce[url[k]]
<1>. DEFINE segs == Routes[r].segs
            name == Routes[r].sets[i].value
            S == {j \in DOMAIN url : segs[j] = Param(name)}
            k == CHOOSE j \in S : \A l \in S : l <= j
<1>1. DOMAIN url = 1..Len(segs) /\ Len(segs) \in Nat /\ S # {}
  <2>1. PICK x \in DOMAIN segs : segs[x] = Param(name)
    BY RouteShape
  <2>. QED BY <2>1, RouteShape
<1>2. k \in S
  <2>1. S \in SUBSET (1..Len(segs))
    BY <1>1
  <2>. HIDE DEF S, segs
  <2>. QED BY <1>1, <2>1, LastOf
<1>3. ParamOf(Routes[r], url, name) = Coerce[url[k]]
  BY <1>1 DEF ParamOf
<1>. HIDE DEF k
<1>4. k \in DOMAIN segs /\ segs[k].param /\ segs[k].name = name
  BY <1>2 DEF Param
<1>. QED BY <1>3, <1>4

\* pathFromState(): the first route that holds, by its place.
LEMMA FirstHolds ==
  ASSUME NEW s, PathFromState(s) # NoUrl
  PROVE  \E r \in DOMAIN Routes : Holds(Routes[r], s) /\ PathFromState(s) = BuildPath(Routes[r], s)
<1>. DEFINE hits == {r \in DOMAIN Routes : Holds(Routes[r], s)}
            r0 == CHOOSE r \in hits : \A q \in hits : r <= q
<1>1. hits # {}
  BY DEF PathFromState, First
<1>2. hits \in SUBSET Nat
  BY PageAssumption
<1>3. Min(hits) \in hits /\ \A q \in hits : Min(hits) <= q
  <2>. HIDE DEF hits
  <2>. QED BY <1>1, <1>2, MinOf
<1>4. r0 \in hits
  <2>. HIDE DEF hits
  <2>. QED BY <1>3
<1>5. PathFromState(s) = IF r0 = 0 THEN NoUrl ELSE BuildPath(Routes[r0], s)
  BY <1>1 DEF PathFromState, First
<1>. HIDE DEF r0
<1>. QED BY <1>4, <1>5, RouteShape

\* match(): where no URL fits two routes, the one that fits.
LEMMA MatchIs ==
  ASSUME RoutesTell, NEW url \in AppUrls, NEW r \in DOMAIN Routes, Fits(Routes[r], url)
  PROVE  Match(url) = r
<1>1. {q \in DOMAIN Routes : Fits(Routes[q], url)} = {r}
  BY DEF RoutesTell
<1>2. Match(url) = CHOOSE q \in {r} : \A t \in {r} : q <= t
  BY <1>1 DEF Match, First
<1>3. r <= r
  BY RouteShape
<1>. QED BY <1>2, <1>3

LEMMA NoMatchIs ==
  ASSUME NEW url, Match(url) # 0
  PROVE  Match(url) \in DOMAIN Routes /\ Fits(Routes[Match(url)], url)
<1>. DEFINE hits == {r \in DOMAIN Routes : Fits(Routes[r], url)}
            r0 == CHOOSE r \in hits : \A q \in hits : r <= q
<1>1. hits # {} /\ Match(url) = r0
  BY DEF Match, First
<1>2. hits \in SUBSET Nat
  BY PageAssumption
<1>3. Min(hits) \in hits /\ \A q \in hits : Min(hits) <= q
  <2>. HIDE DEF hits
  <2>. QED BY <1>1, <1>2, MinOf
<1>4. r0 \in hits
  <2>. HIDE DEF hits
  <2>. QED BY <1>3
<1>. QED BY <1>1, <1>4

\* What a URL assigns are fields of routes, under RoutesTell once each.
LEMMA AssignsTargets ==
  ASSUME NEW url
  PROVE  /\ \A i \in DOMAIN Assignments(url) : Assignments(url)[i].path \in Targets
         /\ RoutesTell => \A i, j \in DOMAIN Assignments(url) :
                             Assignments(url)[i].path = Assignments(url)[j].path => i = j
<1>. DEFINE r == IF Match(url) = 0 THEN 1 ELSE Match(url)
<1>1. r \in DOMAIN Routes
  BY NoMatchIs, PageAssumption
<1>2. /\ DOMAIN Assignments(url) = DOMAIN Routes[r].sets
      /\ \A i \in DOMAIN Routes[r].sets : Assignments(url)[i].path = Routes[r].sets[i].field
  BY DEF Assignments
<1>. HIDE DEF r
<1>3. \A i \in DOMAIN Routes[r].sets : Routes[r].sets[i].field \in Targets
  BY <1>1, RouteShape
<1>4. RoutesTell => \A i, j \in DOMAIN Routes[r].sets :
          Routes[r].sets[i].field = Routes[r].sets[j].field => i = j
  BY <1>1 DEF RoutesTell
<1>. QED BY <1>2, <1>3, <1>4

\* The URL of a state depends on the fields of routes only.
LEMMA SameUrl ==
  ASSUME RoutesTell, NEW s, NEW t, \A f \in Targets : s[f] = t[f]
  PROVE  PathFromState(s) = PathFromState(t)
<1>1. ASSUME NEW r \in DOMAIN Routes PROVE Holds(Routes[r], s) <=> Holds(Routes[r], t)
  BY <1>1, RouteShape DEF Holds
<1>2. ASSUME NEW r \in DOMAIN Routes PROVE BuildPath(Routes[r], s) = BuildPath(Routes[r], t)
  <2>. DEFINE segs == Routes[r].segs
              sets == Routes[r].sets
              n(seg) == CHOOSE i \in DOMAIN sets : sets[i].param /\ sets[i].value = seg.name
              Built(st) == [k \in DOMAIN segs |->
                 IF ~segs[k].param THEN segs[k].name ELSE Encode[st[sets[n(segs[k])].field]]]
  <2>1. BuildPath(Routes[r], s) = Built(s) /\ BuildPath(Routes[r], t) = Built(t)
    BY DEF BuildPath
  <2>2. ASSUME NEW k \in DOMAIN segs, segs[k].param
        PROVE  s[sets[n(segs[k])].field] = t[sets[n(segs[k])].field]
    <3>1. \E j \in DOMAIN sets : sets[j].param /\ sets[j].value = segs[k].name
      <4>1. PICK j \in DOMAIN sets :
               {x \in DOMAIN sets : sets[x].param /\ sets[x].value = segs[k].name} = {j}
        BY <2>2 DEF RoutesTell
      <4>. QED BY <4>1
    <3>2. n(segs[k]) \in DOMAIN sets
      BY <3>1
    <3>. HIDE DEF n
    <3>. QED BY <1>2, <3>2, RouteShape
  <2>3. \A k \in DOMAIN segs : segs[k].param \in BOOLEAN
    BY RouteShape
  <2>. HIDE DEF n
  <2>4. Built(s) = Built(t)
    BY <2>2, <2>3
  <2>. QED BY <2>1, <2>4
<1>3. {r \in DOMAIN Routes : Holds(Routes[r], s)} = {r \in DOMAIN Routes : Holds(Routes[r], t)}
  BY <1>1
<1>. DEFINE hits == {r \in DOMAIN Routes : Holds(Routes[r], s)}
            r0 == IF hits = {} THEN 0 ELSE CHOOSE r \in hits : \A q \in hits : r <= q
<1>4. /\ PathFromState(s) = IF r0 = 0 THEN NoUrl ELSE BuildPath(Routes[r0], s)
      /\ PathFromState(t) = IF r0 = 0 THEN NoUrl ELSE BuildPath(Routes[r0], t)
  <2>. DEFINE hitsT == {r \in DOMAIN Routes : Holds(Routes[r], t)}
              rT == IF hitsT = {} THEN 0 ELSE CHOOSE r \in hitsT : \A q \in hitsT : r <= q
  <2>1. PathFromState(s) = IF r0 = 0 THEN NoUrl ELSE BuildPath(Routes[r0], s)
    BY DEF PathFromState, First
  <2>2. PathFromState(t) = IF rT = 0 THEN NoUrl ELSE BuildPath(Routes[rT], t)
    BY DEF PathFromState, First
  <2>3. rT = r0
    <3>1. hitsT = hits
      BY <1>3
    <3>. HIDE DEF hitsT, hits
    <3>. QED BY <3>1
  <2>. HIDE DEF rT, r0
  <2>. QED BY <2>1, <2>2, <2>3
<1>5. r0 # 0 => r0 \in DOMAIN Routes
  <2>1. hits \in SUBSET Nat /\ hits \subseteq DOMAIN Routes
    BY PageAssumption
  <2>. HIDE DEF hits
  <2>2. hits # {} => Min(hits) \in hits /\ \A q \in hits : Min(hits) <= q
    BY <2>1, MinOf
  <2>. QED BY <2>1, <2>2
<1>. HIDE DEF r0
<1>. QED BY <1>2, <1>4, <1>5

\* Applying the URL of a state, to that state, changes nothing.
LEMMA ReadsBack ==
  ASSUME RoutesTell, NEW s \in [Fields -> Values], PathFromState(s) # NoUrl
  PROVE  \A i \in DOMAIN Assignments(PathFromState(s)) :
            LET a == Assignments(PathFromState(s))[i] IN s[a.path] = a.value
<1>1. PICK r \in DOMAIN Routes : Holds(Routes[r], s) /\ PathFromState(s) = BuildPath(Routes[r], s)
  BY FirstHolds
<1>. DEFINE segs == Routes[r].segs
            sets == Routes[r].sets
<1>2. PICK url \in AppUrls : url = PathFromState(s)
  BY AppUrl
<1>3. /\ DOMAIN url = DOMAIN segs /\ Len(url) = Len(segs)
      /\ \A k \in DOMAIN segs : ~segs[k].param => url[k] = segs[k].name
      /\ \A k \in DOMAIN segs : \A i \in DOMAIN sets :
            segs[k].param /\ sets[i].param /\ sets[i].value = segs[k].name
              => url[k] = Encode[s[sets[i].field]]
  BY <1>1, <1>2, BuiltUrl
<1>4. Match(url) = r
  <2>1. Fits(Routes[r], url)
    BY <1>3, RouteShape DEF Fits
  <2>. QED BY <2>1, MatchIs
<1>5. /\ Assignments(url) \in Seq(Pairs) /\ DOMAIN Assignments(url) = DOMAIN sets
      /\ \A i \in DOMAIN sets :
            /\ Assignments(url)[i].path = sets[i].field
            /\ ~sets[i].param => Assignments(url)[i].value = sets[i].value
            /\ sets[i].param => Assignments(url)[i].value = ParamOf(Routes[r], url, sets[i].value)
  <2>1. r # 0 /\ \A i \in DOMAIN sets : sets[i].param \in BOOLEAN
    BY RouteShape
  <2>2. Assignments(url) = [i \in DOMAIN sets |->
            [path  |-> sets[i].field,
             value |-> IF ~sets[i].param THEN sets[i].value
                       ELSE ParamOf(Routes[r], url, sets[i].value)]]
    BY <1>4, <2>1 DEF Assignments
  <2>3. Assignments(url) \in Seq(Pairs)
    BY AppUrl
  <2>. HIDE DEF sets
  <2>. QED BY <2>1, <2>2, <2>3
<1>6. \A v, w \in Values : Encode[v] = Encode[w] => v = w
  <2>1. \A v \in Values \ {Blank} : Coerce[Encode[v]] = v /\ Encode[v] # Encode[Blank]
    BY DEF RoutesTell
  <2>2. ASSUME NEW v \in Values, NEW w \in Values, Encode[v] = Encode[w] PROVE v = w
    <3>1. CASE v = Blank
      BY <2>1, <2>2, <3>1
    <3>2. CASE v # Blank
      BY <2>1, <2>2, <3>2
    <3>. QED BY <3>1, <3>2
  <2>. QED BY <2>2
<1>7. ASSUME NEW i \in DOMAIN sets PROVE s[sets[i].field] = Assignments(url)[i].value
  <2>1. Assignments(url)[i].value \in Values /\ s[sets[i].field] \in Values
    <3>1. sets[i].field \in Fields
      BY <1>7, RouteShape
    <3>2. i \in DOMAIN Assignments(url)
      BY <1>5, <1>7
    <3>3. Assignments(url) \in Seq(Pairs)
      BY <1>5
    <3>. QED BY <3>1, <3>2, <3>3, PairFields
  <2>2. CASE ~sets[i].param
    <3>1. Assignments(url)[i].value = sets[i].value
      BY <1>5, <1>7, <2>2
    <3>2. Encode[s[sets[i].field]] = Encode[sets[i].value]
      BY <1>1, <1>7, <2>2 DEF Holds
    <3>. QED BY <1>6, <2>1, <3>1, <3>2
  <2>3. CASE sets[i].param
    <3>1. PICK k \in DOMAIN segs : /\ segs[k].param /\ segs[k].name = sets[i].value
                                   /\ ParamOf(Routes[r], url, sets[i].value) = Coerce[url[k]]
      BY <1>3, <1>7, <2>3, ParamIs
    <3>2. url[k] = Encode[s[sets[i].field]]
      BY <1>3, <1>7, <2>3, <3>1
    <3>3. Assignments(url)[i].value = Coerce[url[k]]
      BY <1>5, <1>7, <2>3, <3>1
    <3>4. s[sets[i].field] # Blank
      BY <1>1, <1>7, <2>3 DEF Holds
    <3>5. Coerce[Encode[s[sets[i].field]]] = s[sets[i].field]
      BY <2>1, <3>4 DEF RoutesTell
    <3>. QED BY <3>2, <3>3, <3>5
  <2>4. sets[i].param \in BOOLEAN
    BY RouteShape
  <2>. QED BY <2>2, <2>3, <2>4
<1>8. \A i \in DOMAIN Assignments(url) : s[Assignments(url)[i].path] = Assignments(url)[i].value
  BY <1>5, <1>7
<1>. QED BY <1>2, <1>8

\* The URL an unmatched one is corrected to assigns the same.
LEMMA CorrectedAlike ==
  ASSUME RoutesTell, NEW url \in AppUrls
  PROVE  Assignments(Corrected(url)) = Assignments(url)
<1>1. CASE Corrected(url) = url
  BY <1>1
<1>2. CASE Match(url) = 0 /\ ~HasParams(Routes[1])
           /\ Corrected(url) = [i \in DOMAIN Routes[1].segs |-> Routes[1].segs[i].name]
  <2>. DEFINE home == Corrected(url)
  <2>1. 1 \in DOMAIN Routes /\ home \in AppUrls
    BY PageAssumption, AppUrl
  <2>2. Fits(Routes[1], home)
    <3>1. Len(Routes[1].segs) \in Nat /\ DOMAIN Routes[1].segs = 1..Len(Routes[1].segs)
      BY <2>1, RouteShape
    <3>2. DOMAIN home = DOMAIN Routes[1].segs /\ Len(home) = Len(Routes[1].segs)
          /\ \A i \in DOMAIN home : home[i] = Routes[1].segs[i].name
      BY <1>2, <3>1
    <3>. HIDE DEF home
    <3>. QED BY <3>2 DEF Fits
  <2>3. Match(home) = 1
    <3>. HIDE DEF home
    <3>. QED BY <2>1, <2>2, MatchIs
  <2>4. \A i \in DOMAIN Routes[1].sets : ~Routes[1].sets[i].param
    <3>1. \A k \in DOMAIN Routes[1].segs : ~Routes[1].segs[k].param
      BY <1>2 DEF HasParams
    <3>. QED BY <2>1, <3>1, RouteShape
  <2>. HIDE DEF home
  <2>5. Assignments(home) = Assignments(url)
    BY <1>2, <2>3, <2>4 DEF Assignments
  <2>. QED BY <2>5 DEF home
<1>. QED BY <1>1, <1>2 DEF Corrected

-----------------------------------------------------------------------------
(* The history tells the selection.                                        *)

\* Applying url to s, but for what of it is left to apply, changes nothing.
Alike(s, url, left) ==
  \A i \in DOMAIN Assignments(url) :
    LET a == Assignments(url)[i]
    IN  s[a.path] = a.value \/ \E j \in DOMAIN left : left[j] = a

\* Unless the outward watcher is still to fire, or no route tells the state.
Told(s, q, url, left) ==
  Waiting(q, SyncUrl) \/ PathFromState(s) = NoUrl \/ Alike(s, url, left)

\* An assignment still to apply, and an outward watcher still to fire, are each
\* worth an entry.
Owed == IF Waiting(pending, SyncUrl) THEN 1 ELSE 0
Budget == IF move \in {"boot", "pop"} THEN 0 ELSE 1

UrlInv ==
  /\ torn \/ Told(store, pending, Location, toApply)
  /\ pushes + Owed + Len(toApply) <= Budget + planned
  /\ OnceEach(pending)

HInv == IInv /\ UrlInv

\* Writes that leave the fields of routes as they were, or wake the watcher.
LEMMA ToldStays ==
  ASSUME RoutesTell, NEW s, NEW q, NEW url, NEW left, Told(s, q, url, left),
         NEW t, NEW p, Waiting(q, SyncUrl) => Waiting(p, SyncUrl),
         Waiting(p, SyncUrl) \/ \A f \in Targets : t[f] = s[f]
  PROVE  Told(t, p, url, left)
<1>. SUFFICES ASSUME ~Waiting(p, SyncUrl) PROVE Told(t, p, url, left)
  BY DEF Told
<1>1. \A f \in Targets : s[f] = t[f]
  OBVIOUS
<1>2. PathFromState(s) = PathFromState(t)
  BY <1>1, SameUrl
<1>3. Alike(s, url, left) => Alike(t, url, left)
  BY <1>1, AssignsTargets DEF Alike
<1>. QED BY <1>2, <1>3 DEF Told

\* What opens wakes the watcher or leaves the fields of routes alone.
LEMMA OpenTells ==
  ASSUME IInv, NEW writes \in Seq(Writes), Open(writes)
  PROVE  /\ OnceEach(pending') /\ pending = <<>> /\ torn' = torn
         /\ Waiting(pending', SyncUrl) \/ \A f \in Targets : store'[f] = store[f]
<1>. DEFINE quiet == [store |-> store, pending |-> <<>>, local |-> {}]
            after == PutAll(quiet, writes)
<1>1. /\ quiet \in States /\ quiet.store = store /\ quiet.pending = <<>>
      /\ pending = <<>>
  BY DEF IInv, CascadeInv, CascadeTypes, Delivered, States, Open
<1>2. store' = after.store /\ pending' = after.pending /\ torn' = torn
  BY DEF Open
<1>3. OnceEach(quiet.pending)
  BY <1>1 DEF OnceEach
<1>. HIDE DEF quiet
<1>4. /\ OnceEach(after.pending)
      /\ Waiting(after.pending, SyncUrl) \/ \A f \in Targets : after.store[f] = quiet.store[f]
  BY <1>1, <1>3, PutAllTells
<1>. HIDE DEF after
<1>. QED BY <1>1, <1>2, <1>4

\* An assignment that is not absorbed wakes the watcher.
LEMMA ApplyWakes ==
  ASSUME IInv, NEW w \in Writes, w.path \in Targets, Open(<<w>>)
  PROVE  Waiting(pending', SyncUrl)
<1>. DEFINE quiet == [store |-> store, pending |-> <<>>, local |-> {}]
            writes == <<w>>
<1>1. quiet \in States /\ quiet.store = store /\ quiet.pending = <<>> /\ OnceEach(quiet.pending)
  BY DEF IInv, CascadeInv, CascadeTypes, States, OnceEach
<1>2. PutAll(quiet, writes) = Put(quiet, w)
  <2>1. 1 = Len(writes) /\ writes[1] = w
    OBVIOUS
  <2>. HIDE DEF quiet, writes
  <2>. DEFINE N == 1
  <2>2. N \in Nat /\ N = Len(writes) /\ N - 1 = 0 /\ N \in 1..N
    BY <2>1
  <2>. HIDE DEF N
  <2>3. PICK g : PutRun(g, quiet, writes, N)
    BY <2>2, PutAllUnrolls
  <2>4. g[0] = quiet /\ PutAll(quiet, writes) = g[N] /\ g[N] = Put(g[N - 1], writes[N])
    BY <2>2, <2>3 DEF PutRun
  <2>. QED BY <2>1, <2>2, <2>4 DEF N
<1>3. PutAll(quiet, writes) # quiet /\ pending' = PutAll(quiet, writes).pending
  BY DEF Open
<1>. HIDE DEF writes, quiet
<1>4. quiet.store[w.path] # w.value
  BY <1>2, <1>3 DEF Put
<1>5. Waiting(Put(quiet, w).pending, SyncUrl)
  BY <1>1, <1>4, PutTells
<1>. QED BY <1>2, <1>3, <1>5

\* A body runs on the queue without its own entry.
LEMMA BodyTells ==
  ASSUME IInv, OnceEach(pending), NEW w \in Watchers, AtHead(w), RunBody(w)
  PROVE  /\ OnceEach(pending') /\ torn' = torn
         /\ Waiting(pending, SyncUrl) /\ w # SyncUrl => Waiting(pending', SyncUrl)
         /\ Waiting(pending', SyncUrl) \/ \A f \in Targets : store'[f] = store[f]
         /\ w = SyncUrl => Waiting(pending, SyncUrl)
         /\ BodiesLeaveRoutes /\ Waiting(pending', SyncUrl) => Waiting(pending, SyncUrl) /\ w # SyncUrl
<1>. DEFINE c == Head(pending).change
            rest == Tail(pending)
            quiet == [store |-> store, pending |-> rest, local |-> local]
            writes == Body(w, c, store)
            after == PutAll(quiet, writes)
<1>0. CascadeTypes /\ pending # <<>> /\ Head(pending).watcher = w /\ Timely(Now) /\ Now.pending = pending
  BY NowIs DEF IInv, CascadeInv, AtHead
<1>1. /\ DOMAIN pending = 1..Len(pending) /\ Len(pending) \in Nat \ {0}
      /\ pending[1].change = c /\ pending[1].watcher = w /\ pending[1] \in Entries
      /\ rest \in Seq(Entries) /\ DOMAIN rest = 1..(Len(pending) - 1)
      /\ \A i \in 1..(Len(pending) - 1) : rest[i] = pending[i + 1]
  BY <1>0, DropHead DEF CascadeTypes
<1>2. c \in Changes(w)
  <2>1. 1 \in DOMAIN pending
    BY <1>1
  <2>. QED BY <1>0, <1>1, <2>1 DEF Entries, Changes, Timely
<1>3. writes \in Seq(Writes)
  BY <1>0, <1>2, EngineAssumption DEF CascadeTypes
<1>4. quiet \in States /\ quiet.store = store /\ quiet.pending = rest
  BY <1>0, <1>1 DEF CascadeTypes, States
<1>5. store' = after.store /\ pending' = after.pending /\ torn' = torn
  BY DEF RunBody
<1>. HIDE DEF quiet, rest
<1>6. OnceEach(rest) /\ ~Waiting(rest, w)
  <2>1. ASSUME NEW i \in DOMAIN rest PROVE i + 1 \in DOMAIN pending /\ i + 1 # 1 /\ rest[i] = pending[i + 1] /\ i \in Nat
    BY <1>1
  <2>2. 1 \in DOMAIN pending
    BY <1>1
  <2>3. ~Waiting(rest, w)
    BY <1>1, <2>1, <2>2 DEF Waiting, OnceEach
  <2>4. ASSUME NEW i \in DOMAIN rest, NEW j \in DOMAIN rest, rest[i].watcher = rest[j].watcher
        PROVE  i = j
    <3>1. i + 1 = j + 1
      BY <2>1, <2>4 DEF OnceEach
    <3>. QED BY <2>1, <3>1
  <2>. QED BY <2>3, <2>4 DEF OnceEach
<1>7. \A x : Waiting(pending, x) <=> x = w \/ Waiting(rest, x)
  <2>1. ASSUME NEW x, Waiting(pending, x), x # w PROVE Waiting(rest, x)
    <3>1. PICK i \in 1..Len(pending) : pending[i].watcher = x
      BY <1>1, <2>1 DEF Waiting
    <3>2. i - 1 \in 1..(Len(pending) - 1) /\ pending[i] = pending[(i - 1) + 1]
      BY <1>1, <2>1, <3>1
    <3>3. rest[i - 1].watcher = x
      BY <1>1, <3>1, <3>2
    <3>. QED BY <1>1, <3>2, <3>3 DEF Waiting
  <2>2. ASSUME NEW x, Waiting(rest, x) PROVE Waiting(pending, x)
    <3>1. PICK i \in DOMAIN rest : rest[i].watcher = x
      BY <2>2 DEF Waiting
    <3>2. i + 1 \in DOMAIN pending /\ pending[i + 1].watcher = x
      BY <1>1, <3>1
    <3>. QED BY <3>2 DEF Waiting
  <2>3. Waiting(pending, w)
    <3>1. 1 \in DOMAIN pending
      BY <1>1
    <3>. QED BY <1>1, <3>1 DEF Waiting
  <2>. QED BY <2>1, <2>2, <2>3
<1>8. BodiesLeaveRoutes => \A i \in DOMAIN writes : writes[i].path \notin Targets
  BY <1>0, <1>2 DEF BodiesLeaveRoutes, CascadeTypes
<1>. HIDE DEF writes, c
<1>9. /\ OnceEach(after.pending)
      /\ Waiting(rest, SyncUrl) => Waiting(after.pending, SyncUrl)
      /\ Waiting(after.pending, SyncUrl) \/ \A f \in Targets : after.store[f] = store[f]
      /\ BodiesLeaveRoutes => (Waiting(after.pending, SyncUrl) => Waiting(rest, SyncUrl))
  BY <1>3, <1>4, <1>6, <1>8, PutAllTells
<1>. HIDE DEF after
<1>. QED BY <1>5, <1>6, <1>7, <1>9

\* The outward watcher leaves the page on the URL of its state.
LEMMA SyncTells ==
  ASSUME RoutesTell, IInv, FireWatcher(SyncUrl)
  PROVE  /\ PathFromState(store) = NoUrl \/ Alike(store, Location', toApply)
         /\ pushes' \in {pushes, pushes + 1}
<1>. DEFINE url == PathFromState(store)
<1>1. BrowserTypes /\ store \in [Fields -> Values]
  BY DEF IInv, CascadeInv, CascadeTypes
<1>2. url # NoUrl => url \in AppUrls /\ Alike(store, url, toApply)
  BY <1>1, AppUrl, ReadsBack DEF Alike
<1>3. CASE url \notin {NoUrl, Location}
  <2>1. entries' = Append(SubSeq(entries, 1, at), url) /\ at' = at + 1 /\ pushes' = pushes + 1
    BY <1>3 DEF FireWatcher, PushState
  <2>2. Location' = url
    <3>1. at \in 1..Len(entries) /\ entries \in Seq(AppUrls)
      BY <1>1 DEF BrowserTypes
    <3>2. SubSeq(entries, 1, at) \in Seq(AppUrls) /\ Len(SubSeq(entries, 1, at)) = at
      BY <3>1, SubSeqProperties
    <3>. HIDE DEF url
    <3>. QED BY <1>2, <1>3, <2>1, <3>2, Push DEF Location
  <2>. QED BY <1>2, <1>3, <2>1, <2>2
<1>4. CASE url \in {NoUrl, Location}
  <2>1. entries' = entries /\ at' = at /\ pushes' = pushes
    BY <1>4 DEF FireWatcher
  <2>2. Location' = Location
    BY <2>1 DEF Location
  <2>. QED BY <1>2, <1>4, <2>1, <2>2
<1>. QED BY <1>3, <1>4

LEMMA InitTells ==
  ASSUME RoutesTell, Init
  PROVE  UrlInv
<1>1. PICK url \in Urls :
        /\ store = [f \in Fields |->
              LET given == {i \in DOMAIN Assignments(url) : Assignments(url)[i].path = f}
              IN  IF given = {} THEN Mounted[f]
                  ELSE Assignments(url)[CHOOSE i \in given : TRUE].value]
        /\ entries = <<Corrected(url)>> /\ at = 1 /\ toApply = <<>>
        /\ pending = <<>> /\ move = "boot" /\ pushes = 0 /\ planned = 0
  BY DEF Init, CascadeInit
<1>. DEFINE A == Assignments(url)
<1>2. A \in Seq(Pairs) /\ Assignments(Location) = A
  <2>1. Location = Corrected(url)
    BY <1>1 DEF Location
  <2>. QED BY <2>1, AppUrl, CorrectedAlike
<1>3. ASSUME NEW i \in DOMAIN A PROVE store[A[i].path] = A[i].value
  <2>1. A[i].path \in Fields
    BY <1>2, PairFields
  <2>2. \A j \in DOMAIN A : A[j].path = A[i].path => j = i
    BY AssignsTargets
  <2>3. {j \in DOMAIN A : A[j].path = A[i].path} = {i}
    BY <2>2
  <2>4. (CHOOSE j \in {i} : TRUE) = i
    OBVIOUS
  <2>5. store[A[i].path] = A[CHOOSE j \in {i} : TRUE].value
    <3>. HIDE DEF A
    <3>. USE DEF A
    <3>. QED BY <1>1, <2>1, <2>3
  <2>. QED BY <2>4, <2>5
<1>4. Told(store, pending, Location, toApply)
  BY <1>2, <1>3 DEF Told, Alike
<1>5. OnceEach(pending) /\ Owed = 0 /\ Budget = 0 /\ Len(toApply) = 0
  BY <1>1 DEF OnceEach, Owed, Waiting, Budget
<1>. QED BY <1>1, <1>4, <1>5 DEF UrlInv

\* A cascade that opens for one event.
LEMMA OpensFresh ==
  ASSUME RoutesTell, HInv, NEW writes \in Seq(Writes), Open(writes), AtRest,
         move' = "input", pushes' = 0, planned' = 0, UNCHANGED <<entries, at, toApply>>
  PROVE  UrlInv'
<1>1. /\ OnceEach(pending') /\ pending = <<>> /\ torn' = torn
      /\ Waiting(pending', SyncUrl) \/ \A f \in Targets : store'[f] = store[f]
  BY OpenTells DEF HInv
<1>2. torn' \/ Told(store', pending', Location, toApply)
  <2>1. Waiting(pending, SyncUrl) => Waiting(pending', SyncUrl)
    BY <1>1 DEF Waiting
  <2>. QED BY <1>1, <2>1, ToldStays DEF HInv, UrlInv
<1>3. Location' = Location /\ toApply' = toApply
  BY DEF Location
<1>4. torn' \/ Told(store', pending', Location', toApply')
  BY <1>2, <1>3
<1>5. Len(toApply') = 0 /\ Budget' = 1 /\ (Owed' = 0 \/ Owed' = 1)
  BY DEF AtRest, Budget, Owed
<1>6. pushes' = 0 /\ planned' = 0
  OBVIOUS
<1>7. pushes' + Owed' + Len(toApply') <= Budget' + planned'
  BY <1>5, <1>6
<1>. QED BY <1>1, <1>4, <1>7 DEF UrlInv

\* A URL that is shown and is about to be applied.
LEMMA StartsApplying ==
  ASSUME RoutesTell, HInv, NEW url \in AppUrls, AtRest, UNCHANGED cascadeVars,
         Location' = Corrected(url), toApply' = Assignments(url), planned' = Len(toApply'),
         pushes' <= Budget', pushes' \in Nat
  PROVE  UrlInv'
<1>1. Alike(store', Location', toApply')
  BY CorrectedAlike DEF Alike
<1>2. pending' = pending /\ pending = <<>> /\ Len(toApply') \in Nat
  BY AppUrl DEF cascadeVars, AtRest, HInv, IInv, CascadeInv, Delivered
<1>3. Owed' = 0 /\ Budget' \in {0, 1}
  BY <1>2 DEF Owed, Waiting, Budget
<1>4. pushes' + Owed' + Len(toApply') <= Budget' + planned'
  BY <1>2, <1>3
<1>5. Told(store', pending', Location', toApply') /\ OnceEach(pending')
  BY <1>1, <1>2 DEF Told, OnceEach
<1>. QED BY <1>4, <1>5 DEF UrlInv

LEMMA ApplyKeepsUrl ==
  ASSUME RoutesTell, HInv, ApplyNext
  PROVE  UrlInv'
<1>. DEFINE a == Head(toApply)
            w == [path |-> a.path, value |-> a.value, origin |-> "system"]
            left == Tail(toApply)
<1>0. /\ IInv /\ UrlInv /\ pending = <<>> /\ toApply \in Seq(Pairs) /\ toApply # <<>>
      /\ pushes \in Nat /\ planned \in Nat
  BY DEF HInv, IInv, CascadeInv, Delivered, BrowserTypes, ApplyNext
<1>1. /\ Len(toApply) \in Nat \ {0} /\ toApply[1] = a /\ a \in Pairs
      /\ left \in Seq(Pairs) /\ Len(left) = Len(toApply) - 1
      /\ \A i \in 1..(Len(toApply) - 1) : left[i] = toApply[i + 1]
  BY <1>0, DropHead
<1>2. a.path \in Fields /\ a.value \in Values /\ w \in Writes /\ w.path = a.path /\ w.value = a.value
  <2>1. a.path \in Fields /\ a.value \in Values
    BY <1>1 DEF Pairs
  <2>. HIDE DEF a
  <2>. QED BY <2>1 DEF Writes, Origins
<1>3. /\ IF store[a.path] = a.value THEN UNCHANGED cascadeVars ELSE Open(<<w>>)
      /\ toApply' = left /\ Location' = Location
      /\ pushes' = pushes /\ planned' = planned /\ Budget' = Budget
  BY DEF ApplyNext, Location, Budget
<1>4. ASSUME NEW b, \E j \in DOMAIN toApply : toApply[j] = b
      PROVE  b = a \/ \E j \in DOMAIN left : left[j] = b
  <2>1. PICK j \in 1..Len(toApply) : toApply[j] = b
    BY <1>0, <1>4
  <2>2. CASE j = 1
    BY <1>1, <2>1, <2>2
  <2>3. CASE j # 1
    <3>1. j - 1 \in 1..(Len(toApply) - 1) /\ toApply[j] = toApply[(j - 1) + 1]
      BY <1>1, <2>1, <2>3
    <3>2. left[j - 1] = b /\ j - 1 \in DOMAIN left
      BY <1>1, <2>1, <3>1
    <3>. QED BY <3>2
  <2>. QED BY <2>2, <2>3
<1>5. torn \/ PathFromState(store) = NoUrl \/ Alike(store, Location, toApply)
  BY <1>0 DEF UrlInv, Told, Waiting
<1>6. pushes + Len(toApply) <= Budget + planned /\ Budget \in {0, 1}
  BY <1>0, <1>1 DEF UrlInv, Owed, Waiting, Budget
<1>. HIDE DEF left, w, a
<1>7. OnceEach(pending') /\ Owed' \in {0, 1} /\ torn' = torn
  <2>1. CASE UNCHANGED cascadeVars
    BY <1>0, <2>1 DEF cascadeVars, UrlInv, Owed
  <2>2. CASE Open(<<w>>)
    <3>1. <<w>> \in Seq(Writes)
      BY <1>2
    <3>. QED BY <1>0, <2>2, <3>1, OpenTells DEF Owed
  <2>. QED BY <1>3, <2>1, <2>2
<1>8. Told(store', pending', Location, left) \/ torn
  <2>1. CASE store[a.path] = a.value
    <3>1. Alike(store, Location, toApply) => Alike(store, Location, left)
      BY <1>4, <2>1 DEF Alike
    <3>2. store' = store
      BY <1>3, <2>1 DEF cascadeVars
    <3>. QED BY <1>5, <3>1, <3>2 DEF Told
  <2>2. CASE store[a.path] # a.value
    <3>1. Open(<<w>>) /\ <<w>> \in Seq(Writes)
      BY <1>2, <1>3, <2>2
    <3>2. Waiting(pending', SyncUrl) \/ \A f \in Targets : store'[f] = store[f]
      BY <1>0, <3>1, OpenTells
    <3>3. CASE a.path \in Targets
      BY <1>0, <1>2, <3>1, <3>3, ApplyWakes DEF Told
    <3>4. CASE a.path \notin Targets
      <4>1. Alike(store, Location, toApply) => Alike(store, Location, left)
        BY <1>4, <3>4, AssignsTargets DEF Alike
      <4>2. Told(store, <<>>, Location, left) \/ torn
        BY <1>5, <4>1 DEF Told
      <4>3. ~Waiting(<<>>, SyncUrl)
        BY DEF Waiting
      <4>. QED BY <3>2, <4>2, <4>3, ToldStays
    <3>. QED BY <3>3, <3>4
  <2>. QED BY <2>1, <2>2
<1>9. pushes' + Owed' + Len(toApply') <= Budget' + planned'
  BY <1>0, <1>1, <1>3, <1>6, <1>7
<1>. QED BY <1>3, <1>7, <1>8, <1>9 DEF UrlInv

LEMMA FireKeepsUrl ==
  ASSUME RoutesTell, BodiesLeaveRoutes, HInv, NEW w \in Watchers, FireWatcher(w)
  PROVE  UrlInv'
<1>0. /\ IInv /\ UrlInv /\ AtHead(w) /\ RunBody(w) /\ OnceEach(pending)
      /\ pushes \in Nat /\ planned \in Nat /\ Len(toApply) \in Nat /\ Budget \in {0, 1}
      /\ toApply' = toApply /\ planned' = planned /\ Budget' = Budget
  BY DEF HInv, IInv, UrlInv, BrowserTypes, FireWatcher, Fire, Budget
<1>1. /\ OnceEach(pending') /\ torn' = torn
      /\ Waiting(pending, SyncUrl) /\ w # SyncUrl => Waiting(pending', SyncUrl)
      /\ Waiting(pending', SyncUrl) \/ \A f \in Targets : store'[f] = store[f]
      /\ w = SyncUrl => Waiting(pending, SyncUrl)
      /\ Waiting(pending', SyncUrl) => Waiting(pending, SyncUrl) /\ w # SyncUrl
  BY <1>0, BodyTells
<1>2. pushes + Owed + Len(toApply) <= Budget + planned
  BY <1>0 DEF UrlInv
<1>3. CASE w = SyncUrl
  <2>1. /\ PathFromState(store) = NoUrl \/ Alike(store, Location', toApply)
        /\ pushes' \in {pushes, pushes + 1}
    BY <1>0, <1>3, SyncTells
  <2>2. Told(store, <<>>, Location', toApply)
    BY <2>1 DEF Told
  <2>3. ~Waiting(<<>>, SyncUrl)
    BY DEF Waiting
  <2>4. Told(store', pending', Location', toApply)
    BY <1>1, <2>2, <2>3, ToldStays
  <2>5. Owed = 1 /\ Owed' = 0
    BY <1>1, <1>3 DEF Owed
  <2>6. pushes' + Owed' + Len(toApply') <= Budget' + planned'
    BY <1>0, <1>2, <2>1, <2>5
  <2>. QED BY <1>0, <1>1, <2>4, <2>6 DEF UrlInv
<1>4. CASE w # SyncUrl
  <2>1. Location' = Location /\ pushes' = pushes
    BY <1>4 DEF FireWatcher, Location
  <2>2. torn \/ Told(store', pending', Location, toApply)
    BY <1>0, <1>1, <1>4, ToldStays DEF UrlInv
  <2>3. Owed' \in Nat /\ Owed \in Nat /\ Owed' <= Owed
    BY <1>1 DEF Owed
  <2>4. pushes' + Owed' + Len(toApply') <= Budget' + planned'
    BY <1>0, <1>2, <2>1, <2>3
  <2>. QED BY <1>0, <1>1, <2>1, <2>2, <2>4 DEF UrlInv
<1>. QED BY <1>3, <1>4

\* A cascade that aborts, one that settles, and a step that changes nothing.
LEMMA EndKeepsUrl ==
  ASSUME HInv, (\E w \in Watchers : AbortCascade(w)) \/ SettleCascade \/ UNCHANGED vars
  PROVE  UrlInv'
<1>0. /\ UrlInv /\ pushes \in Nat /\ planned \in Nat /\ Len(toApply) \in Nat /\ Budget \in {0, 1}
      /\ Owed \in {0, 1}
  BY DEF HInv, IInv, BrowserTypes, Budget, Owed
<1>1. ASSUME NEW w \in Watchers, AbortCascade(w) PROVE UrlInv'
  <2>1. /\ pending' = <<>> /\ torn' /\ toApply' = <<>>
        /\ pushes' = pushes /\ planned' = planned /\ Budget' = Budget
    BY <1>1 DEF AbortCascade, Abort, Budget
  <2>2. Owed' = 0 /\ Len(toApply') = 0 /\ OnceEach(pending')
    BY <2>1 DEF Owed, Waiting, OnceEach
  <2>3. pushes' + Owed' + Len(toApply') <= Budget' + planned'
    BY <1>0, <2>1, <2>2 DEF UrlInv
  <2>. QED BY <2>1, <2>2, <2>3 DEF UrlInv
<1>2. ASSUME SettleCascade \/ UNCHANGED vars PROVE UrlInv'
  <2>1. /\ pending' = pending /\ torn' = torn /\ store' = store /\ toApply' = toApply
        /\ entries' = entries /\ at' = at
        /\ pushes' = pushes /\ planned' = planned /\ move' = move
    BY <1>2 DEF SettleCascade, Settle, vars, browserVars, cascadeVars
  <2>2. Location' = Location /\ Owed' = Owed /\ Budget' = Budget
    BY <2>1 DEF Location, Owed, Budget
  <2>. QED BY <1>0, <2>1, <2>2 DEF UrlInv
<1>. QED BY <1>1, <1>2

LEMMA NextKeepsUrl ==
  ASSUME RoutesTell, BodiesLeaveRoutes
  PROVE  HInv /\ [Next]_vars => HInv'
<1>. SUFFICES ASSUME HInv, [Next]_vars PROVE UrlInv'
  BY NextKeepsInv DEF HInv
<1>0. /\ BrowserTypes /\ entries \in Seq(AppUrls) /\ at \in 1..Len(entries)
      /\ Len(entries) \in Nat /\ DOMAIN entries = 1..Len(entries)
  BY DEF HInv, IInv, BrowserTypes
<1>1. ASSUME NEW f \in WrittenFields, NEW v \in Contents,
             Input(f, v) \/ \E o \in {"server", "replay", "system"} : OtherWrite(f, v, o)
      PROVE  UrlInv'
  <2>1. PICK o \in Origins : Open(<<[path |-> f, value |-> v, origin |-> o]>>)
    BY <1>1 DEF Input, OtherWrite, Origins
  <2>. DEFINE writes == <<[path |-> f, value |-> v, origin |-> o]>>
  <2>2. writes \in Seq(Writes)
    BY PageAssumption DEF Writes
  <2>3. Open(writes)
    BY <2>1
  <2>4. /\ AtRest /\ move' = "input" /\ pushes' = 0 /\ planned' = 0
        /\ UNCHANGED <<entries, at, toApply>>
    BY <1>1 DEF Input, OtherWrite, Begins
  <2>. HIDE DEF writes
  <2>. QED BY <2>2, <2>3, <2>4, OpensFresh
<1>2. ASSUME NEW press \in Presses, FieldSet(press) PROVE UrlInv'
  <2>. DEFINE writes == [i \in DOMAIN press |->
                [path |-> press[i].path, value |-> press[i].value, origin |-> "user"]]
  <2>1. writes \in Seq(Writes)
    <3>1. press \in Seq(Pairs)
      BY PageAssumption DEF Pairs
    <3>2. DOMAIN press = 1..Len(press) /\ Len(press) \in Nat
          /\ \A i \in DOMAIN press : press[i].path \in Fields /\ press[i].value \in Values
      BY <3>1, PairFields
    <3>3. \A i \in DOMAIN press : writes[i] \in Writes
      BY <3>2 DEF Writes, Origins
    <3>4. writes \in [1..Len(press) -> Writes]
      BY <3>2, <3>3
    <3>. QED BY <3>2, <3>3, <3>4
  <2>2. Open(writes)
    BY <1>2 DEF FieldSet
  <2>3. /\ AtRest /\ move' = "input" /\ pushes' = 0 /\ planned' = 0
        /\ UNCHANGED <<entries, at, toApply>>
    BY <1>2 DEF FieldSet, Begins
  <2>. HIDE DEF writes
  <2>. QED BY <2>1, <2>2, <2>3, OpensFresh
<1>3. ASSUME NEW url \in Urls, Navigate(url) PROVE UrlInv'
  <2>1. url \in AppUrls /\ Corrected(url) \in AppUrls
    BY AppUrl
  <2>2. /\ AtRest /\ UNCHANGED cascadeVars /\ toApply' = Assignments(url)
        /\ planned' = Len(toApply') /\ pushes' \in {0, 1} /\ Budget' = 1
    BY <1>3 DEF Navigate, Begins, Budget
  <2>3. Location' = Corrected(url)
    <3>1. CASE url = Location
      <4>1. entries' = [entries EXCEPT ![at] = Corrected(url)] /\ at' = at
        BY <1>3, <3>1 DEF Navigate
      <4>. QED BY <1>0, <4>1 DEF Location
    <3>2. CASE url # Location
      <4>1. entries' = Append(SubSeq(entries, 1, at), Corrected(url)) /\ at' = at + 1
        BY <1>3, <3>2 DEF Navigate
      <4>2. SubSeq(entries, 1, at) \in Seq(AppUrls) /\ Len(SubSeq(entries, 1, at)) = at
        BY <1>0, SubSeqProperties
      <4>. QED BY <2>1, <4>1, <4>2, Push DEF Location
    <3>. QED BY <3>1, <3>2
  <2>4. pushes' <= Budget' /\ pushes' \in Nat
    BY <2>2
  <2>. QED BY <2>1, <2>2, <2>3, <2>4, StartsApplying
<1>4. ASSUME NEW to \in DOMAIN entries, PopState(to) PROVE UrlInv'
  <2>1. entries[to] \in AppUrls
    BY <1>0, ElementOfSeq
  <2>2. /\ AtRest /\ UNCHANGED cascadeVars /\ toApply' = Assignments(entries[to])
        /\ planned' = Len(toApply') /\ pushes' = 0 /\ Budget' = 0
        /\ entries' = [entries EXCEPT ![to] = Corrected(@)] /\ at' = to
    BY <1>4 DEF PopState, Begins, Budget
  <2>3. Location' = Corrected(entries[to])
    BY <1>0, <2>2 DEF Location
  <2>4. pushes' <= Budget' /\ pushes' \in Nat
    BY <2>2
  <2>. QED BY <2>1, <2>2, <2>3, <2>4, StartsApplying
<1>5. ASSUME NEW w \in Watchers, FireWatcher(w) PROVE UrlInv'
  BY <1>5, FireKeepsUrl
<1>6. ASSUME ApplyNext PROVE UrlInv'
  BY <1>6, ApplyKeepsUrl
<1>7. ASSUME (\E w \in Watchers : AbortCascade(w)) \/ SettleCascade \/ UNCHANGED vars PROVE UrlInv'
  BY <1>7, EndKeepsUrl
<1>. QED BY <1>1, <1>2, <1>3, <1>4, <1>5, <1>6, <1>7 DEF Next, Running

LEMMA InvTells == HInv => HistoryTells
<1>. SUFFICES ASSUME HInv PROVE HistoryTells
  OBVIOUS
<1>1. /\ UrlInv /\ pushes \in Nat /\ planned \in Nat /\ Len(toApply) \in Nat
      /\ Budget \in {0, 1} /\ Owed \in {0, 1}
  BY DEF HInv, IInv, BrowserTypes, Budget, Owed
<1>2. pushes <= Budget + planned - Len(toApply)
  BY <1>1 DEF UrlInv
<1>3. ASSUME AtRest, ~torn, PathFromState(store) # NoUrl, NEW i \in DOMAIN Assignments(Location)
      PROVE  store[Assignments(Location)[i].path] = Assignments(Location)[i].value
  <2>1. pending = <<>> /\ toApply = <<>>
    BY <1>3 DEF HInv, IInv, CascadeInv, Delivered, AtRest
  <2>2. Alike(store, Location, <<>>)
    BY <1>1, <1>3, <2>1 DEF UrlInv, Told, Waiting
  <2>. QED BY <2>2 DEF Alike
<1>. QED BY <1>2, <1>3 DEF HistoryTells, Budget

-----------------------------------------------------------------------------
(* What the invariant says of a page at rest.                              *)

LEMMA InvShows == IInv => PageShowsStore
<1>. SUFFICES ASSUME IInv PROVE PageShowsStore
  OBVIOUS
<1>0. CascadeInv /\ CascadeTypes /\ BrowserTypes
  BY DEF IInv, CascadeInv
<1>1. CascadeTypeOK
  <2>1. ASSUME NEW i \in DOMAIN pending
        PROVE  /\ pending[i].watcher \in Watchers
               /\ pending[i].change.path \in FieldsOf[pending[i].watcher]
               /\ pending[i].change.origin \in Origins
    <3>1. pending[i] \in Entries
      BY <1>0, ElementOfSeq DEF CascadeTypes
    <3>2. Timely(Now) /\ Now.pending = pending
      BY <1>0, NowIs DEF CascadeInv
    <3>. QED BY <3>1, <3>2 DEF Entries, Timely
  <2>2. \A q \in {effects, outbox} : \A i \in DOMAIN q : q[i].path \in Fields /\ q[i].value \in Values
    BY <1>0, PairFields DEF CascadeTypes
  <2>. QED BY <1>0, <2>1, <2>2 DEF CascadeTypeOK, CascadeTypes, CascadeInv, Delivered
<1>2. TypeOK
  <2>1. \A i \in DOMAIN toApply : toApply[i].path \in Fields
    BY <1>0, PairFields DEF BrowserTypes
  <2>. QED BY <1>0, <1>1, <2>1 DEF TypeOK, BrowserTypes
<1>3. ASSUME AtRest, ~torn, NEW w \in Views, NEW f \in FieldsOf[w] PROVE dom[w] = store[f]
  <2>1. Shown(Now, dom) /\ Now.store = store /\ Now.pending = <<>>
    BY <1>0, <1>3, NowIs DEF CascadeInv, AtRest, Delivered
  <2>. QED BY <2>1 DEF Shown, Waiting
<1>. QED BY <1>2, <1>3 DEF PageShowsStore

LEMMA InvDelivers == IInv => OutboxIsLocalChanges
<1>. SUFFICES ASSUME IInv, ~running PROVE OutboxIsLocalChanges
  BY DEF OutboxIsLocalChanges
<1>0. /\ CascadeTypes /\ Delivered
      /\ Now.store = store /\ Now.pending = <<>> /\ Now.local = local
  BY NowIs DEF IInv, CascadeInv, Delivered
<1>1. aborted => outbox = <<>>
  BY <1>0 DEF Delivered
<1>2. ASSUME ~aborted
      PROVE  /\ {outbox[i].path : i \in DOMAIN outbox} = local \intersect BoundFields
             /\ Cardinality(DOMAIN outbox) = Cardinality(local \intersect BoundFields)
             /\ \A i \in DOMAIN outbox : outbox[i].value = store[outbox[i].path]
  <2>1. Collected(Now, outbox) /\ OncePerPath(outbox)
    BY <1>0, <1>2 DEF Delivered
  <2>2. \A f : ~SenderWaits(<<>>, f)
    BY DEF SenderWaits, Waiting
  <2>3. /\ \A i \in DOMAIN outbox : /\ outbox[i].path \in local \intersect BoundFields
                                    /\ outbox[i].value = store[outbox[i].path]
        /\ \A f \in local \intersect BoundFields : \E i \in DOMAIN outbox : outbox[i].path = f
    BY <1>0, <2>1, <2>2 DEF Collected
  <2>. DEFINE T == local \intersect BoundFields
              b == [i \in DOMAIN outbox |-> outbox[i].path]
  <2>4. {outbox[i].path : i \in DOMAIN outbox} = T
    BY <2>3
  <2>5. b \in Surjection(DOMAIN outbox, T) /\ b \in Injection(DOMAIN outbox, T)
    <3>1. b \in [DOMAIN outbox -> T] /\ \A i \in DOMAIN outbox : b[i] = outbox[i].path
      BY <2>3
    <3>2. \A f \in T : \E i \in DOMAIN outbox : b[i] = f
      BY <2>3, <3>1
    <3>3. \A i \in DOMAIN outbox : \A j \in DOMAIN outbox : b[i] = b[j] => i = j
      BY <2>1, <3>1 DEF OncePerPath
    <3>. HIDE DEF b, T
    <3>4. b \in Surjection(DOMAIN outbox, T)
      BY <3>1, <3>2 DEF Surjection
    <3>5. b \in Injection(DOMAIN outbox, T)
      BY <3>1, <3>3 DEF Injection, IsInjective
    <3>. QED BY <3>4, <3>5
  <2>6. IsFiniteSet(DOMAIN outbox)
    <3>1. DOMAIN outbox = 1..Len(outbox) /\ Len(outbox) \in Nat
      BY <1>0 DEF CascadeTypes
    <3>2. IsFiniteSet(1..Len(outbox))
      BY <3>1, FS_Interval
    <3>. QED BY <3>1, <3>2
  <2>7. Cardinality(T) = Cardinality(DOMAIN outbox)
    <3>. HIDE DEF b, T
    <3>. QED BY <2>5, <2>6, FS_Surjection
  <2>. QED BY <2>3, <2>4, <2>7
<1>. QED BY <1>1, <1>2 DEF OutboxIsLocalChanges

\* Whatever the fields, the watchers and their bodies: a page at rest whose
\* cascades all settled shows in every view what the store holds (store.js
\* write, watchers.js #schedule, #run and #drain).
THEOREM PageAlwaysShowsStore == Spec => []PageShowsStore
BY InitIsInv, NextKeepsInv, InvShows, PTL DEF Spec

\* ... and what a settled cascade hands to the Wire is the bound fields changed
\* in it by the user, app code or a watcher, each once with the value it ended
\* at; an aborted one hands over nothing (watchers.js #flush, the abort branch
\* of #drain).
THEOREM OutboxAlwaysLocalChanges == Spec => []OutboxIsLocalChanges
BY InitIsInv, NextKeepsInv, InvDelivers, PTL DEF Spec

\* Whatever the application, if its routes tell its states and its watchers
\* leave the fields they assign alone: at rest the URL shown is one whose
\* application would change nothing, and no event leaves more entries behind
\* than it has assignments, and one (boot.js startRouting, router.js apply,
\* pathFromState).
THEOREM HistoryAlwaysTells ==
  ASSUME RoutesTell, BodiesLeaveRoutes
  PROVE  Spec => []HistoryTells
<1>1. Init => HInv
  BY InitIsInv, InitTells DEF HInv
<1>. QED BY <1>1, NextKeepsUrl, InvTells, PTL DEF Spec

=============================================================================
