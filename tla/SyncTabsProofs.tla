--------------------------- MODULE SyncTabsProofs ---------------------------
(***************************************************************************)
(* Three facts about the tabs of one identity, for any number of tabs,     *)
(* fields, keystrokes, foreign writes and faults, detect or last write     *)
(* wins: a seq names one entry (SeqNamesOneEntry), a keystroke is lost in  *)
(* the four listed ways only (LostOnlyAsListed), and an accepted edit      *)
(* overwrites work its user had not seen in the two listed cases only      *)
(* (OverwritesOnlyAsListed).                                               *)
(*                                                                         *)
(* The argument is the lock's.  Only its holder removes durable entries or *)
(* moves pins, and what the holder works on (its reload, then its memory,  *)
(* then the message on the wire) is what the durable queue holds, but for  *)
(* values coalesced meanwhile into what it has in hand: they are exposed.   *)
(***************************************************************************)
EXTENDS SyncTabs, CommonLemmas

-----------------------------------------------------------------------------
(* The inductive invariant.                                                *)

Stages == {"idle", "reloading", "pulling", "pulled", "flushing", "waiting", "advancing"}
Wants  == [verb : {"resync", "keep", "take"}, field : Fields \cup {None}]
Posts  == [tab : Tabs, seq : Nat, field : Fields, val : Edits, base : Nat,
           status : {"sent", "ok", "conflict", "refused"}, at : Nat]

Types ==
  /\ edits \in 0..MaxEdits /\ faults \in 0..MaxFaults /\ rev \in Seqs /\ nextSeq \in Seqs
  /\ value \in [Fields -> 0..MaxEdits] /\ seen \in [Edits -> Nat]
  /\ IsQueue(durable) /\ IsQueue(dead)
  /\ holder \in Tabs \cup {None} /\ net \subseteq Posts
  /\ DOMAIN mem = Tabs /\ \A t \in Tabs : IsQueue(mem[t])
  /\ DOMAIN snap = Tabs /\ \A t \in Tabs : IsQueue(snap[t])
  /\ known \in [Tabs -> Nat] /\ fed \in [Tabs -> Nat] /\ pulled \in [Tabs -> Nat]
  /\ captures \in [Tabs -> Seq(Entry)] /\ alloc \in [Tabs -> Nat]
  /\ pc \in [Tabs -> Stages] /\ want \in [Tabs -> Wants]
  /\ todo \in [Tabs -> SUBSET Seqs]
  /\ foreign \subseteq Nat /\ accepted \subseteq Edits /\ overwrote \subseteq Edits
  /\ excused \subseteq Edits /\ exposed \subseteq Edits /\ unsaved \subseteq Edits
  /\ logged \subseteq Edits /\ blind \subseteq Edits /\ skewed \subseteq Edits

\* Revisions: nothing is ahead of the server's, and only detect has others' writes.
Revisions ==
  /\ foreign \subseteq 1..rev /\ (~Detect => foreign = {})
  /\ \A t \in Tabs : known[t] \in 1..rev /\ fed[t] \in 1..rev /\ pulled[t] \in 1..rev
  /\ \A m \in net : m.base <= rev /\ (m.status # "sent" => m.at \in 1..rev)

\* The lock has one holder, and what it is to flush is in its memory.
LockHeld ==
  /\ \A t \in Tabs : holder = t <=> pc[t] # "idle"
  /\ \A t \in Tabs : todo[t] # {} <=> pc[t] \in {"flushing", "waiting", "advancing"}
  /\ \A t \in Tabs : pc[t] \in {"flushing", "waiting"} => todo[t] \subseteq DOMAIN mem[t]
  /\ \A t \in Tabs : pc[t] = "advancing" => todo[t] \ {InHand(t)} \subseteq DOMAIN mem[t]
  /\ \A t \in Tabs : pc[t] \in {"pulling", "pulled"} => DOMAIN mem[t] # {}
  /\ \A m \in net : m.seq # 0 => pc[m.tab] = "waiting" /\ m.seq = InHand(m.tab)
  /\ \A m, n \in net : m.seq # 0 /\ n.seq # 0 => m = n

\* What is written down of a seq, in the queues and the tabs' copies of them.
Ref(s, e)   == [seq |-> s, field |-> e.field, val |-> e.val]
Mentions(q) == {Ref(s, q[s]) : s \in DOMAIN q}
WrittenBy(t) == Mentions(mem[t]) \cup Mentions(snap[t])
Written == Mentions(durable) \cup Mentions(dead) \cup UNION {WrittenBy(t) : t \in Tabs}

\* What a seq stands for never changes; a seq allocated is nowhere yet.
Names ==
  /\ \A a \in Written : a.seq < nextSeq
  /\ \A a, b \in Written : a.seq = b.seq => a.field = b.field
  /\ \A m \in net : m.seq < nextSeq /\ \A a \in Written : a.seq = m.seq => a.field = m.field
  /\ \A t \in Tabs : alloc[t] < nextSeq /\ (alloc[t] # 0 => captures[t] # <<>>)
  /\ \A t \in Tabs : \A a \in Written : alloc[t] # a.seq
  /\ \A t \in Tabs : \A m \in net : alloc[t] = m.seq => m.seq = 0
  /\ \A t, u \in Tabs : alloc[t] = alloc[u] => t = u \/ alloc[t] = 0

\* The values on a tab's capture chain.
Waiting(t) == {captures[t][i].val : i \in 1..Len(captures[t])}

\* A value is on its way to the server, on one capture chain, or in the queue
\* under one seq.
OnePlace ==
  /\ \A a \in Written : a.val <= edits
  /\ \A m \in net : m.val <= edits
  /\ \A t \in Tabs : \A v \in Waiting(t) : v <= edits
  /\ \A m, n \in net : m.val = n.val => m = n
  /\ \A a, b \in Written : a.val = b.val => a.seq = b.seq
  /\ \A a \in Written : \A m \in net : m.val = a.val => m.seq = a.seq
  /\ \A t \in Tabs : \A i, j \in 1..Len(captures[t]) :
        captures[t][i].val = captures[t][j].val => i = j
  /\ \A t, u \in Tabs : t # u => Waiting(t) \cap Waiting(u) = {}
  /\ \A t \in Tabs : \A m \in net : m.val \notin Waiting(t)
  /\ \A t \in Tabs : \A a \in Written : a.val \notin Waiting(t)

\* What the holder works on: a part of the durable queue, up to exposed values.
Follows(q) ==
  /\ DOMAIN q \subseteq DOMAIN durable
  /\ \A s \in DOMAIN q : durable[s].val \in {q[s].val} \cup exposed
Working(t) == pc[t] \in {"pulling", "pulled", "flushing", "waiting", "advancing"}
Current ==
  /\ \A t \in Tabs : pc[t] = "reloading" => Follows(snap[t])
  /\ \A t \in Tabs : Working(t) => Follows(mem[t])
  /\ \A m \in net : m.seq # 0 => /\ m.seq \in DOMAIN durable
                                 /\ durable[m.seq].val \in {m.val} \cup exposed

\* A keystroke is in one of its places, or its fate is one of those listed.
Told == excused \cup unsaved \cup logged
Kept(e) ==
  \/ \E m \in net : m.seq = 0 /\ m.val = e
  \/ \E t \in Tabs : e \in Waiting(t)
  \/ \E s \in DOMAIN durable : durable[s].val = e
  \/ \E s \in DOMAIN dead : dead[s].val = e
  \/ e \in accepted \cup Told \cup exposed
AllKept ==
  /\ \A e \in 1..edits : Kept(e)
  /\ \A m \in net : m.status = "ok" => m.val \in accepted
  /\ \A m \in net : m.status = "refused" /\ m.seq = 0 => m.val \in Told
  /\ \A s \in DOMAIN dead \cap DOMAIN durable : dead[s].val \in exposed

\* A pin covers no foreign revision its value's user has not seen, the two
\* listed cases apart.
Spoiled == blind \cup skewed
Sees(v, base) == v \in Spoiled \/ \A r \in foreign : r <= seen[v] \/ base < r
Honest(e) == e.base <= rev /\ Sees(e.val, e.base)
Pins ==
  /\ \A s \in DOMAIN durable : Honest(durable[s])
  /\ \A t \in Tabs : \A s \in DOMAIN mem[t] :
        mem[t][s].base <= rev /\ (Working(t) => Honest(mem[t][s]))
  /\ \A t \in Tabs : \A s \in DOMAIN snap[t] :
        snap[t][s].base <= rev /\ (pc[t] = "reloading" => Honest(snap[t][s]))
  /\ \A t \in Tabs : \A i \in 1..Len(captures[t]) : Honest(captures[t][i])
  /\ \A m \in net : Honest(m)
  /\ \A m \in net : m.status = "ok" => m.at \notin foreign
  /\ \A t \in Tabs : pc[t] = "advancing" => pulled[t] \notin foreign
  /\ overwrote \subseteq Spoiled

IInv == Types /\ Revisions /\ LockHeld /\ Names /\ OnePlace /\ Current /\ AllKept /\ Pins

-----------------------------------------------------------------------------
(* The operators on queues.                                                *)

LEMMA EntryFound ==
  ASSUME NEW q, IsQueue(q), NEW f
  PROVE  /\ EntryOf(q, f) \in Nat
         /\ EntryOf(q, f) # 0 => EntryOf(q, f) \in DOMAIN q /\ q[EntryOf(q, f)].field = f
<1>. DEFINE S == {s \in DOMAIN q : q[s].field = f}
<1>1. S \in SUBSET Nat
  BY DEF IsQueue, Seqs
<1>2. CASE S = {}
  BY <1>2 DEF EntryOf
<1>3. CASE S # {}
  <2>1. Min(S) \in S
    <3>. HIDE DEF S
    <3>. QED BY <1>1, <1>3, MinOf
  <2>. QED BY <2>1, <1>1, <1>3 DEF EntryOf
<1>. QED BY <1>2, <1>3

\* Types of the three operators' results.
LEMMA QueueTypes ==
  ASSUME NEW q, IsQueue(q)
  PROVE  /\ \A s : IsQueue(Without(q, s))
         /\ \A s \in Seqs, e \in Entry : IsQueue(Put(q, s, e))
         /\ \A r : IsQueue(r) => IsQueue(Over(r, q))
BY DEF IsQueue, Over, Put, Without, Restrict

\* The lock is asked for a verb, and for the field of an entry or none.
LEMMA ResolveLocks ==
  ASSUME Types, NEW t \in Tabs, NEW verb, Resolve(t, verb)
  PROVE  \E f \in Fields : Lock(t, verb, f)
<1>. DEFINE P == Parked(mem[t], known[t])
<1>1. P \in SUBSET Nat /\ P # {} /\ P \subseteq DOMAIN mem[t]
  BY DEF Parked, Resolve, Types, IsQueue, Seqs
<1>2. Min(P) \in P
  <2>. HIDE DEF P
  <2>. QED BY <1>1, MinOf
<1>3. mem[t][Min(P)].field \in Fields
  <2>. HIDE DEF P
  <2>. QED BY <1>1, <1>2 DEF Types, IsQueue, Entry
<1>. QED BY <1>3 DEF Resolve

\* The next-state relation, every kind of step on a line of its own.
TabStep(t) ==
  \/ \E f \in Fields : Edit(t, f)
  \/ \E f \in Fields : EditOffline(t, f)
  \/ CaptureAlloc(t)
  \/ CaptureEnqueue(t)
  \/ Broadcast(t)
  \/ Heal(t)
  \/ \E verb \in {"resync", "keep", "take"}, f \in Fields \cup {None} : Lock(t, verb, f)
  \/ Reload(t)
  \/ KeepMine(t)
  \/ TakeTheirs(t)
  \/ PullRead(t)
  \/ PullFails(t)
  \/ Reconcile(t)
  \/ FlushSend(t)
  \/ Advance(t)
  \/ \E m \in net : FlushAcked(t, m)
  \/ \E m \in net : FlushConflicted(t, m)
  \/ \E m \in net : FlushRefused(t, m)
  \/ \E m \in net : FlushLost(t, m)
  \/ Crash(t)
PostStep(m) ==
  Accept(m) \/ Conflict(m) \/ Refuse(m) \/ EditAnswered(m) \/ EditConflicted(m) \/ EditLost(m)

LEMMA StepKinds ==
  ASSUME Types, [Next]_vars
  PROVE  \/ \E t \in Tabs : TabStep(t)
         \/ \E m \in net : PostStep(m)
         \/ \E f \in Fields : ForeignWrite(f)
         \/ UNCHANGED vars
<1>1. ASSUME NEW t \in Tabs, OfTab(t) PROVE TabStep(t)
  <2>1. ASSUME NEW verb \in {"keep", "take"}, Resolve(t, verb)
        PROVE  \E f \in Fields \cup {None} : Lock(t, verb, f)
    BY <2>1, ResolveLocks
  <2>2. Resync(t) => TabStep(t)
    BY DEF Resync, TabStep
  <2>. QED BY <1>1, <2>1, <2>2 DEF OfTab, TabStep
<1>. QED BY <1>1 DEF Next, PostStep

-----------------------------------------------------------------------------
(* Types.                                                                  *)

LEMMA TypesInit == Init => Types
<1>. SUFFICES ASSUME Init PROVE Types
  OBVIOUS
<1>1. IsQueue(Empty) /\ <<>> \in Seq(Entry)
  BY DEF IsQueue, Empty
<1>. QED BY <1>1, SyncConstants DEF Init, Fresh, Types, Seqs, Stages, Wants, Edits

\* The holder's lock work keeps its type, whether it goes on or ends.
LEMMA LockTypes ==
  ASSUME Types, NEW t \in Tabs, Release(t) \/ FlushNext(t)
  PROVE  /\ holder' \in Tabs \cup {None} /\ pc' \in [Tabs -> Stages]
         /\ want' \in [Tabs -> Wants] /\ pulled' \in [Tabs -> Nat]
         /\ todo' \in [Tabs -> SUBSET Seqs]
         /\ DOMAIN snap' = Tabs /\ \A u \in Tabs : IsQueue(snap'[u])
<1>1. IsQueue(Empty)
  BY DEF IsQueue, Empty
<1>2. CASE Release(t)
  BY <1>1, <1>2 DEF Release, Types, Stages, Wants
<1>3. CASE FlushNext(t) /\ ~Release(t)
  <2>1. /\ todo' = [todo EXCEPT ![t] = todo[t] \ {InHand(t)}]
        /\ pulled' = [pulled EXCEPT ![t] = 1]
        /\ pc' = [pc EXCEPT ![t] = "flushing"]
        /\ UNCHANGED <<holder, want, snap>>
    BY <1>3 DEF FlushNext
  <2>2. todo' \in [Tabs -> SUBSET Seqs]
    BY <2>1 DEF Types
  <2>. QED BY <2>1, <2>2 DEF Types, Stages
<1>. QED BY <1>2, <1>3

LEMMA CaptureTypes ==
  ASSUME Types, NEW t \in Tabs, NEW m, m.field \in Fields, m.val \in Edits, m.base \in Nat,
         Capture(t, m)
  PROVE  captures' \in [Tabs -> Seq(Entry)]
<1>. DEFINE c == [field |-> m.field, val |-> m.val, base |-> IF Detect THEN m.base ELSE 0]
<1>1. c \in Entry
  BY DEF Entry
<1>2. captures' = [captures EXCEPT ![t] = Append(captures[t], c)]
  BY DEF Capture
<1>. HIDE DEF c
<1>. QED BY <1>1, <1>2, Push DEF Types

LEMMA EntryTypes ==
  /\ \A q, s : IsQueue(q) /\ s \in DOMAIN q => s \in Seqs /\ s \in Nat /\ q[s] \in Entry
  /\ \A e \in Entry : e.field \in Fields /\ e.val \in Edits /\ e.base \in Nat
BY DEF IsQueue, Entry, Seqs

\* The seq in hand is the least of those to flush.
LEMMA InHandIs ==
  ASSUME Types, LockHeld, NEW t \in Tabs, pc[t] \in {"flushing", "waiting", "advancing"}
  PROVE  /\ InHand(t) \in todo[t] /\ InHand(t) \in Seqs /\ \A s \in todo[t] : InHand(t) <= s
         /\ pc[t] # "advancing" => InHand(t) \in DOMAIN mem[t]
<1>1. todo[t] \in SUBSET Nat /\ todo[t] # {} /\ todo[t] \subseteq Seqs
  BY DEF Types, LockHeld, Seqs
<1>2. InHand(t) \in todo[t] /\ \A s \in todo[t] : InHand(t) <= s
  BY <1>1, MinOf DEF InHand
<1>. QED BY <1>1, <1>2 DEF LockHeld

\* A queue's message is about the seq its tab has in hand.
LEMMA AnsweredIs ==
  ASSUME Types, LockHeld, NEW t \in Tabs, NEW m \in net, m.tab = t, m.seq # 0
  PROVE  /\ m.seq = InHand(t) /\ m.seq \in DOMAIN mem[t] /\ m.seq \in Seqs
         /\ pc[t] = "waiting" /\ holder = t
<1>1. pc[t] = "waiting" /\ m.seq = InHand(t)
  BY DEF LockHeld
<1>. QED BY <1>1, InHandIs DEF LockHeld

LEMMA TypesStep == Types /\ LockHeld /\ [Next]_vars => Types'
<1>. SUFFICES ASSUME Types, LockHeld, [Next]_vars PROVE Types'
  OBVIOUS
<1>. USE DEF Types, row, store, lockage, chain, history, fates
<1>1. ASSUME NEW t \in Tabs, NEW f \in Fields, Edit(t, f) PROVE Types'
  <2>1. edits' \in 1..MaxEdits /\ edits' \in Edits
    BY <1>1, SyncConstants DEF Edit, Type, Edits
  <2>2. net' \subseteq Posts
    <3>. DEFINE m == [tab |-> t, seq |-> 0, field |-> f, val |-> edits', at |-> 0,
                      base |-> known[t], status |-> "sent"]
    <3>1. known[t] \in Nat
      OBVIOUS
    <3>2. m \in Posts
      BY <2>1, <3>1 DEF Posts
    <3>3. net' = net \cup {m}
      BY <1>1 DEF Edit
    <3>. HIDE DEF m
    <3>. QED BY <3>2, <3>3
  <2>3. seen' \in [Edits -> Nat] /\ blind' \subseteq Edits
    BY <1>1, <2>1 DEF Edit, Type
  <2>4. edits' \in 0..MaxEdits
    BY <2>1, SyncConstants
  <2>. QED BY <1>1, <2>2, <2>3, <2>4 DEF Edit, Type
<1>2. ASSUME NEW t \in Tabs, NEW f \in Fields, EditOffline(t, f) PROVE Types'
  <2>1. edits' \in 1..MaxEdits /\ edits' \in Edits
    BY <1>2, SyncConstants DEF EditOffline, Type, Edits
  <2>2. captures' \in [Tabs -> Seq(Entry)]
    BY <1>2, <2>1, CaptureTypes DEF EditOffline
  <2>3. seen' \in [Edits -> Nat] /\ blind' \subseteq Edits
    BY <1>2, <2>1 DEF EditOffline, Type
  <2>4. edits' \in 0..MaxEdits
    BY <2>1, SyncConstants
  <2>. QED BY <1>2, <2>2, <2>3, <2>4 DEF EditOffline, Type
<1>3. ASSUME NEW t \in Tabs, CaptureAlloc(t) PROVE Types'
  <2>1. nextSeq' \in Seqs
    <3>1. nextSeq \in Nat /\ nextSeq' = nextSeq + 1
      BY <1>3 DEF CaptureAlloc, Seqs
    <3>. QED BY <3>1 DEF Seqs
  <2>2. alloc' \in [Tabs -> Nat]
    BY <1>3 DEF CaptureAlloc, Seqs
  <2>. QED BY <1>3, <2>1, <2>2 DEF CaptureAlloc
<1>4. ASSUME NEW t \in Tabs, CaptureEnqueue(t) PROVE Types'
  <2>. DEFINE c == Head(captures[t])
              x == EntryOf(mem[t], c.field)
              s == IF x # 0 THEN x ELSE alloc[t]
              e == IF x # 0 THEN [mem[t][x] EXCEPT !.val = c.val] ELSE c
  <2>1. c \in Entry /\ Tail(captures[t]) \in Seq(Entry)
    <3>. DEFINE q == captures[t]
    <3>1. q \in Seq(Entry) /\ q # <<>>
      BY <1>4 DEF CaptureEnqueue
    <3>. HIDE DEF q
    <3>2. Head(q) \in Entry /\ Tail(q) \in Seq(Entry)
      BY <3>1, DropHead
    <3>. QED BY <3>2 DEF q
  <2>2. x \in Nat /\ (x # 0 => x \in DOMAIN mem[t])
    BY EntryFound
  <2>3. s \in Seqs /\ e \in Entry
    BY <1>4, <2>1, <2>2 DEF CaptureEnqueue, Seqs, Entry, IsQueue
  <2>4. IsQueue(Put(mem[t], s, e)) /\ IsQueue(Put(durable, s, e))
    BY <2>3, QueueTypes
  <2>5. {q[s].val : q \in {r \in {mem[t], durable} : s \in DOMAIN r}} \subseteq Edits
    BY <2>3, EntryTypes
  <2>6. s \in DOMAIN dead => dead[s].val \in Edits
    BY EntryTypes
  <2>7. c.val \in Edits
    BY <2>1, EntryTypes
  <2>. HIDE DEF c, x, s, e
  <2>8. /\ mem' = [mem EXCEPT ![t] = Put(mem[t], s, e)] /\ durable' = Put(durable, s, e)
        /\ excused' = excused \cup {q[s].val : q \in {r \in {mem[t], durable} : s \in DOMAIN r}}
        /\ exposed' \subseteq exposed \cup {c.val}
                              \cup (IF s \in DOMAIN dead THEN {dead[s].val} ELSE {})
        /\ skewed'  = IF e.base > c.base THEN skewed \cup {c.val} ELSE skewed
        /\ captures' = [captures EXCEPT ![t] = Tail(captures[t])]
        /\ alloc' = [alloc EXCEPT ![t] = 0]
    BY <1>4 DEF CaptureEnqueue, c, x, s, e
  <2>9. /\ excused' \subseteq Edits /\ exposed' \subseteq Edits /\ skewed' \subseteq Edits
    BY <2>5, <2>6, <2>7, <2>8
  <2>10. /\ DOMAIN mem' = Tabs /\ \A u \in Tabs : IsQueue(mem'[u])
         /\ IsQueue(durable') /\ alloc' \in [Tabs -> Nat]
         /\ captures' \in [Tabs -> Seq(Entry)]
    BY <2>1, <2>4, <2>8
  <2>11. UNCHANGED <<edits, faults, row, nextSeq, dead, lockage, net, known, fed, seen,
                     unsaved, logged, blind>>
    BY <1>4 DEF CaptureEnqueue
  <2>. QED BY <2>9, <2>10, <2>11
<1>5. ASSUME NEW t \in Tabs, Broadcast(t) PROVE Types'
  <2>1. fed[t] + 1 \in Nat
    OBVIOUS
  <2>2. fed' = [fed EXCEPT ![t] = fed[t] + 1] /\ known' = [known EXCEPT ![t] = fed[t] + 1]
    BY <1>5 DEF Broadcast
  <2>3. fed' \in [Tabs -> Nat] /\ known' \in [Tabs -> Nat]
    BY <2>1, <2>2
  <2>. QED BY <1>5, <2>3 DEF Broadcast
<1>6. ASSUME NEW t \in Tabs, Heal(t) PROVE Types'
  BY <1>6 DEF Heal, Seqs
<1>7. ASSUME NEW t \in Tabs, NEW verb \in {"resync", "keep", "take"},
             NEW f \in Fields \cup {None}, Lock(t, verb, f)
      PROVE  Types'
  BY <1>7 DEF Lock, Stages, Wants
<1>8. ASSUME NEW t \in Tabs, Reload(t) PROVE Types'
  <2>1. DOMAIN mem' = Tabs /\ \A u \in Tabs : IsQueue(mem'[u])
    BY <1>8 DEF Reload
  <2>2. CASE Release(t)
    BY <1>8, <2>1, <2>2, LockTypes DEF Reload
  <2>3. CASE ~Release(t)
    <3>1. IsQueue(Empty)
      BY DEF IsQueue, Empty
    <3>. QED BY <1>8, <2>1, <2>3, <3>1 DEF Reload, Stages
  <2>. QED BY <2>2, <2>3
<1>9. ASSUME NEW t \in Tabs, KeepMine(t) PROVE Types'
  <2>. DEFINE s == EntryOf(snap[t], want[t].field)
              e == [snap[t][s] EXCEPT !.base = known[t]]
  <2>1. s # 0 => s \in Seqs /\ e \in Entry
    <3>0. s # 0 => s \in DOMAIN snap[t]
      BY EntryFound
    <3>1. s # 0 => s \in Seqs /\ snap[t][s] \in Entry
      BY <3>0 DEF IsQueue
    <3>2. known[t] \in Nat
      OBVIOUS
    <3>. QED BY <3>1, <3>2 DEF Entry
  <2>2. s # 0 => IsQueue(Put(snap[t], s, e)) /\ IsQueue(Put(durable, s, e))
    BY <2>1, QueueTypes
  <2>3. s # 0 => e.val \in Edits
    BY <2>1, EntryTypes
  <2>. HIDE DEF s, e
  <2>4. IF s = 0
        THEN mem' = [mem EXCEPT ![t] = snap[t]] /\ UNCHANGED <<durable, seen>>
        ELSE /\ mem' = [mem EXCEPT ![t] = Put(snap[t], s, e)]
             /\ durable' = Put(durable, s, e)
             /\ seen' = [seen EXCEPT ![e.val] = known[t]]
    BY <1>9 DEF KeepMine, s, e
  <2>5. /\ DOMAIN mem' = Tabs /\ \A u \in Tabs : IsQueue(mem'[u])
        /\ IsQueue(durable') /\ seen' \in [Edits -> Nat]
    BY <2>2, <2>3, <2>4
  <2>. QED BY <1>9, <2>5, LockTypes DEF KeepMine
<1>10. ASSUME NEW t \in Tabs, TakeTheirs(t) PROVE Types'
  <2>. DEFINE s == EntryOf(snap[t], want[t].field)
  <2>1. s # 0 => s \in DOMAIN snap[t] /\ snap[t][s].val \in Edits
    BY EntryFound, EntryTypes
  <2>2. IsQueue(Without(snap[t], s)) /\ IsQueue(Without(durable, s))
    BY QueueTypes
  <2>. HIDE DEF s
  <2>4. IF s = 0
        THEN mem' = [mem EXCEPT ![t] = snap[t]] /\ UNCHANGED <<durable, excused>>
        ELSE /\ mem' = [mem EXCEPT ![t] = Without(snap[t], s)]
             /\ durable' = Without(durable, s)
             /\ excused' = excused \cup {snap[t][s].val}
    BY <1>10 DEF TakeTheirs, s
  <2>5. /\ DOMAIN mem' = Tabs /\ \A u \in Tabs : IsQueue(mem'[u])
        /\ IsQueue(durable') /\ excused' \subseteq Edits
    BY <2>1, <2>2, <2>4
  <2>. QED BY <1>10, <2>5, LockTypes DEF TakeTheirs
<1>11. ASSUME NEW t \in Tabs, PullRead(t) PROVE Types'
  BY <1>11 DEF PullRead, Stages, Seqs
<1>12. ASSUME NEW t \in Tabs, PullFails(t) PROVE Types'
  <2>1. faults' \in 0..MaxFaults /\ Release(t)
    BY <1>12, SyncConstants DEF PullFails, Fault
  <2>. QED BY <1>12, <2>1, LockTypes DEF PullFails
<1>13. ASSUME NEW t \in Tabs, Reconcile(t) PROVE Types'
  <2>1. known' \in [Tabs -> Nat]
    BY <1>13 DEF Reconcile
  <2>2. CASE Release(t)
    BY <1>13, <2>1, <2>2, LockTypes DEF Reconcile
  <2>3. CASE ~Release(t)
    <3>1. /\ todo' = [todo EXCEPT ![t] = DOMAIN mem[t]]
          /\ pulled' = [pulled EXCEPT ![t] = 1]
          /\ pc' = [pc EXCEPT ![t] = "flushing"]
          /\ UNCHANGED <<holder, want, snap>>
      BY <1>13, <2>3 DEF Reconcile
    <3>2. todo' \in [Tabs -> SUBSET Seqs]
      BY <3>1 DEF IsQueue
    <3>. QED BY <1>13, <2>1, <3>1, <3>2 DEF Reconcile, Stages
  <2>. QED BY <2>2, <2>3
<1>14. ASSUME NEW t \in Tabs, FlushSend(t) PROVE Types'
  <2>1. mem[t][InHand(t)] \in Entry /\ InHand(t) \in Nat
    BY <1>14, InHandIs DEF FlushSend, IsQueue, Seqs
  <2>2. net' \subseteq Posts
    <3>. DEFINE e == mem[t][InHand(t)]
                n == [tab |-> t, seq |-> InHand(t), field |-> e.field, val |-> e.val,
                      base |-> e.base, status |-> "sent", at |-> 0]
    <3>1. n \in Posts
      BY <2>1 DEF Posts, Entry
    <3>2. net' = net \cup {n}
      BY <1>14 DEF FlushSend
    <3>. HIDE DEF n
    <3>. QED BY <3>1, <3>2
  <2>. QED BY <1>14, <2>2 DEF FlushSend, Stages
<1>15. ASSUME NEW t \in Tabs, Advance(t) PROVE Types'
  <2>. DEFINE moved == {s \in DOMAIN mem[t] : Detect /\ s > InHand(t)}
              fresh == [s \in moved |-> [mem[t][s] EXCEPT !.base = known[t]]]
  <2>0. \A s \in DOMAIN mem[t] : s \in Seqs /\ mem[t][s] \in Entry
    BY DEF IsQueue
  <2>1. \A s \in moved : fresh[s] \in Entry /\ fresh[s].val \in Edits /\ s \in Seqs
    <3>1. ASSUME NEW e \in Entry
          PROVE  [e EXCEPT !.base = known[t]] \in Entry /\ e.val \in Edits
                 /\ [e EXCEPT !.base = known[t]].val = e.val
      BY DEF Entry
    <3>. QED BY <2>0, <3>1
  <2>3. IsQueue(Over(fresh, mem[t])) /\ IsQueue(Over(fresh, durable))
    <3>1. IsQueue(fresh)
      BY <2>1 DEF IsQueue
    <3>. HIDE DEF fresh, moved
    <3>. QED BY <3>1, QueueTypes
  <2>4. /\ mem' = [mem EXCEPT ![t] = Over(fresh, mem[t])] /\ durable' = Over(fresh, durable)
        /\ skewed' \subseteq skewed \cup {fresh[s].val : s \in moved}
    BY <1>15 DEF Advance
  <2>. HIDE DEF moved, fresh
  <2>5. /\ DOMAIN mem' = Tabs /\ \A u \in Tabs : IsQueue(mem'[u])
        /\ IsQueue(durable') /\ skewed' \subseteq Edits
    <3>1. \A u \in Tabs : mem'[u] = IF u = t THEN Over(fresh, mem[t]) ELSE mem[u]
      BY <2>4
    <3>2. ASSUME NEW v \in skewed' PROVE v \in Edits
      <4>1. CASE v \in skewed BY <4>1
      <4>2. CASE \E s \in moved : v = fresh[s].val BY <4>2, <2>1
      <4>. QED BY <2>4, <4>1, <4>2
    <3>. QED BY <2>3, <2>4, <3>1, <3>2
  <2>. QED BY <1>15, <2>5, LockTypes DEF Advance
<1>16. ASSUME NEW t \in Tabs, NEW m \in net, FlushAcked(t, m) PROVE Types'
  <2>1. IsQueue(Without(mem[t], m.seq)) /\ IsQueue(Without(durable, m.seq))
    BY QueueTypes
  <2>2. m.at \in Nat
    BY DEF Posts
  <2>. QED BY <1>16, <2>1, <2>2 DEF FlushAcked, Answered, Stages
<1>17. ASSUME NEW t \in Tabs, NEW m \in net, FlushConflicted(t, m) PROVE Types'
  <2>1. m.at \in Nat
    BY DEF Posts
  <2>. QED BY <1>17, <2>1, LockTypes DEF FlushConflicted, Answered
<1>18. ASSUME NEW t \in Tabs, NEW m \in net, FlushRefused(t, m) PROVE Types'
  <2>1. m.seq \in DOMAIN mem[t] /\ m.seq \in Seqs
    BY <1>18, AnsweredIs DEF FlushRefused, Answered
  <2>2. /\ IsQueue(Without(mem[t], m.seq)) /\ IsQueue(Without(durable, m.seq))
        /\ IsQueue(Put(dead, m.seq, mem[t][m.seq]))
    BY <2>1, QueueTypes DEF IsQueue
  <2>. QED BY <1>18, <2>2, LockTypes DEF FlushRefused, Answered
<1>19. ASSUME NEW t \in Tabs, NEW m \in net, FlushLost(t, m) PROVE Types'
  <2>1. faults' \in 0..MaxFaults /\ Release(t)
    BY <1>19, SyncConstants DEF FlushLost, Fault
  <2>. QED BY <1>19, <2>1, LockTypes DEF FlushLost
<1>20. ASSUME NEW t \in Tabs, Crash(t) PROVE Types'
  <2>1. {m.val : m \in {n \in net : n.tab = t /\ n.seq = 0}} \subseteq Edits
    <3>1. \A m \in net : m.val \in Edits
      BY DEF Posts
    <3>. QED BY <3>1
  <2>2. {captures[t][i].val : i \in DOMAIN captures[t]} \subseteq Edits
    <3>1. captures[t] \in Seq(Entry) /\ DOMAIN captures[t] = 1..Len(captures[t])
      OBVIOUS
    <3>2. \A i \in DOMAIN captures[t] : captures[t][i] \in Entry
      BY <3>1, ElementOfSeq
    <3>. QED BY <3>2 DEF Entry
  <2>3. /\ unsaved' \subseteq Edits /\ net' \subseteq Posts /\ faults' \in 0..MaxFaults
    BY <1>20, <2>1, <2>2, SyncConstants DEF Crash, Fault
  <2>4. /\ holder' \in Tabs \cup {None} /\ pc' \in [Tabs -> Stages]
        /\ want' \in [Tabs -> Wants] /\ pulled' \in [Tabs -> Nat]
        /\ todo' \in [Tabs -> SUBSET Seqs]
        /\ DOMAIN snap' = Tabs /\ \A u \in Tabs : IsQueue(snap'[u])
    <3>1. CASE holder = t BY <1>20, <3>1, LockTypes DEF Crash
    <3>2. CASE holder # t BY <1>20, <3>2 DEF Crash
    <3>. QED BY <3>1, <3>2
  <2>5. /\ DOMAIN mem' = Tabs /\ \A u \in Tabs : IsQueue(mem'[u])
        /\ known' \in [Tabs -> Nat] /\ fed' \in [Tabs -> Nat]
        /\ captures' \in [Tabs -> Seq(Entry)] /\ alloc' \in [Tabs -> Nat]
    <3>1. <<>> \in Seq(Entry) OBVIOUS
    <3>. QED BY <1>20, <3>1 DEF Crash, Seqs
  <2>. HIDE DEF lockage
  <2>. QED BY <1>20, <2>3, <2>4, <2>5 DEF Crash
<1>21. ASSUME NEW m \in net, Accept(m) PROVE Types'
  <2>1. rev' \in Seqs
    BY <1>21 DEF Accept, Seqs
  <2>0. [m EXCEPT !.status = "ok", !.at = rev'] \in Posts
    <3>1. m \in Posts /\ rev' \in Nat
      BY <2>1 DEF Seqs
    <3>. QED BY <3>1 DEF Posts
  <2>3. net' \subseteq Posts
    BY <1>21, <2>0 DEF Accept, Answer
  <2>2. m.val \in Edits /\ m.val \in 0..MaxEdits
    BY DEF Posts, Edits
  <2>. QED BY <1>21, <2>1, <2>2, <2>3 DEF Accept
<1>22. ASSUME NEW m \in net, Conflict(m) PROVE Types'
  <2>1. net' \subseteq Posts
    <3>. DEFINE n == [m EXCEPT !.status = "conflict", !.at = rev]
    <3>1. m \in Posts /\ rev \in Nat
      BY DEF Seqs
    <3>2. n \in Posts
      BY <3>1 DEF Posts
    <3>3. net' = (net \ {m}) \cup {n}
      BY <1>22 DEF Conflict, Answer
    <3>. HIDE DEF n
    <3>. QED BY <3>2, <3>3
  <2>. QED BY <1>22, <2>1 DEF Conflict
<1>23. ASSUME NEW m \in net, Refuse(m) PROVE Types'
  <2>1. net' \subseteq Posts /\ m.val \in Edits
    <3>. DEFINE n == [m EXCEPT !.status = "refused", !.at = rev]
    <3>1. m \in Posts /\ rev \in Nat
      BY DEF Seqs
    <3>2. n \in Posts /\ m.val \in Edits
      BY <3>1 DEF Posts
    <3>3. net' = (net \ {m}) \cup {n}
      BY <1>23 DEF Refuse, Answer
    <3>. HIDE DEF n
    <3>. QED BY <3>2, <3>3
  <2>. QED BY <1>23, <2>1, SyncConstants DEF Refuse, Fault
<1>24. ASSUME NEW m \in net, EditAnswered(m) PROVE Types'
  BY <1>24 DEF EditAnswered
<1>25. ASSUME NEW m \in net, EditConflicted(m) PROVE Types'
  <2>1. /\ captures' \in [Tabs -> Seq(Entry)] /\ net' \subseteq Posts
    <3>1. m.field \in Fields /\ m.val \in Edits /\ m.base \in Nat /\ m.tab \in Tabs
      BY DEF Posts
    <3>. QED BY <1>25, <3>1, CaptureTypes DEF EditConflicted
  <2>2. known' \in [Tabs -> Nat]
    BY <1>25 DEF EditConflicted, Posts
  <2>. QED BY <1>25, <2>1, <2>2 DEF EditConflicted
<1>26. ASSUME NEW m \in net, EditLost(m) PROVE Types'
  <2>1. /\ captures' \in [Tabs -> Seq(Entry)] /\ net' \subseteq Posts
    <3>1. m.field \in Fields /\ m.val \in Edits /\ m.base \in Nat /\ m.tab \in Tabs
      BY DEF Posts
    <3>. QED BY <1>26, <3>1, CaptureTypes DEF EditLost
  <2>. QED BY <1>26, <2>1 DEF EditLost
<1>27. ASSUME NEW f \in Fields, ForeignWrite(f) PROVE Types'
  <2>1. rev' = rev + 1 /\ foreign' = foreign \cup {rev'} /\ value' = [value EXCEPT ![f] = 0]
    BY <1>27 DEF ForeignWrite
  <2>2. /\ UNCHANGED <<edits, faults, accepted, overwrote, net, mem, known, fed, captures, alloc>>
        /\ UNCHANGED <<nextSeq, durable, dead, holder, pc, want, snap, pulled, todo>>
        /\ UNCHANGED <<seen, excused, exposed, unsaved, logged, blind, skewed>>
    BY <1>27 DEF ForeignWrite
  <2>3. rev' \in Seqs /\ rev' \in Nat
    BY <2>1 DEF Seqs
  <2>4. foreign' \subseteq Nat
    BY <2>1, <2>3
  <2>5. 0 \in 0..MaxEdits
    BY SyncConstants
  <2>6. value' \in [Fields -> 0..MaxEdits]
    BY <2>1, <2>5
  <2>. QED BY <2>2, <2>3, <2>4, <2>6
<1>28. CASE UNCHANGED vars
  BY <1>28 DEF vars
<1>. HIDE DEF Types
<1>. QED
  BY <1>1, <1>2, <1>3, <1>4, <1>5, <1>6, <1>7, <1>8, <1>9, <1>10, <1>11, <1>12, <1>13,
     <1>14, <1>15, <1>16, <1>17, <1>18, <1>19, <1>20, <1>21, <1>22, <1>23, <1>24, <1>25,
     <1>26, <1>27, <1>28, StepKinds DEF TabStep, PostStep

-----------------------------------------------------------------------------
(* Revisions.                                                              *)

LEMMA LockPulled ==
  ASSUME Types, Revisions, NEW t \in Tabs, Release(t) \/ FlushNext(t)
  PROVE  \A u \in Tabs : pulled'[u] \in 1..rev
<1>1. pulled' = [pulled EXCEPT ![t] = 1]
  BY DEF Release, FlushNext
<1>2. 1 \in 1..rev
  BY DEF Types, Seqs
<1>. QED BY <1>1, <1>2 DEF Types, Revisions

LEMMA RevisionsStep == IInv /\ [Next]_vars => Revisions'
<1>. SUFFICES ASSUME Types, LockHeld, Revisions, Pins, [Next]_vars PROVE Revisions'
  BY DEF IInv
<1>0. /\ known \in [Tabs -> Nat] /\ fed \in [Tabs -> Nat] /\ pulled \in [Tabs -> Nat]
      /\ rev \in Nat \ {0} /\ foreign \subseteq Nat
      /\ \A m \in net : m.tab \in Tabs /\ m.base \in Nat /\ m.at \in Nat
  BY DEF Types, Seqs, Posts
<1>. USE DEF Revisions, row, store, lockage, chain, history, fates
<1>1. ASSUME NEW t \in Tabs, NEW f \in Fields, Edit(t, f) PROVE Revisions'
  <2>1. \A m \in net' : m \in net \/ (m.base = known[t] /\ m.status = "sent")
    BY <1>1 DEF Edit
  <2>. QED BY <1>1, <2>1, <1>0 DEF Edit, Type
<1>2. ASSUME NEW t \in Tabs, NEW f \in Fields, EditOffline(t, f) PROVE Revisions'
  BY <1>2, <1>0 DEF EditOffline, Type
<1>3. ASSUME NEW t \in Tabs, CaptureAlloc(t) PROVE Revisions'
  BY <1>3, <1>0 DEF CaptureAlloc
<1>4. ASSUME NEW t \in Tabs, CaptureEnqueue(t) PROVE Revisions'
  <2>1. UNCHANGED <<rev, foreign, known, fed, pulled, net>>
    BY <1>4 DEF CaptureEnqueue
  <2>. QED BY <2>1
<1>5. ASSUME NEW t \in Tabs, Broadcast(t) PROVE Revisions'
  BY <1>5, <1>0 DEF Broadcast
<1>6. ASSUME NEW t \in Tabs, Heal(t) PROVE Revisions'
  BY <1>6, <1>0 DEF Heal
<1>7. ASSUME NEW t \in Tabs, NEW verb \in {"resync", "keep", "take"},
             NEW f \in Fields \cup {None}, Lock(t, verb, f)
      PROVE  Revisions'
  BY <1>7, <1>0 DEF Lock
<1>8. ASSUME NEW t \in Tabs, Reload(t) PROVE Revisions'
  <2>1. UNCHANGED <<rev, foreign, known, fed, net>> /\ (Release(t) \/ pulled' = pulled)
    BY <1>8 DEF Reload
  <2>. QED BY <2>1, LockPulled
<1>9. ASSUME NEW t \in Tabs, KeepMine(t) PROVE Revisions'
  <2>1. UNCHANGED <<rev, foreign, known, fed, net>> /\ Release(t)
    BY <1>9 DEF KeepMine
  <2>. QED BY <2>1, LockPulled
<1>10. ASSUME NEW t \in Tabs, TakeTheirs(t) PROVE Revisions'
  <2>1. UNCHANGED <<rev, foreign, known, fed, net>> /\ Release(t)
    BY <1>10 DEF TakeTheirs
  <2>. QED BY <2>1, LockPulled
<1>11. ASSUME NEW t \in Tabs, PullRead(t) PROVE Revisions'
  BY <1>11, <1>0 DEF PullRead
<1>12. ASSUME NEW t \in Tabs, PullFails(t) PROVE Revisions'
  <2>1. UNCHANGED <<rev, foreign, known, fed, net>> /\ Release(t)
    BY <1>12 DEF PullFails
  <2>. QED BY <2>1, LockPulled
<1>13. ASSUME NEW t \in Tabs, Reconcile(t) PROVE Revisions'
  <2>1. /\ UNCHANGED <<rev, foreign, fed, net>>
        /\ known' = [known EXCEPT ![t] = IF Detect THEN pulled[t] ELSE known[t]]
        /\ Release(t) \/ pulled' = [pulled EXCEPT ![t] = 1]
    BY <1>13 DEF Reconcile
  <2>2. \A u \in Tabs : pulled'[u] \in 1..rev
    BY <2>1, <1>0, LockPulled
  <2>. QED BY <2>1, <2>2, <1>0
<1>14. ASSUME NEW t \in Tabs, FlushSend(t) PROVE Revisions'
  <2>1. mem[t][InHand(t)].base <= rev
    BY <1>14, InHandIs DEF FlushSend, Pins
  <2>2. \A m \in net' : m \in net \/ (m.base = mem[t][InHand(t)].base /\ m.status = "sent")
    BY <1>14 DEF FlushSend
  <2>. QED BY <1>14, <2>1, <2>2, <1>0 DEF FlushSend
<1>15. ASSUME NEW t \in Tabs, Advance(t) PROVE Revisions'
  <2>1. UNCHANGED <<rev, foreign, known, fed, net>> /\ FlushNext(t)
    BY <1>15 DEF Advance
  <2>. QED BY <2>1, LockPulled
<1>16. ASSUME NEW t \in Tabs, NEW m \in net, FlushAcked(t, m) PROVE Revisions'
  <2>1. m.at \in 1..rev
    BY <1>16 DEF FlushAcked, Answered
  <2>2. /\ known' = [known EXCEPT ![t] = IF Detect THEN m.at ELSE known[t]]
        /\ pulled' = [pulled EXCEPT ![t] = m.at]
        /\ UNCHANGED <<rev, foreign, fed>> /\ net' \subseteq net
    BY <1>16 DEF FlushAcked, Answered
  <2>. QED BY <2>1, <2>2, <1>0
<1>17. ASSUME NEW t \in Tabs, NEW m \in net, FlushConflicted(t, m) PROVE Revisions'
  <2>1. m.at \in 1..rev
    BY <1>17 DEF FlushConflicted, Answered
  <2>2. /\ known' = [known EXCEPT ![t] = m.at] /\ Release(t)
        /\ UNCHANGED <<rev, foreign, fed>> /\ net' \subseteq net
    BY <1>17 DEF FlushConflicted, Answered
  <2>. QED BY <2>1, <2>2, <1>0, LockPulled
<1>18. ASSUME NEW t \in Tabs, NEW m \in net, FlushRefused(t, m) PROVE Revisions'
  <2>1. UNCHANGED <<rev, foreign, known, fed>> /\ net' \subseteq net /\ FlushNext(t)
    BY <1>18 DEF FlushRefused, Answered
  <2>. QED BY <2>1, LockPulled
<1>19. ASSUME NEW t \in Tabs, NEW m \in net, FlushLost(t, m) PROVE Revisions'
  <2>1. UNCHANGED <<rev, foreign, known, fed>> /\ net' \subseteq net /\ Release(t)
    BY <1>19 DEF FlushLost
  <2>. QED BY <2>1, LockPulled
<1>20. ASSUME NEW t \in Tabs, Crash(t) PROVE Revisions'
  <2>1. /\ known' = [known EXCEPT ![t] = rev] /\ fed' = [fed EXCEPT ![t] = rev]
        /\ UNCHANGED <<rev, foreign>> /\ net' \subseteq net
        /\ Release(t) \/ pulled' = pulled
    BY <1>20 DEF Crash
  <2>2. \A u \in Tabs : pulled'[u] \in 1..rev
    BY <2>1, LockPulled
  <2>. QED BY <2>1, <2>2, <1>0
<1>21. ASSUME NEW m \in net, Accept(m) PROVE Revisions'
  <2>1. rev' \in Nat /\ rev <= rev' /\ rev' \in 1..rev'
    BY <1>21, <1>0 DEF Accept
  <2>2. \A n \in net' : n \in net \/ (n.base = m.base /\ n.at = rev')
    BY <1>21 DEF Accept, Answer, Types, Posts
  <2>. QED BY <1>21, <2>1, <2>2, <1>0 DEF Accept
<1>22. ASSUME NEW m \in net, Conflict(m) PROVE Revisions'
  <2>2. \A n \in net' : n \in net \/ (n.base = m.base /\ n.at = rev)
    BY <1>22 DEF Conflict, Answer, Types, Posts
  <2>. QED BY <1>22, <2>2, <1>0 DEF Conflict
<1>23. ASSUME NEW m \in net, Refuse(m) PROVE Revisions'
  <2>2. \A n \in net' : n \in net \/ (n.base = m.base /\ n.at = rev)
    BY <1>23 DEF Refuse, Answer, Types, Posts
  <2>. QED BY <1>23, <2>2, <1>0 DEF Refuse
<1>24. ASSUME NEW m \in net, EditAnswered(m) PROVE Revisions'
  BY <1>24, <1>0 DEF EditAnswered
<1>25. ASSUME NEW m \in net, EditConflicted(m) PROVE Revisions'
  <2>1. m.at \in 1..rev /\ m.tab \in Tabs
    BY <1>25, <1>0 DEF EditConflicted
  <2>. QED BY <1>25, <2>1, <1>0 DEF EditConflicted
<1>26. ASSUME NEW m \in net, EditLost(m) PROVE Revisions'
  BY <1>26, <1>0 DEF EditLost
<1>27. ASSUME NEW f \in Fields, ForeignWrite(f) PROVE Revisions'
  BY <1>27, <1>0 DEF ForeignWrite
<1>28. CASE UNCHANGED vars
  BY <1>28 DEF vars
<1>. HIDE DEF Revisions
<1>. QED
  BY <1>1, <1>2, <1>3, <1>4, <1>5, <1>6, <1>7, <1>8, <1>9, <1>10, <1>11, <1>12, <1>13,
     <1>14, <1>15, <1>16, <1>17, <1>18, <1>19, <1>20, <1>21, <1>22, <1>23, <1>24, <1>25,
     <1>26, <1>27, <1>28, StepKinds DEF TabStep, PostStep

-----------------------------------------------------------------------------
(* The lock.                                                               *)

\* A queue's message on the wire belongs to the holder, which waits for it.
LEMMA QueuePosts ==
  ASSUME Types, LockHeld
  PROVE  /\ \A m \in net : m.seq # 0 => holder = m.tab /\ m.tab \in Tabs
         /\ \A t \in Tabs : holder = t /\ pc[t] # "waiting" => \A m \in net : m.seq = 0
         /\ holder = None => \A m \in net : m.seq = 0
         /\ \A m \in net : m.seq # 0 => \A n \in net \ {m} : n.seq = 0
<1>1. \A m \in net : m.tab \in Tabs /\ m.tab # None
  BY SyncConstants DEF Types, Posts
<1>. QED BY <1>1 DEF LockHeld

LEMMA LockFrame ==
  ASSUME Types, LockHeld, UNCHANGED <<holder, pc, todo>>,
         \A u \in Tabs : holder = u => DOMAIN mem[u] \subseteq DOMAIN mem'[u],
         \A m \in net' : m.seq = 0 \/ \E n \in net : n.seq = m.seq /\ n.tab = m.tab,
         \A m, n \in net' : m.seq # 0 /\ n.seq # 0 => m = n
  PROVE  LockHeld'
<1>1. \A u \in Tabs : InHand(u)' = InHand(u)
  BY DEF InHand
<1>2. \A u \in Tabs : pc[u] # "idle" => DOMAIN mem[u] \subseteq DOMAIN mem'[u]
  BY DEF LockHeld
<1>3. \A m \in net' : m.seq # 0 => pc[m.tab] = "waiting" /\ m.seq = InHand(m.tab) /\ m.tab \in Tabs
  BY DEF LockHeld, Types, Posts
<1>. QED BY <1>1, <1>2, <1>3 DEF LockHeld

LEMMA LockReleased ==
  ASSUME Types, LockHeld, NEW t \in Tabs, holder = t, Release(t),
         \A m \in net' : m.seq = 0,
         \A u \in Tabs : u # t => mem'[u] = mem[u]
  PROVE  LockHeld'
<1>1. holder' = None /\ \A u \in Tabs : pc'[u] = "idle" /\ todo'[u] = {}
  BY DEF Release, LockHeld, Types
<1>2. None \notin Tabs
  BY SyncConstants
<1>. QED BY <1>1, <1>2 DEF LockHeld

LEMMA LockAdvances ==
  ASSUME Types, LockHeld, NEW t \in Tabs, pc[t] \in {"waiting", "advancing"}, FlushNext(t),
         \A m \in net' : m.seq = 0,
         \A u \in Tabs : u # t => mem'[u] = mem[u],
         todo[t] \ {InHand(t)} \subseteq DOMAIN mem'[t]
  PROVE  LockHeld'
<1>1. holder = t /\ \A u \in Tabs : u # t => pc[u] = "idle" /\ todo[u] = {}
  BY DEF LockHeld
<1>2. CASE Release(t)
  BY <1>1, <1>2, LockReleased
<1>3. CASE ~Release(t)
  <2>1. /\ todo' = [todo EXCEPT ![t] = todo[t] \ {InHand(t)}] /\ todo[t] # {InHand(t)}
        /\ pc' = [pc EXCEPT ![t] = "flushing"] /\ holder' = holder
    BY <1>3 DEF FlushNext
  <2>2. todo[t] # {}
    BY DEF LockHeld
  <2>3. /\ todo'[t] = todo[t] \ {InHand(t)} /\ todo'[t] # {} /\ pc'[t] = "flushing"
        /\ \A u \in Tabs : u # t => pc'[u] = "idle" /\ todo'[u] = {}
    BY <2>1, <2>2, <1>1 DEF Types
  <2>. QED BY <1>1, <2>1, <2>3 DEF LockHeld
<1>. QED BY <1>2, <1>3

\* The holder goes from one stage to the next, with its memory as it was.
LEMMA LockMoves ==
  ASSUME Types, LockHeld, NEW t \in Tabs, holder' = t,
         \A u \in Tabs : u # t => pc[u] = "idle" /\ pc'[u] = "idle" /\ todo'[u] = todo[u],
         pc'[t] # "idle",
         todo'[t] # {} <=> pc'[t] \in {"flushing", "waiting", "advancing"},
         pc'[t] \in {"flushing", "waiting"} => todo'[t] \subseteq DOMAIN mem'[t],
         pc'[t] = "advancing" => todo'[t] \ {InHand(t)'} \subseteq DOMAIN mem'[t],
         pc'[t] \in {"pulling", "pulled"} => DOMAIN mem'[t] # {},
         \A m \in net' : m.seq = 0
  PROVE  LockHeld'
<1>1. \A u \in Tabs : u # t => todo[u] = {}
  BY DEF LockHeld
<1>. QED BY <1>1 DEF LockHeld

LEMMA LockStep == IInv /\ [Next]_vars => LockHeld'
<1>. SUFFICES ASSUME Types, LockHeld, [Next]_vars PROVE LockHeld'
  BY DEF IInv
<1>0. /\ holder \in Tabs \cup {None} /\ None \notin Tabs /\ pc \in [Tabs -> Stages]
      /\ DOMAIN mem = Tabs /\ todo \in [Tabs -> SUBSET Seqs]
  BY SyncConstants DEF Types
<1>u. \A m, n \in net : m.seq # 0 /\ n.seq # 0 => m = n
  BY DEF LockHeld
<1>h. \A t \in Tabs : holder = t <=> pc[t] # "idle"
  BY DEF LockHeld
<1>p. /\ \A t \in Tabs : pc[t] \notin {"idle", "waiting"} => \A m \in net : m.seq = 0
      /\ holder = None => \A m \in net : m.seq = 0
      /\ \A m \in net : m.seq # 0 => \A n \in net \ {m} : n.seq = 0
  BY <1>h, QueuePosts
<1>. USE DEF row, store, lockage, chain, history, fates
<1>1. ASSUME NEW t \in Tabs, NEW f \in Fields, Edit(t, f) PROVE LockHeld'
  <2>1. \A m \in net' : m \in net \/ m.seq = 0
    BY <1>1 DEF Edit
  <2>2. UNCHANGED <<holder, pc, todo, mem>>
    BY <1>1 DEF Edit, Type
  <2>. QED BY <2>1, <2>2, <1>u, LockFrame
<1>2. ASSUME NEW t \in Tabs, NEW f \in Fields, EditOffline(t, f) PROVE LockHeld'
  <2>2. UNCHANGED <<holder, pc, todo, mem, net>>
    BY <1>2 DEF EditOffline, Type
  <2>. QED BY <2>2, <1>u, LockFrame
<1>3. ASSUME NEW t \in Tabs, CaptureAlloc(t) PROVE LockHeld'
  <2>2. UNCHANGED <<holder, pc, todo, mem, net>>
    BY <1>3 DEF CaptureAlloc
  <2>. QED BY <2>2, <1>u, LockFrame
<1>4. ASSUME NEW t \in Tabs, CaptureEnqueue(t) PROVE LockHeld'
  <2>1. PICK s, e : mem' = [mem EXCEPT ![t] = Put(mem[t], s, e)]
    BY <1>4 DEF CaptureEnqueue
  <2>2. UNCHANGED <<holder, pc, todo, net>>
    BY <1>4 DEF CaptureEnqueue
  <2>3. \A u \in Tabs : DOMAIN mem[u] \subseteq DOMAIN mem'[u]
    BY <2>1, <1>0 DEF Put, Over
  <2>. QED BY <2>2, <2>3, <1>u, LockFrame
<1>5. ASSUME NEW t \in Tabs, Broadcast(t) PROVE LockHeld'
  <2>2. UNCHANGED <<holder, pc, todo, mem, net>>
    BY <1>5 DEF Broadcast
  <2>. QED BY <2>2, <1>u, LockFrame
<1>6. ASSUME NEW t \in Tabs, Heal(t) PROVE LockHeld'
  <2>2. UNCHANGED <<holder, pc, todo, mem, net>>
    BY <1>6 DEF Heal
  <2>. QED BY <2>2, <1>u, LockFrame
<1>7. ASSUME NEW t \in Tabs, NEW verb \in {"resync", "keep", "take"},
             NEW f \in Fields \cup {None}, Lock(t, verb, f)
      PROVE  LockHeld'
  <2>1. holder = None /\ holder' = t /\ pc' = [pc EXCEPT ![t] = "reloading"]
        /\ UNCHANGED <<todo, mem, net>>
    BY <1>7 DEF Lock
  <2>2. todo[t] = {}
    BY <2>1, <1>0 DEF LockHeld
  <2>. QED BY <2>1, <2>2, <1>0, <1>h, <1>p, LockMoves
<1>8. ASSUME NEW t \in Tabs, Reload(t) PROVE LockHeld'
  <2>1. /\ pc[t] = "reloading" /\ holder = t /\ net' = net /\ todo[t] = {}
        /\ mem' = [mem EXCEPT ![t] = snap[t]]
    BY <1>8, <1>h DEF Reload, LockHeld
  <2>2. CASE Release(t)
    BY <2>1, <2>2, <1>0, <1>p, LockReleased
  <2>3. CASE ~Release(t)
    <3>1. /\ holder' = holder /\ todo' = todo /\ DOMAIN snap[t] # {}
          /\ pc' = [pc EXCEPT ![t] = IF Detect THEN "pulling" ELSE "pulled"]
      BY <1>8, <2>3 DEF Reload
    <3>2. /\ pc'[t] \in {"pulling", "pulled"} /\ DOMAIN mem'[t] # {}
          /\ \A u \in Tabs : u # t => pc[u] = "idle" /\ pc'[u] = "idle"
      BY <2>1, <3>1, <1>0, <1>h
    <3>. QED BY <2>1, <3>1, <3>2, <1>0, <1>p, LockMoves
  <2>. QED BY <2>2, <2>3
<1>9. ASSUME NEW t \in Tabs, KeepMine(t) PROVE LockHeld'
  <2>1. /\ pc[t] = "reloading" /\ holder = t /\ net' = net /\ Release(t)
        /\ \E q : mem' = [mem EXCEPT ![t] = q]
    BY <1>9, <1>h DEF KeepMine
  <2>. QED BY <2>1, <1>0, <1>p, LockReleased
<1>10. ASSUME NEW t \in Tabs, TakeTheirs(t) PROVE LockHeld'
  <2>1. /\ pc[t] = "reloading" /\ holder = t /\ net' = net /\ Release(t)
        /\ \E q : mem' = [mem EXCEPT ![t] = q]
    BY <1>10, <1>h DEF TakeTheirs
  <2>. QED BY <2>1, <1>0, <1>p, LockReleased
<1>11. ASSUME NEW t \in Tabs, PullRead(t) PROVE LockHeld'
  <2>1. /\ pc[t] = "pulling" /\ holder = t /\ pc' = [pc EXCEPT ![t] = "pulled"]
        /\ UNCHANGED <<holder, todo, mem, net>>
    BY <1>11, <1>h DEF PullRead
  <2>2. todo[t] = {} /\ DOMAIN mem[t] # {}
    BY <2>1 DEF LockHeld
  <2>. QED BY <2>1, <2>2, <1>0, <1>h, <1>p, LockMoves
<1>12. ASSUME NEW t \in Tabs, PullFails(t) PROVE LockHeld'
  <2>1. pc[t] \in {"pulling", "pulled"} /\ holder = t /\ UNCHANGED <<mem, net>> /\ Release(t)
    BY <1>12, <1>h DEF PullFails
  <2>. QED BY <2>1, <1>p, LockReleased
<1>13. ASSUME NEW t \in Tabs, Reconcile(t) PROVE LockHeld'
  <2>1. pc[t] = "pulled" /\ holder = t /\ UNCHANGED <<mem, net>> /\ DOMAIN mem[t] # {}
    BY <1>13, <1>h DEF Reconcile, LockHeld
  <2>2. CASE Release(t)
    BY <2>1, <2>2, <1>p, LockReleased
  <2>3. CASE ~Release(t)
    <3>1. /\ todo' = [todo EXCEPT ![t] = DOMAIN mem[t]] /\ holder' = holder
          /\ pc' = [pc EXCEPT ![t] = "flushing"]
      BY <1>13, <2>3 DEF Reconcile
    <3>2. todo'[t] = DOMAIN mem'[t] /\ todo'[t] # {} /\ pc'[t] = "flushing"
      BY <2>1, <3>1, <1>0
    <3>3. \A u \in Tabs : u # t => pc[u] = "idle" /\ pc'[u] = "idle" /\ todo'[u] = todo[u]
      BY <2>1, <3>1, <1>0, <1>h
    <3>. QED BY <2>1, <3>1, <3>2, <3>3, <1>p, LockMoves
  <2>. QED BY <2>2, <2>3
<1>14. ASSUME NEW t \in Tabs, FlushSend(t) PROVE LockHeld'
  <2>1. /\ pc[t] = "flushing" /\ holder = t /\ pc' = [pc EXCEPT ![t] = "waiting"]
        /\ UNCHANGED <<holder, todo, mem>>
    BY <1>14, <1>h DEF FlushSend
  <2>. DEFINE e == mem[t][InHand(t)]
              m == [tab |-> t, seq |-> InHand(t), field |-> e.field, val |-> e.val,
                    base |-> e.base, status |-> "sent", at |-> 0]
  <2>2. net' = net \cup {m} /\ m.tab = t /\ m.seq = InHand(t)
    BY <1>14 DEF FlushSend
  <2>. HIDE DEF m
  <2>3. \A n \in net : n.seq = 0
    BY <2>1, <1>p
  <2>4. todo[t] # {} /\ todo[t] \subseteq DOMAIN mem[t]
    BY <2>1 DEF LockHeld
  <2>5. \A u \in Tabs : u # t => pc[u] = "idle" /\ pc'[u] = "idle" /\ todo[u] = {}
    BY <2>1, <1>0, <1>h DEF LockHeld
  <2>6. \A u \in Tabs : InHand(u)' = InHand(u)
    BY <2>1 DEF InHand
  <2>7. pc'[t] = "waiting"
    BY <2>1, <1>0
  <2>. QED BY <2>1, <2>2, <2>3, <2>4, <2>5, <2>6, <2>7 DEF LockHeld
<1>15. ASSUME NEW t \in Tabs, Advance(t) PROVE LockHeld'
  <2>1. pc[t] = "advancing" /\ net' = net /\ FlushNext(t)
    BY <1>15 DEF Advance
  <2>2. PICK r : mem' = [mem EXCEPT ![t] = Over(r, mem[t])]
    BY <1>15 DEF Advance
  <2>3. todo[t] \ {InHand(t)} \subseteq DOMAIN mem'[t]
    BY <2>1, <2>2, <1>0 DEF LockHeld, Over
  <2>. QED BY <2>1, <2>2, <2>3, <1>0, <1>p, LockAdvances
<1>16. ASSUME NEW t \in Tabs, NEW m \in net, FlushAcked(t, m) PROVE LockHeld'
  <2>1. /\ pc[t] = "waiting" /\ m.tab = t /\ m.seq # 0 /\ net' = net \ {m} /\ m.seq = InHand(t)
        /\ UNCHANGED <<holder, todo>> /\ pc' = [pc EXCEPT ![t] = "advancing"]
        /\ mem' = [mem EXCEPT ![t] = Without(mem[t], m.seq)]
    BY <1>16, AnsweredIs DEF FlushAcked, Answered
  <2>2. todo[t] # {} /\ todo[t] \subseteq DOMAIN mem[t]
    BY <2>1 DEF LockHeld
  <2>3. InHand(t)' = InHand(t) /\ DOMAIN mem'[t] = DOMAIN mem[t] \ {InHand(t)}
    BY <2>1, <1>0 DEF InHand, Without, Restrict
  <2>4. \A n \in net' : n.seq = 0
    BY <2>1, <1>p
  <2>5. pc'[t] = "advancing" /\ \A u \in Tabs : u # t => pc[u] = "idle" /\ pc'[u] = "idle"
    BY <2>1, <1>0, <1>h
  <2>6. holder' = t
    BY <2>1, <1>h
  <2>. QED BY <2>1, <2>2, <2>3, <2>4, <2>5, <2>6, LockMoves
<1>17. ASSUME NEW t \in Tabs, NEW m \in net, FlushConflicted(t, m) PROVE LockHeld'
  <2>1. holder = t /\ m.seq # 0 /\ net' = net \ {m} /\ mem' = mem /\ Release(t)
    BY <1>17, AnsweredIs DEF FlushConflicted, Answered
  <2>. QED BY <2>1, <1>p, LockReleased
<1>18. ASSUME NEW t \in Tabs, NEW m \in net, FlushRefused(t, m) PROVE LockHeld'
  <2>1. /\ pc[t] = "waiting" /\ m.tab = t /\ m.seq # 0 /\ net' = net \ {m} /\ m.seq = InHand(t)
        /\ FlushNext(t) /\ mem' = [mem EXCEPT ![t] = Without(mem[t], m.seq)]
    BY <1>18, AnsweredIs DEF FlushRefused, Answered
  <2>2. todo[t] \subseteq DOMAIN mem[t]
    BY <2>1 DEF LockHeld
  <2>3. DOMAIN mem'[t] = DOMAIN mem[t] \ {InHand(t)}
    BY <2>1, <1>0 DEF Without, Restrict
  <2>. QED BY <2>1, <2>2, <2>3, <1>p, <1>0, LockAdvances
<1>19. ASSUME NEW t \in Tabs, NEW m \in net, FlushLost(t, m) PROVE LockHeld'
  <2>1. holder = t /\ m.seq # 0 /\ net' = net \ {m} /\ mem' = mem /\ Release(t)
    BY <1>19, AnsweredIs DEF FlushLost
  <2>. QED BY <2>1, <1>p, LockReleased
<1>20. ASSUME NEW t \in Tabs, Crash(t) PROVE LockHeld'
  <2>1. mem' = [mem EXCEPT ![t] = durable] /\ net' = {m \in net : m.tab # t}
    BY <1>20 DEF Crash
  <2>2. CASE holder = t
    <3>1. \A m \in net' : m.seq = 0
      BY <2>1, <2>2, QueuePosts
    <3>. QED BY <1>20, <2>1, <2>2, <3>1, <1>0, LockReleased DEF Crash
  <2>3. CASE holder # t
    <3>1. UNCHANGED <<holder, pc, todo>>
      BY <1>20, <2>3 DEF Crash
    <3>2. \A u \in Tabs : holder = u => DOMAIN mem[u] \subseteq DOMAIN mem'[u]
      BY <2>1, <2>3, <1>0
    <3>. QED BY <2>1, <3>1, <3>2, <1>u, LockFrame
  <2>. QED BY <2>2, <2>3
<1>21. ASSUME NEW m \in net, NEW status, NEW r, Answer(m, status, r),
              UNCHANGED <<holder, pc, todo, mem>>
       PROVE  LockHeld'
  <2>. DEFINE n == [m EXCEPT !.status = status, !.at = r]
  <2>1. net' = (net \ {m}) \cup {n}
    BY <1>21 DEF Answer
  <2>2. n.seq = m.seq /\ n.tab = m.tab
    BY DEF Types, Posts
  <2>. HIDE DEF n
  <2>. QED BY <1>21, <2>1, <2>2, <1>u, LockFrame
<1>22. ASSUME NEW m \in net, Accept(m) \/ Conflict(m) \/ Refuse(m) PROVE LockHeld'
  BY <1>21, <1>22 DEF Accept, Conflict, Refuse
<1>23. ASSUME NEW m \in net, EditAnswered(m) \/ EditConflicted(m) \/ EditLost(m) PROVE LockHeld'
  <2>1. UNCHANGED <<holder, pc, todo, mem>> /\ net' = net \ {m}
    BY <1>23 DEF EditAnswered, EditConflicted, EditLost
  <2>. QED BY <2>1, <1>u, LockFrame
<1>27. ASSUME NEW f \in Fields, ForeignWrite(f) PROVE LockHeld'
  <2>2. UNCHANGED <<holder, pc, todo, mem, net>>
    BY <1>27 DEF ForeignWrite
  <2>. QED BY <2>2, <1>u, LockFrame
<1>28. CASE UNCHANGED vars
  <2>2. UNCHANGED <<holder, pc, todo, mem, net>>
    BY <1>28 DEF vars
  <2>. QED BY <2>2, <1>u, LockFrame
<1>. QED
  BY <1>1, <1>2, <1>3, <1>4, <1>5, <1>6, <1>7, <1>8, <1>9, <1>10, <1>11, <1>12, <1>13,
     <1>14, <1>15, <1>16, <1>17, <1>18, <1>19, <1>20, <1>22, <1>23, <1>27, <1>28,
     StepKinds DEF TabStep, PostStep

-----------------------------------------------------------------------------
(* What is written down.                                                   *)

\* A fact is written if it is in one of the queues or a tab's copy.
LEMMA WrittenIs ==
  ASSUME NEW a
  PROVE  a \in Written <=>
           \/ a \in Mentions(durable) \/ a \in Mentions(dead)
           \/ \E t \in Tabs : a \in Mentions(mem[t])
           \/ \E t \in Tabs : a \in Mentions(snap[t])
BY DEF Written, WrittenBy

LEMMA WrittenTypes ==
  ASSUME Types
  PROVE  \A a \in Written : a.seq \in Seqs /\ a.field \in Fields /\ a.val \in Edits
<1>1. ASSUME NEW q, IsQueue(q)
      PROVE  \A a \in Mentions(q) : a.seq \in Seqs /\ a.field \in Fields /\ a.val \in Edits
  <2>1. \A s \in DOMAIN q : s \in Seqs /\ q[s] \in Entry
    BY <1>1 DEF IsQueue
  <2>. QED BY <2>1 DEF Mentions, Ref, Entry
<1>. QED BY <1>1, WrittenIs DEF Types

LEMMA WrittenIn ==
  /\ \A s \in DOMAIN durable : Ref(s, durable[s]) \in Written
  /\ \A s \in DOMAIN dead : Ref(s, dead[s]) \in Written
  /\ \A t \in Tabs : \A s \in DOMAIN mem[t] : Ref(s, mem[t][s]) \in Written
  /\ \A t \in Tabs : \A s \in DOMAIN snap[t] : Ref(s, snap[t][s]) \in Written
BY WrittenIs DEF Mentions

\* What the operators on queues add to what is written.
LEMMA MentionsOf ==
  ASSUME NEW q
  PROVE  /\ \A s : Mentions(Without(q, s)) \subseteq Mentions(q)
         /\ \A s, e : Mentions(Put(q, s, e)) \subseteq Mentions(q) \cup {Ref(s, e)}
         /\ \A r : Mentions(Over(r, q)) \subseteq Mentions(q) \cup Mentions(r)
         /\ Mentions(Empty) = {}
<1>1. ASSUME NEW s PROVE Mentions(Without(q, s)) \subseteq Mentions(q)
  BY DEF Mentions, Without, Restrict
<1>2. ASSUME NEW r PROVE Mentions(Over(r, q)) \subseteq Mentions(q) \cup Mentions(r)
  BY DEF Mentions, Over
<1>3. ASSUME NEW s, NEW e PROVE Mentions(Put(q, s, e)) \subseteq Mentions(q) \cup {Ref(s, e)}
  BY DEF Mentions, Put, Over
<1>4. Mentions(Empty) = {}
  BY DEF Mentions, Empty
<1>. QED BY <1>1, <1>2, <1>3, <1>4

LEMMA WrittenWithin ==
  ASSUME NEW W, Mentions(durable') \subseteq W, Mentions(dead') \subseteq W,
         \A t \in Tabs : Mentions(mem'[t]) \subseteq W /\ Mentions(snap'[t]) \subseteq W
  PROVE  Written' \subseteq W
BY DEF Written, WrittenBy

\* The end of the lock work forgets the reload, and writes nothing.
LEMMA LockSnap ==
  ASSUME Types, NEW t \in Tabs, Release(t) \/ FlushNext(t)
  PROVE  \A u \in Tabs : snap'[u] \in {snap[u], Empty}
BY DEF Release, FlushNext, Types

\* Only a capture writes something new.
LEMMA WrittenOld ==
  ASSUME Types, LockHeld, [Next]_vars
  PROVE  Written' \subseteq Written \/ \E t \in Tabs : CaptureEnqueue(t)
<1>. USE DEF row, store, lockage, chain, history, fates
<1>0. /\ DOMAIN mem = Tabs /\ DOMAIN snap = Tabs
      /\ Mentions(durable) \subseteq Written /\ Mentions(dead) \subseteq Written
      /\ \A t \in Tabs : Mentions(mem[t]) \subseteq Written /\ Mentions(snap[t]) \subseteq Written
      /\ Mentions(Empty) = {}
  BY MentionsOf, WrittenIs DEF Types
<1>1. ASSUME durable' = durable, dead' = dead, mem' = mem, snap' = snap
      PROVE  Written' \subseteq Written
  BY <1>0, <1>1, WrittenWithin
<1>2. ASSUME NEW t \in Tabs, durable' = durable, dead' = dead, mem' = mem, Release(t) PROVE Written' \subseteq Written
  BY <1>0, <1>2, LockSnap, WrittenWithin
<1>3. ASSUME NEW t \in Tabs, NEW verb, NEW f, Lock(t, verb, f) PROVE Written' \subseteq Written
  <2>1. snap' = [snap EXCEPT ![t] = durable] /\ UNCHANGED <<durable, dead, mem>>
    BY <1>3 DEF Lock
  <2>. QED BY <2>1, <1>0, WrittenWithin
<1>4. ASSUME NEW t \in Tabs, Reload(t) PROVE Written' \subseteq Written
  <2>1. UNCHANGED <<durable, dead>> /\ \A u \in Tabs : mem'[u] \in {mem[u], snap[t]}
    BY <1>4, <1>0 DEF Reload
  <2>2. \A u \in Tabs : snap'[u] \in {snap[u], Empty}
    BY <1>4, <1>0, LockSnap DEF Reload
  <2>. QED BY <2>1, <2>2, <1>0, WrittenWithin
<1>5. ASSUME NEW t \in Tabs, KeepMine(t) PROVE Written' \subseteq Written
  <2>. DEFINE s == EntryOf(snap[t], want[t].field)
              e == [snap[t][s] EXCEPT !.base = known[t]]
  <2>1. s # 0 => s \in DOMAIN snap[t] /\ snap[t][s] \in Entry
    BY EntryFound DEF Types, IsQueue
  <2>2. s # 0 => Ref(s, e) = Ref(s, snap[t][s])
    BY <2>1 DEF Ref, Entry
  <2>3. s # 0 => Ref(s, e) \in Written
    BY <2>1, <2>2, WrittenIn
  <2>4. IF s = 0
        THEN mem' = [mem EXCEPT ![t] = snap[t]] /\ durable' = durable
        ELSE /\ mem' = [mem EXCEPT ![t] = Put(snap[t], s, e)]
             /\ durable' = Put(durable, s, e)
    BY <1>5 DEF KeepMine
  <2>5. dead' = dead /\ \A u \in Tabs : snap'[u] \in {snap[u], Empty}
    BY <1>5, LockSnap DEF KeepMine
  <2>. HIDE DEF s, e
  <2>6. CASE s = 0
    BY <2>4, <2>5, <2>6, <1>0, WrittenWithin
  <2>7. CASE s # 0
    <3>1. Mentions(Put(snap[t], s, e)) \subseteq Written /\ Mentions(Put(durable, s, e)) \subseteq Written
      BY <2>3, <2>7, <1>0, MentionsOf
    <3>. QED BY <3>1, <2>4, <2>5, <2>7, <1>0, WrittenWithin
  <2>. QED BY <2>6, <2>7
<1>6. ASSUME NEW t \in Tabs, TakeTheirs(t) PROVE Written' \subseteq Written
  <2>1. \E s : \A u \in Tabs : /\ mem'[u] \in {mem[u], snap[t], Without(snap[t], s)}
                              /\ durable' \in {durable, Without(durable, s)}
    BY <1>6, <1>0 DEF TakeTheirs
  <2>2. dead' = dead /\ \A u \in Tabs : snap'[u] \in {snap[u], Empty}
    BY <1>6, LockSnap DEF TakeTheirs
  <2>3. \A s : Mentions(Without(snap[t], s)) \subseteq Written /\ Mentions(Without(durable, s)) \subseteq Written
    BY <1>0, MentionsOf
  <2>. QED BY <2>1, <2>2, <2>3, <1>0, WrittenWithin
<1>7. ASSUME NEW t \in Tabs, Reconcile(t) PROVE Written' \subseteq Written
  <2>1. UNCHANGED <<durable, dead, mem>> /\ (Release(t) \/ snap' = snap)
    BY <1>7 DEF Reconcile
  <2>. QED BY <2>1, <1>1, <1>2
<1>8. ASSUME NEW t \in Tabs, Advance(t) PROVE Written' \subseteq Written
  <2>. DEFINE moved == {s \in DOMAIN mem[t] : Detect /\ s > InHand(t)}
              fresh == [s \in moved |-> [mem[t][s] EXCEPT !.base = known[t]]]
  <2>1. \A s \in moved : Ref(s, fresh[s]) = Ref(s, mem[t][s]) /\ s \in DOMAIN mem[t]
    BY DEF Ref, Types, IsQueue, Entry
  <2>2. Mentions(fresh) \subseteq Written
    BY <2>1, WrittenIn DEF Mentions
  <2>3. mem' = [mem EXCEPT ![t] = Over(fresh, mem[t])] /\ durable' = Over(fresh, durable)
    BY <1>8 DEF Advance
  <2>. HIDE DEF moved, fresh
  <2>4. Mentions(Over(fresh, mem[t])) \subseteq Written /\ Mentions(Over(fresh, durable)) \subseteq Written
    BY <2>2, <1>0, MentionsOf
  <2>5. dead' = dead /\ \A u \in Tabs : snap'[u] \in {snap[u], Empty}
    BY <1>8, LockSnap DEF Advance
  <2>. QED BY <2>3, <2>4, <2>5, <1>0, WrittenWithin
<1>9. ASSUME NEW t \in Tabs, NEW m \in net, FlushAcked(t, m) PROVE Written' \subseteq Written
  <2>1. /\ mem' = [mem EXCEPT ![t] = Without(mem[t], m.seq)]
        /\ durable' = Without(durable, m.seq) /\ UNCHANGED <<dead, snap>>
    BY <1>9 DEF FlushAcked
  <2>2. /\ Mentions(Without(mem[t], m.seq)) \subseteq Written
        /\ Mentions(Without(durable, m.seq)) \subseteq Written
    BY <1>0, MentionsOf
  <2>. QED BY <2>1, <2>2, <1>0, WrittenWithin
<1>10. ASSUME NEW t \in Tabs, NEW m \in net, FlushRefused(t, m) PROVE Written' \subseteq Written
  <2>1. /\ mem' = [mem EXCEPT ![t] = Without(mem[t], m.seq)]
        /\ durable' = Without(durable, m.seq) /\ dead' = Put(dead, m.seq, mem[t][m.seq])
    BY <1>10 DEF FlushRefused
  <2>2. m.seq \in DOMAIN mem[t]
    BY <1>10, AnsweredIs DEF FlushRefused, Answered
  <2>3. Ref(m.seq, mem[t][m.seq]) \in Written
    BY <2>2, WrittenIn
  <2>4. /\ Mentions(Without(mem[t], m.seq)) \subseteq Written
        /\ Mentions(Without(durable, m.seq)) \subseteq Written
        /\ Mentions(Put(dead, m.seq, mem[t][m.seq])) \subseteq Written
    BY <2>3, <1>0, MentionsOf
  <2>5. \A u \in Tabs : snap'[u] \in {snap[u], Empty}
    BY <1>10, LockSnap DEF FlushRefused
  <2>. QED BY <2>1, <2>4, <2>5, <1>0, WrittenWithin
<1>11. ASSUME NEW t \in Tabs, Crash(t) PROVE Written' \subseteq Written
  <2>1. mem' = [mem EXCEPT ![t] = durable] /\ UNCHANGED <<durable, dead>>
    BY <1>11 DEF Crash
  <2>2. \A u \in Tabs : snap'[u] \in {snap[u], Empty}
    BY <1>11, LockSnap DEF Crash
  <2>. QED BY <2>1, <2>2, <1>0, WrittenWithin
<1>12. ASSUME NEW t \in Tabs, TabStep(t), ~CaptureEnqueue(t) PROVE Written' \subseteq Written
  <2>1. CASE \/ \E f \in Fields : Edit(t, f) \/ EditOffline(t, f)
             \/ CaptureAlloc(t) \/ Broadcast(t) \/ Heal(t) \/ PullRead(t) \/ FlushSend(t)
    BY <2>1, <1>1 DEF Edit, EditOffline, Type, CaptureAlloc, Broadcast, Heal, PullRead, FlushSend
  <2>2. CASE \/ PullFails(t) \/ \E m \in net : FlushConflicted(t, m) \/ FlushLost(t, m)
    BY <2>2, <1>2 DEF PullFails, FlushConflicted, FlushLost
  <2>. QED BY <1>12, <2>1, <2>2, <1>3, <1>4, <1>5, <1>6, <1>7, <1>8, <1>9, <1>10, <1>11
           DEF TabStep
<1>13. ASSUME NEW m \in net, PostStep(m) PROVE Written' \subseteq Written
  BY <1>13, <1>1
     DEF PostStep, Accept, Conflict, Refuse, EditAnswered, EditConflicted, EditLost
<1>14. ASSUME NEW f \in Fields, ForeignWrite(f) PROVE Written' \subseteq Written
  BY <1>14, <1>1 DEF ForeignWrite
<1>15. CASE UNCHANGED vars
  BY <1>15, <1>1 DEF vars
<1>. QED BY <1>12, <1>13, <1>14, <1>15, StepKinds

-----------------------------------------------------------------------------
(* Names and places.                                                       *)

LEMMA EnqueueWrites ==
  ASSUME Types, NEW t \in Tabs, CaptureEnqueue(t)
  PROVE  LET c == Head(captures[t])
             x == EntryOf(mem[t], c.field)
             s == IF x # 0 THEN x ELSE alloc[t]
         IN  /\ s \in Seqs /\ c \in Entry
             /\ x # 0 => x \in DOMAIN mem[t] /\ mem[t][x].field = c.field
             /\ Written' \subseteq Written \cup {Ref(s, c)}
<1>. DEFINE c == Head(captures[t])
            x == EntryOf(mem[t], c.field)
            s == IF x # 0 THEN x ELSE alloc[t]
            e == IF x # 0 THEN [mem[t][x] EXCEPT !.val = c.val] ELSE c
            W == Written \cup {Ref(s, c)}
<1>1. captures[t] # <<>> /\ captures[t] \in Seq(Entry) /\ s # 0
  BY DEF CaptureEnqueue, Types
<1>2. c \in Entry
  BY <1>1, DropHead
<1>3. x # 0 => x \in DOMAIN mem[t] /\ mem[t][x].field = c.field /\ x \in Seqs /\ mem[t][x] \in Entry
  <2>1. IsQueue(mem[t])
    BY DEF Types
  <2>2. x # 0 => x \in DOMAIN mem[t] /\ mem[t][x].field = c.field
    BY <2>1, EntryFound
  <2>. QED BY <2>1, <2>2 DEF IsQueue
<1>4. s \in Seqs
  BY <1>1, <1>3 DEF Types, Seqs
<1>5. Ref(s, e) = Ref(s, c)
  <2>1. CASE x # 0
    BY <2>1, <1>2, <1>3 DEF Ref, Entry
  <2>2. CASE x = 0
    BY <2>2
  <2>. QED BY <2>1, <2>2
<1>6. /\ mem' = [mem EXCEPT ![t] = Put(mem[t], s, e)] /\ durable' = Put(durable, s, e)
      /\ dead' = dead /\ snap' = snap
  BY DEF CaptureEnqueue, lockage
<1>. HIDE DEF c, x, s, e
<1>7. /\ Mentions(Put(mem[t], s, e)) \subseteq Mentions(mem[t]) \cup {Ref(s, c)}
      /\ Mentions(Put(durable, s, e)) \subseteq Mentions(durable) \cup {Ref(s, c)}
  BY <1>5, MentionsOf
<1>8. /\ DOMAIN mem = Tabs
      /\ Mentions(durable) \subseteq Written /\ Mentions(dead) \subseteq Written
      /\ \A u \in Tabs : Mentions(mem[u]) \subseteq Written /\ Mentions(snap[u]) \subseteq Written
  BY WrittenIs DEF Types
<1>9. Written' \subseteq W
  <2>1. \A u \in Tabs : mem'[u] = IF u = t THEN Put(mem[t], s, e) ELSE mem[u]
    BY <1>6, <1>8
  <2>2. \A u \in Tabs : Mentions(mem'[u]) \subseteq W /\ Mentions(snap'[u]) \subseteq W
    BY <2>1, <1>6, <1>7, <1>8
  <2>3. Mentions(durable') \subseteq W /\ Mentions(dead') \subseteq W
    BY <1>6, <1>7, <1>8
  <2>. HIDE DEF W
  <2>. QED BY <2>2, <2>3, WrittenWithin
<1>. QED BY <1>2, <1>3, <1>4, <1>9 DEF c, x, s

LEMMA NamesFrame ==
  ASSUME Types, Names, Written' \subseteq Written, nextSeq' = nextSeq,
         \A t \in Tabs : /\ alloc'[t] \in {0, alloc[t]}
                         /\ alloc'[t] # 0 => captures'[t] # <<>>,
         \A m \in net' : \/ m.seq = 0
                         \/ \E n \in net : n.seq = m.seq /\ n.field = m.field
                         \/ \E a \in Written : a.seq = m.seq /\ a.field = m.field
  PROVE  Names'
<1>1. /\ \A a \in Written : a.seq \in Nat \ {0}
      /\ nextSeq \in Nat \ {0}
  BY WrittenTypes DEF Types, Seqs
<1>2. \A m \in net' : m.seq < nextSeq /\ \A a \in Written : a.seq = m.seq => a.field = m.field
  BY <1>1 DEF Names
<1>3. \A t \in Tabs : \A m \in net' : alloc'[t] = m.seq => m.seq = 0
  BY <1>1 DEF Names
<1>4. \A t \in Tabs : /\ alloc'[t] < nextSeq /\ \A a \in Written : alloc'[t] # a.seq
  BY <1>1 DEF Names
<1>5. \A t, u \in Tabs : alloc'[t] = alloc'[u] => t = u \/ alloc'[t] = 0
  BY DEF Names
<1>. QED BY <1>1, <1>2, <1>3, <1>4, <1>5 DEF Names

LEMMA AnswerKeeps ==
  ASSUME Types, NEW m \in net, NEW status, NEW r, Answer(m, status, r)
  PROVE  \E n : /\ net' = (net \ {m}) \cup {n} /\ n.status = status /\ n.at = r
                /\ n.tab = m.tab /\ n.seq = m.seq /\ n.field = m.field /\ n.val = m.val
                /\ n.base = m.base
<1>. DEFINE n == [m EXCEPT !.status = status, !.at = r]
<1>1. net' = (net \ {m}) \cup {n}
  BY DEF Answer
<1>2. /\ n.status = status /\ n.at = r
      /\ n.tab = m.tab /\ n.seq = m.seq /\ n.field = m.field /\ n.val = m.val /\ n.base = m.base
  BY DEF Types, Posts
<1>. HIDE DEF n
<1>. QED BY <1>1, <1>2

LEMMA CaptureIs ==
  ASSUME Types, NEW t \in Tabs, NEW m, m.field \in Fields, m.val \in Edits, m.base \in Nat,
         Capture(t, m)
  PROVE  /\ \A u \in Tabs : u # t => captures'[u] = captures[u]
         /\ Len(captures[t]) \in Nat
         /\ captures'[t] # <<>> /\ Len(captures'[t]) = Len(captures[t]) + 1
         /\ \A i \in 1..Len(captures[t]) : captures'[t][i] = captures[t][i]
         /\ captures'[t][Len(captures[t]) + 1].val = m.val
         /\ captures'[t][Len(captures[t]) + 1].base = IF Detect THEN m.base ELSE 0
<1>. DEFINE c == [field |-> m.field, val |-> m.val, base |-> IF Detect THEN m.base ELSE 0]
<1>1. c \in Entry /\ c.val = m.val /\ c.base = IF Detect THEN m.base ELSE 0
  BY DEF Entry
<1>2. captures' = [captures EXCEPT ![t] = Append(captures[t], c)] /\ captures[t] \in Seq(Entry)
  BY DEF Capture, Types
<1>3. captures \in [Tabs -> Seq(Entry)]
  BY DEF Types
<1>. HIDE DEF c
<1>4. captures'[t] = Append(captures[t], c) /\ \A u \in Tabs : u # t => captures'[u] = captures[u]
  BY <1>2, <1>3
<1>5. Len(captures[t]) \in Nat
  BY <1>2, LenProperties
<1>6. /\ Len(Append(captures[t], c)) = Len(captures[t]) + 1 /\ Append(captures[t], c) # <<>>
      /\ \A i \in 1..Len(captures[t]) : Append(captures[t], c)[i] = captures[t][i]
      /\ Append(captures[t], c)[Len(captures[t]) + 1] = c
  BY <1>1, <1>2, AppendProperties
<1>. QED BY <1>1, <1>4, <1>5, <1>6

LEMMA NamesStep == IInv /\ [Next]_vars => Names'
<1>. SUFFICES ASSUME Types, LockHeld, Names, [Next]_vars PROVE Names'
  BY DEF IInv
<1>0. /\ alloc \in [Tabs -> Nat] /\ nextSeq \in Nat \ {0}
      /\ captures \in [Tabs -> Seq(Entry)] /\ net \subseteq Posts
      /\ \A t \in Tabs : alloc[t] # 0 => captures[t] # <<>>
  BY DEF Types, Names, Seqs
<1>. USE DEF row, store, lockage, chain, history, fates
<1>q. ASSUME nextSeq' = nextSeq, alloc' = alloc, captures' = captures, net' \subseteq net,
             Written' \subseteq Written
      PROVE  Names'
  BY <1>q, <1>0, NamesFrame
<1>1. ASSUME NEW t \in Tabs, NEW f \in Fields, Edit(t, f) PROVE Names'
  <2>1. \A m \in net' : m \in net \/ m.seq = 0
    BY <1>1 DEF Edit
  <2>2. nextSeq' = nextSeq /\ alloc' = alloc /\ captures' = captures
    BY <1>1 DEF Edit, Type
  <2>3. Written' \subseteq Written
    BY <1>1 DEF Edit, Type, Written, WrittenBy
  <2>. QED BY <2>1, <2>2, <2>3, <1>0, NamesFrame
<1>2. ASSUME NEW t \in Tabs, NEW m, m.field \in Fields, m.val \in Edits, m.base \in Nat,
             Capture(t, m), nextSeq' = nextSeq, alloc' = alloc, net' \subseteq net,
             Written' \subseteq Written
      PROVE  Names'
  <2>1. \A u \in Tabs : captures[u] # <<>> => captures'[u] # <<>>
    BY <1>2, CaptureIs
  <2>. QED BY <2>1, <1>2, <1>0, NamesFrame
<1>3. ASSUME NEW t \in Tabs, NEW f \in Fields, EditOffline(t, f) PROVE Names'
  <2>1. edits' \in Edits /\ known[t] \in Nat
    BY <1>3, SyncConstants DEF EditOffline, Type, Edits, Types
  <2>2. nextSeq' = nextSeq /\ alloc' = alloc /\ net' = net
    BY <1>3 DEF EditOffline, Type
  <2>3. Written' \subseteq Written
    BY <1>3 DEF EditOffline, Type, Written, WrittenBy
  <2>. QED BY <1>2, <1>3, <2>1, <2>2, <2>3 DEF EditOffline
<1>4. ASSUME NEW t \in Tabs, CaptureAlloc(t) PROVE Names'
  <2>1. /\ alloc' = [alloc EXCEPT ![t] = nextSeq] /\ nextSeq' = nextSeq + 1
        /\ net' = net /\ captures' = captures /\ captures[t] # <<>>
    BY <1>4 DEF CaptureAlloc
  <2>2. Written' = Written
    BY <1>4 DEF CaptureAlloc, Written, WrittenBy
  <2>3. /\ \A a \in Written : a.seq \in Nat /\ a.seq < nextSeq
        /\ \A m \in net : m.seq \in Nat /\ m.seq < nextSeq
        /\ \A u \in Tabs : alloc[u] \in Nat /\ alloc[u] < nextSeq
    BY <1>0, WrittenTypes DEF Names, Posts, Seqs
  <2>4. \A u \in Tabs : alloc'[u] = IF u = t THEN nextSeq ELSE alloc[u]
    BY <2>1, <1>0
  <2>5. /\ \A a \in Written : a.seq < nextSeq' /\ a.seq # nextSeq
        /\ \A m \in net : m.seq < nextSeq' /\ m.seq # nextSeq
        /\ \A u \in Tabs : alloc'[u] < nextSeq' /\ (u # t => alloc[u] # nextSeq)
    BY <2>1, <2>3, <2>4, <1>0
  <2>6. \A u, v \in Tabs : alloc'[u] = alloc'[v] => u = v \/ alloc'[u] = 0
    BY <2>4, <2>5 DEF Names
  <2>7. \A u \in Tabs : alloc'[u] # 0 => captures'[u] # <<>>
    BY <2>1, <2>4, <1>0
  <2>8. /\ \A u \in Tabs : \A a \in Written : alloc'[u] # a.seq
        /\ \A u \in Tabs : \A m \in net : alloc'[u] = m.seq => m.seq = 0
    BY <2>4, <2>5 DEF Names
  <2>. QED BY <2>1, <2>2, <2>5, <2>6, <2>7, <2>8 DEF Names
<1>5. ASSUME NEW t \in Tabs, CaptureEnqueue(t) PROVE Names'
  <2>. DEFINE c == Head(captures[t])
              x == EntryOf(mem[t], c.field)
              s == IF x # 0 THEN x ELSE alloc[t]
  <2>1. /\ s \in Seqs /\ c \in Entry
        /\ x # 0 => x \in DOMAIN mem[t] /\ mem[t][x].field = c.field
        /\ Written' \subseteq Written \cup {Ref(s, c)}
    BY <1>5, EnqueueWrites
  <2>2. /\ alloc' = [alloc EXCEPT ![t] = 0] /\ captures' = [captures EXCEPT ![t] = Tail(captures[t])]
        /\ UNCHANGED <<nextSeq, net>>
    BY <1>5 DEF CaptureEnqueue
  <2>3. /\ Ref(s, c).seq = s /\ Ref(s, c).field = c.field
    BY DEF Ref
  <2>4. CASE x # 0
    <3>1. \E a \in Written : a.seq = s /\ a.field = c.field
      <4>1. Ref(x, mem[t][x]) \in Written
        BY <2>1, <2>4, WrittenIn
      <4>. QED BY <4>1, <2>1, <2>4 DEF Ref
    <3>. HIDE DEF c, x, s
    <3>2. \A a \in Written' : \E b \in Written : a.seq = b.seq /\ a.field = b.field
      BY <2>1, <2>3, <3>1
    <3>3. \A u \in Tabs : alloc'[u] \in {0, alloc[u]} /\ (u = t => alloc'[u] = 0)
                          /\ (u # t => captures'[u] = captures[u])
      BY <2>2, <1>0
    <3>4. /\ \A a \in Written' : a.seq < nextSeq'
          /\ \A a, b \in Written' : a.seq = b.seq => a.field = b.field
          /\ \A m \in net' : m.seq < nextSeq' /\ \A a \in Written' : a.seq = m.seq => a.field = m.field
      BY <2>2, <3>2 DEF Names
    <3>5. /\ \A u \in Tabs : \A a \in Written' : alloc[u] # a.seq /\ a.seq # 0
      <4>1. \A b \in Written : b.seq # 0
        BY WrittenTypes DEF Seqs
      <4>. QED BY <4>1, <3>2 DEF Names
    <3>6. /\ \A u \in Tabs : alloc'[u] < nextSeq' /\ (alloc'[u] # 0 => captures'[u] # <<>>)
          /\ \A u, v \in Tabs : alloc'[u] = alloc'[v] => u = v \/ alloc'[u] = 0
          /\ \A u \in Tabs : \A m \in net' : alloc'[u] = m.seq => m.seq = 0
      BY <3>3, <2>2, <1>0 DEF Names
    <3>7. \A u \in Tabs : \A a \in Written' : alloc'[u] # a.seq
      BY <3>3, <3>5
    <3>. QED BY <3>4, <3>6, <3>7 DEF Names
  <2>5. CASE x = 0
    <3>1. s = alloc[t] /\ s # 0
      BY <2>1, <2>5 DEF Seqs
    <3>. HIDE DEF c, x, s
    <3>2. \A a \in Written' : a \in Written \/ (a.seq = s /\ a.field = c.field /\ a = Ref(s, c))
      BY <2>1, <2>3
    <3>3. /\ \A u \in Tabs : u # t => alloc'[u] = alloc[u] /\ captures'[u] = captures[u]
          /\ alloc'[t] = 0
      BY <2>2, <1>0
    <3>4. /\ s < nextSeq /\ \A a \in Written : a.seq # s
          /\ \A m \in net : m.seq # s
          /\ \A u \in Tabs : u # t => alloc[u] # s
      BY <3>1 DEF Names
    <3>5. /\ \A a \in Written' : a.seq < nextSeq'
          /\ \A a, b \in Written' : a.seq = b.seq => a.field = b.field
      BY <2>2, <3>2, <3>4 DEF Names
    <3>6. \A m \in net' : m.seq < nextSeq' /\ \A a \in Written' : a.seq = m.seq => a.field = m.field
      BY <2>2, <3>2, <3>4 DEF Names
    <3>7. \A a \in Written' : a.seq # 0
      BY <3>1, <3>2, WrittenTypes DEF Seqs
    <3>8. \A u \in Tabs : \A a \in Written' : alloc'[u] # a.seq
      BY <3>2, <3>3, <3>4, <3>7 DEF Names
    <3>9. /\ \A u \in Tabs : alloc'[u] < nextSeq' /\ (alloc'[u] # 0 => captures'[u] # <<>>)
          /\ \A u, v \in Tabs : alloc'[u] = alloc'[v] => u = v \/ alloc'[u] = 0
          /\ \A u \in Tabs : \A m \in net' : alloc'[u] = m.seq => m.seq = 0
      BY <3>3, <2>2, <1>0 DEF Names
    <3>. QED BY <3>5, <3>6, <3>8, <3>9 DEF Names
  <2>. QED BY <2>4, <2>5
<1>6. ASSUME NEW t \in Tabs, FlushSend(t) PROVE Names'
  <2>. DEFINE h == InHand(t)
  <2>1. h \in DOMAIN mem[t]
    BY <1>6, InHandIs DEF FlushSend
  <2>2. \A m \in net' : m \in net \/ (m.seq = h /\ m.field = mem[t][h].field)
    BY <1>6 DEF FlushSend
  <2>3. \E a \in Written : a.seq = h /\ a.field = mem[t][h].field
    <3>1. Ref(h, mem[t][h]) \in Written
      BY <2>1, WrittenIn
    <3>. QED BY <3>1 DEF Ref
  <2>4. nextSeq' = nextSeq /\ alloc' = alloc /\ captures' = captures
    BY <1>6 DEF FlushSend
  <2>5. Written' \subseteq Written
    BY <1>6 DEF FlushSend, Written, WrittenBy
  <2>. HIDE DEF h
  <2>. QED BY <2>2, <2>3, <2>4, <2>5, <1>0, NamesFrame
<1>7. ASSUME NEW t \in Tabs, Crash(t) PROVE Names'
  <2>1. /\ alloc' = [alloc EXCEPT ![t] = 0] /\ captures' = [captures EXCEPT ![t] = <<>>]
        /\ nextSeq' = nextSeq /\ net' \subseteq net
    BY <1>7 DEF Crash
  <2>2. Written' \subseteq Written \/ \E u \in Tabs : CaptureEnqueue(u)
    BY WrittenOld
  <2>. QED BY <2>1, <2>2, <1>0, <1>5, NamesFrame
<1>8. ASSUME NEW m \in net, Accept(m) \/ Conflict(m) \/ Refuse(m) PROVE Names'
  <2>1. nextSeq' = nextSeq /\ alloc' = alloc /\ captures' = captures
    BY <1>8 DEF Accept, Conflict, Refuse
  <2>2. \E status, r : Answer(m, status, r)
    BY <1>8 DEF Accept, Conflict, Refuse
  <2>3. \A n \in net' : \E o \in net : o.seq = n.seq /\ o.field = n.field
    BY <2>2, AnswerKeeps
  <2>4. Written' \subseteq Written
    BY <1>8 DEF Accept, Conflict, Refuse, Written, WrittenBy
  <2>. QED BY <2>1, <2>3, <2>4, <1>0, NamesFrame
<1>9. ASSUME NEW m \in net, EditConflicted(m) \/ EditLost(m) PROVE Names'
  <2>1. m.field \in Fields /\ m.val \in Edits /\ m.base \in Nat /\ m.tab \in Tabs
    BY <1>0 DEF Posts
  <2>2. /\ nextSeq' = nextSeq /\ alloc' = alloc /\ Capture(m.tab, m) /\ net' \subseteq net
    BY <1>9 DEF EditConflicted, EditLost
  <2>3. Written' \subseteq Written
    BY <1>9 DEF EditConflicted, EditLost, Written, WrittenBy
  <2>. QED BY <2>1, <2>2, <2>3, <1>2
<1>10. \/ Names'
       \/ nextSeq' = nextSeq /\ alloc' = alloc /\ captures' = captures /\ net' \subseteq net
  <2>1. ASSUME NEW t \in Tabs, TabStep(t)
        PROVE  \/ Names'
               \/ nextSeq' = nextSeq /\ alloc' = alloc /\ captures' = captures /\ net' \subseteq net
    BY <2>1, <1>1, <1>3, <1>4, <1>5, <1>6, <1>7
       DEF TabStep, Broadcast, Heal, Lock, Reload, KeepMine, TakeTheirs, PullRead, PullFails,
           Reconcile, Advance, FlushAcked, FlushConflicted, FlushRefused, FlushLost, Answered
  <2>2. ASSUME NEW m \in net, PostStep(m)
        PROVE  \/ Names'
               \/ nextSeq' = nextSeq /\ alloc' = alloc /\ captures' = captures /\ net' \subseteq net
    BY <2>2, <1>8, <1>9 DEF PostStep, EditAnswered
  <2>3. ASSUME NEW f \in Fields, ForeignWrite(f)
        PROVE  nextSeq' = nextSeq /\ alloc' = alloc /\ captures' = captures /\ net' \subseteq net
    BY <2>3 DEF ForeignWrite
  <2>4. ASSUME UNCHANGED vars
        PROVE  nextSeq' = nextSeq /\ alloc' = alloc /\ captures' = captures /\ net' \subseteq net
    BY <2>4 DEF vars
  <2>. QED BY <2>1, <2>2, <2>3, <2>4, StepKinds
<1>. QED BY <1>10, <1>q, <1>5, WrittenOld

LEMMA PlaceFrame ==
  ASSUME Types, OnePlace, Written' \subseteq Written, edits' = edits, net' \subseteq net,
         \A t \in Tabs : captures'[t] \in {captures[t], <<>>}
  PROVE  OnePlace'
<1>1. \A t \in Tabs : Waiting(t)' \subseteq Waiting(t)
  BY DEF Waiting
<1>2. \A t \in Tabs : \A i, j \in 1..Len(captures'[t]) :
        captures'[t][i].val = captures'[t][j].val => i = j
  BY DEF OnePlace
<1>. QED BY <1>1, <1>2 DEF OnePlace

LEMMA PlaceCapture ==
  ASSUME Types, OnePlace, NEW t \in Tabs, NEW m,
         m.field \in Fields, m.val \in Edits, m.base \in Nat, Capture(t, m),
         Written' \subseteq Written, net' \subseteq net, edits' \in Nat, edits <= edits', m.val <= edits',
         \A n \in net' : n.val # m.val, \A a \in Written : a.val # m.val,
         \A u \in Tabs : m.val \notin Waiting(u)
  PROVE  OnePlace'
<1>1. /\ \A u \in Tabs : u # t => Waiting(u)' = Waiting(u)
      /\ Waiting(t)' = Waiting(t) \cup {m.val}
  <2>1. \A u \in Tabs : u # t => captures'[u] = captures[u]
    BY CaptureIs
  <2>2. /\ Len(captures[t]) \in Nat
        /\ Len(captures'[t]) = Len(captures[t]) + 1
        /\ \A i \in 1..Len(captures[t]) : captures'[t][i] = captures[t][i]
        /\ captures'[t][Len(captures[t]) + 1].val = m.val
    BY CaptureIs
  <2>3. 1..Len(captures'[t]) = 1..Len(captures[t]) \cup {Len(captures[t]) + 1}
    BY <2>2
  <2>4. Waiting(t)' = Waiting(t) \cup {m.val}
    <3>1. \A v \in Waiting(t)' : v \in Waiting(t) \cup {m.val}
      BY <2>2, <2>3 DEF Waiting
    <3>2. \A v \in Waiting(t) \cup {m.val} : v \in Waiting(t)'
      BY <2>2, <2>3 DEF Waiting
    <3>. QED BY <3>1, <3>2
  <2>5. \A u \in Tabs : u # t => Waiting(u)' = Waiting(u)
    BY <2>1 DEF Waiting
  <2>. QED BY <2>4, <2>5
<1>2. \A u \in Tabs : \A i, j \in 1..Len(captures'[u]) :
        captures'[u][i].val = captures'[u][j].val => i = j
  <2>1. ASSUME NEW u \in Tabs, u # t
        PROVE  \A i, j \in 1..Len(captures'[u]) :
                 captures'[u][i].val = captures'[u][j].val => i = j
    <3>1. captures'[u] = captures[u]
      BY <2>1, CaptureIs
    <3>. QED BY <3>1 DEF OnePlace
  <2>2. /\ Len(captures[t]) \in Nat
        /\ Len(captures'[t]) = Len(captures[t]) + 1
        /\ \A i \in 1..Len(captures[t]) : captures'[t][i] = captures[t][i]
        /\ captures'[t][Len(captures[t]) + 1].val = m.val
    BY CaptureIs
  <2>3. \A i \in 1..Len(captures[t]) : captures[t][i].val # m.val
    BY DEF Waiting
  <2>. DEFINE n == Len(captures[t])
  <2>4. ASSUME NEW i \in 1..Len(captures'[t]), NEW j \in 1..Len(captures'[t]),
               captures'[t][i].val = captures'[t][j].val
        PROVE  i = j
    <3>1. (i \in 1..n \/ i = n + 1) /\ (j \in 1..n \/ j = n + 1)
      BY <2>2
    <3>2. CASE i \in 1..n /\ j \in 1..n
      BY <2>2, <2>4, <3>2 DEF OnePlace
    <3>3. CASE i \in 1..n /\ j = n + 1
      BY <2>2, <2>3, <2>4, <3>3
    <3>4. CASE i = n + 1 /\ j \in 1..n
      BY <2>2, <2>3, <2>4, <3>4
    <3>. QED BY <3>1, <3>2, <3>3, <3>4
  <2>. QED BY <2>1, <2>4
<1>3. /\ \A a \in Written : a.val \in Nat /\ a.val <= edits
      /\ \A n \in net : n.val \in Nat /\ n.val <= edits
      /\ \A u \in Tabs : \A v \in Waiting(u) : v \in Nat /\ v <= edits
      /\ edits \in Nat
  <2>1. edits \in Nat
    BY SyncConstants DEF Types
  <2>2. \A a \in Written : a.val \in Nat
    BY WrittenTypes DEF Edits
  <2>3. \A n \in net : n.val \in Nat
    BY DEF Types, Posts, Edits
  <2>4. \A u \in Tabs : \A v \in Waiting(u) : v \in Nat
    <3>1. ASSUME NEW u \in Tabs, NEW i \in 1..Len(captures[u]) PROVE captures[u][i].val \in Nat
      <4>1. captures[u] \in Seq(Entry)
        BY DEF Types
      <4>2. captures[u][i] \in Entry
        BY <4>1, ElementOfSeq
      <4>. QED BY <4>2 DEF Entry, Edits
    <3>. QED BY <3>1 DEF Waiting
  <2>. QED BY <2>1, <2>2, <2>3, <2>4 DEF OnePlace
<1>4. /\ \A a \in Written' : a.val <= edits'
      /\ \A n \in net' : n.val <= edits'
      /\ \A u \in Tabs : \A v \in Waiting(u)' : v <= edits'
  BY <1>1, <1>3
<1>5. /\ \A u, v \in Tabs : u # v => Waiting(u)' \cap Waiting(v)' = {}
      /\ \A u \in Tabs : \A n \in net' : n.val \notin Waiting(u)'
      /\ \A u \in Tabs : \A a \in Written' : a.val \notin Waiting(u)'
  BY <1>1 DEF OnePlace
<1>. QED BY <1>2, <1>4, <1>5 DEF OnePlace

\* The head leaves the capture chain and is written down under its seq.
LEMMA PlaceEnqueue ==
  ASSUME Types, OnePlace, NEW t \in Tabs, CaptureEnqueue(t)
  PROVE  OnePlace'
<1>. DEFINE c == Head(captures[t])
            x == EntryOf(mem[t], c.field)
            s == IF x # 0 THEN x ELSE alloc[t]
            n == Len(captures[t])
<1>1. Written' \subseteq Written \cup {Ref(s, c)}
  BY EnqueueWrites
<1>2. /\ captures' = [captures EXCEPT ![t] = Tail(captures[t])] /\ captures[t] # <<>>
      /\ edits' = edits /\ net' = net /\ captures[t] \in Seq(Entry)
  BY DEF CaptureEnqueue, Types
<1>3. /\ n \in Nat \ {0} /\ c = captures[t][1] /\ Len(Tail(captures[t])) = n - 1
      /\ \A i \in 1..(n - 1) : Tail(captures[t])[i] = captures[t][i + 1]
  BY <1>2, DropHead
<1>4. c.val \in Waiting(t)
  BY <1>3 DEF Waiting
<1>5. \A u \in Tabs : captures'[u] = IF u = t THEN Tail(captures[t]) ELSE captures[u]
  BY <1>2 DEF Types
<1>6. /\ \A u \in Tabs : u # t => Waiting(u)' = Waiting(u)
      /\ Waiting(t)' \subseteq Waiting(t) \ {c.val}
  <2>1. \A u \in Tabs : u # t => Waiting(u)' = Waiting(u)
    BY <1>5 DEF Waiting
  <2>2. ASSUME NEW i \in 1..(n - 1)
        PROVE  captures'[t][i].val \in Waiting(t) /\ captures'[t][i].val # c.val
    <3>1. i + 1 \in 1..n /\ i + 1 # 1 /\ 1 \in 1..n
      BY <1>3
    <3>2. captures'[t][i] = captures[t][i + 1]
      BY <1>3, <1>5
    <3>. QED BY <3>1, <3>2, <1>3 DEF Waiting, OnePlace
  <2>3. Len(captures'[t]) = n - 1
    BY <1>3, <1>5
  <2>. HIDE DEF c, n
  <2>4. Waiting(t)' = {captures'[t][i].val : i \in 1..(n - 1)}
    BY <2>3 DEF Waiting
  <2>5. Waiting(t)' \subseteq Waiting(t) \ {c.val}
    BY <2>2, <2>4
  <2>. QED BY <2>1, <2>5
<1>7. \A u \in Tabs : \A i, j \in 1..Len(captures'[u]) :
        captures'[u][i].val = captures'[u][j].val => i = j
  <2>1. ASSUME NEW i \in 1..(n - 1), NEW j \in 1..(n - 1), captures'[t][i].val = captures'[t][j].val
        PROVE  i = j
    <3>1. i + 1 \in 1..n /\ j + 1 \in 1..n
      BY <1>3
    <3>2. captures'[t][i] = captures[t][i + 1] /\ captures'[t][j] = captures[t][j + 1]
      BY <1>3, <1>5
    <3>3. i + 1 = j + 1
      BY <3>1, <3>2, <2>1 DEF OnePlace
    <3>. QED BY <3>3
  <2>2. Len(captures'[t]) = n - 1
    BY <1>3, <1>5
  <2>. QED BY <2>1, <2>2, <1>5 DEF OnePlace
<1>8. Ref(s, c).val = c.val /\ Ref(s, c).seq = s
  BY DEF Ref
<1>. HIDE DEF c, x, s, n
<1>9. \A a \in Written' : a \in Written \/ (a.val = c.val /\ a.seq = s)
  BY <1>1, <1>8
<1>10. /\ \A a \in Written : a.val # c.val
       /\ \A m \in net : m.val # c.val
       /\ \A u \in Tabs : u # t => c.val \notin Waiting(u)
       /\ c.val <= edits
  BY <1>4 DEF OnePlace
<1>11. /\ \A a, b \in Written' : a.val = b.val => a.seq = b.seq
       /\ \A a \in Written' : a.val <= edits'
       /\ \A a \in Written' : \A m \in net' : m.val = a.val => m.seq = a.seq
  BY <1>2, <1>9, <1>10 DEF OnePlace
<1>12. \A u \in Tabs : \A a \in Written' : a.val \notin Waiting(u)'
  BY <1>6, <1>9, <1>10 DEF OnePlace
<1>13. /\ \A u, v \in Tabs : u # v => Waiting(u)' \cap Waiting(v)' = {}
       /\ \A u \in Tabs : \A m \in net' : m.val \notin Waiting(u)'
       /\ \A u \in Tabs : \A v \in Waiting(u)' : v <= edits'
  BY <1>2, <1>6 DEF OnePlace
<1>. QED BY <1>2, <1>7, <1>11, <1>12, <1>13 DEF OnePlace

LEMMA OnePlaceStep == IInv /\ [Next]_vars => OnePlace'
<1>. SUFFICES ASSUME Types, LockHeld, OnePlace, [Next]_vars PROVE OnePlace'
  BY DEF IInv
<1>0. /\ captures \in [Tabs -> Seq(Entry)] /\ net \subseteq Posts /\ edits \in Nat
      /\ \A a \in Written : a.val \in Nat /\ a.seq \in Nat \ {0}
  <2>1. \A a \in Written : a.val \in Nat /\ a.seq \in Nat \ {0}
    BY WrittenTypes DEF Edits, Seqs
  <2>. QED BY <2>1, SyncConstants DEF Types
<1>. USE DEF row, store, lockage, chain, history, fates
<1>w. ASSUME durable' = durable, dead' = dead, mem' = mem, snap' = snap PROVE Written' = Written
  BY <1>w DEF Written, WrittenBy
<1>v. \A u \in Tabs : \A v \in Waiting(u) : v \in Nat /\ v <= edits
  <2>1. ASSUME NEW u \in Tabs, NEW i \in 1..Len(captures[u]) PROVE captures[u][i].val \in Nat
    <3>1. captures[u] \in Seq(Entry)
      BY <1>0
    <3>2. captures[u][i] \in Entry
      BY <3>1, ElementOfSeq
    <3>. QED BY <3>2 DEF Entry, Edits
  <2>. QED BY <2>1 DEF Waiting, OnePlace
<1>1. ASSUME NEW t \in Tabs, NEW f \in Fields, Edit(t, f) PROVE OnePlace'
  <2>1. /\ edits' = edits + 1 /\ captures' = captures /\ Written' = Written
    BY <1>1, <1>w DEF Edit, Type
  <2>. DEFINE m == [tab |-> t, seq |-> 0, field |-> f, val |-> edits', at |-> 0,
                    base |-> known[t], status |-> "sent"]
  <2>2. net' = net \cup {m} /\ m.val = edits + 1
    BY <1>1 DEF Edit, Type
  <2>. HIDE DEF m
  <2>3. /\ \A a \in Written : a.val # m.val /\ a.val <= edits'
        /\ \A n \in net : n.val # m.val /\ n.val <= edits'
        /\ \A u \in Tabs : \A v \in Waiting(u) : v # m.val /\ v <= edits'
    BY <2>1, <2>2, <1>0, <1>v DEF OnePlace, Posts, Edits
  <2>4. \A u \in Tabs : Waiting(u)' = Waiting(u)
    BY <2>1 DEF Waiting
  <2>5. \A n \in net' : n.val <= edits'
    BY <2>1, <2>2, <2>3, <1>0
  <2>6. /\ \A n, o \in net' : n.val = o.val => n = o
        /\ \A a \in Written' : \A n \in net' : n.val = a.val => n.seq = a.seq
        /\ \A u \in Tabs : \A n \in net' : n.val \notin Waiting(u)'
    BY <2>1, <2>2, <2>3, <2>4 DEF OnePlace
  <2>. QED BY <2>1, <2>3, <2>4, <2>5, <2>6 DEF OnePlace
<1>2. ASSUME NEW t \in Tabs, NEW f \in Fields, EditOffline(t, f) PROVE OnePlace'
  <2>. DEFINE m == [field |-> f, val |-> edits', base |-> known[t]]
  <2>1. edits' = edits + 1 /\ edits' \in Edits /\ known[t] \in Nat /\ Written' = Written /\ net' = net
    BY <1>2, <1>w, SyncConstants DEF EditOffline, Type, Edits, Types
  <2>2. m.field \in Fields /\ m.val = edits + 1 /\ m.val \in Edits /\ m.base \in Nat /\ Capture(t, m)
    BY <1>2, <2>1 DEF EditOffline
  <2>. HIDE DEF m
  <2>3. /\ \A a \in Written : a.val # m.val
        /\ \A n \in net : n.val # m.val
        /\ \A u \in Tabs : m.val \notin Waiting(u)
    BY <2>1, <2>2, <1>0, <1>v DEF OnePlace, Posts, Edits
  <2>. QED BY <2>1, <2>2, <2>3, <1>0, PlaceCapture
<1>3. ASSUME NEW m \in net, EditConflicted(m) \/ EditLost(m) PROVE OnePlace'
  <2>1. m.field \in Fields /\ m.val \in Edits /\ m.base \in Nat /\ m.tab \in Tabs
    BY <1>0 DEF Posts
  <2>2. /\ edits' = edits /\ Capture(m.tab, m) /\ net' = net \ {m} /\ m.seq = 0
        /\ Written' = Written
    BY <1>3, <1>w DEF EditConflicted, EditLost
  <2>3. /\ \A a \in Written : a.val # m.val
        /\ \A n \in net' : n.val # m.val
        /\ \A u \in Tabs : m.val \notin Waiting(u)
        /\ m.val <= edits'
    BY <2>2, <1>0 DEF OnePlace
  <2>4. edits' \in Nat /\ edits <= edits' /\ net' \subseteq net /\ Written' \subseteq Written
    BY <2>2, <1>0
  <2>. QED BY <2>1, <2>2, <2>3, <2>4, PlaceCapture
<1>4. ASSUME NEW t \in Tabs, FlushSend(t) PROVE OnePlace'
  <2>. DEFINE h == InHand(t)
              m == [tab |-> t, seq |-> h, field |-> mem[t][h].field, val |-> mem[t][h].val,
                    base |-> mem[t][h].base, status |-> "sent", at |-> 0]
  <2>1. h \in DOMAIN mem[t] /\ h \in Nat \ {0}
    BY <1>4, InHandIs DEF FlushSend, Seqs
  <2>2. /\ net' = net \cup {m} /\ m.seq = h /\ m.val = mem[t][h].val
        /\ edits' = edits /\ captures' = captures /\ Written' = Written
    BY <1>4, <1>w DEF FlushSend
  <2>3. Ref(h, mem[t][h]) \in Written
    BY <2>1, WrittenIn
  <2>4. PICK a \in Written : a.seq = h /\ a.val = m.val
    BY <2>2, <2>3 DEF Ref
  <2>5. \A n \in net : n.seq = 0
    <3>1. pc[t] = "flushing"
      BY <1>4 DEF FlushSend
    <3>2. holder = t
      BY <3>1 DEF LockHeld
    <3>. QED BY <3>1, <3>2, QueuePosts
  <2>. HIDE DEF h, m
  <2>6. \A n \in net : n.val # m.val
    BY <2>1, <2>4, <2>5 DEF OnePlace
  <2>7. /\ \A b \in Written : b.val = m.val => b.seq = m.seq
        /\ \A u \in Tabs : m.val \notin Waiting(u)
        /\ m.val <= edits
    BY <2>2, <2>4 DEF OnePlace
  <2>8. \A u \in Tabs : Waiting(u)' = Waiting(u)
    BY <2>2 DEF Waiting
  <2>. QED BY <2>2, <2>6, <2>7, <2>8 DEF OnePlace
<1>5. ASSUME NEW m \in net, Accept(m) \/ Conflict(m) \/ Refuse(m) PROVE OnePlace'
  <2>1. edits' = edits /\ captures' = captures /\ Written' = Written
    BY <1>5, <1>w DEF Accept, Conflict, Refuse
  <2>2. \E status, r : Answer(m, status, r)
    BY <1>5 DEF Accept, Conflict, Refuse
  <2>3. PICK n : net' = (net \ {m}) \cup {n} /\ n.seq = m.seq /\ n.val = m.val
    BY <2>2, AnswerKeeps
  <2>4. \A u \in Tabs : Waiting(u)' = Waiting(u)
    BY <2>1 DEF Waiting
  <2>. QED BY <2>1, <2>3, <2>4 DEF OnePlace
<1>6. \/ OnePlace'
      \/ /\ edits' = edits /\ net' \subseteq net
         /\ \A t \in Tabs : captures'[t] \in {captures[t], <<>>}
  <2>. DEFINE Q == /\ edits' = edits /\ net' \subseteq net
                   /\ \A t \in Tabs : captures'[t] \in {captures[t], <<>>}
  <2>0. ASSUME edits' = edits, net' \subseteq net, captures' = captures PROVE Q
    BY <2>0
  <2>1. ASSUME NEW t \in Tabs, Crash(t) PROVE Q
    BY <2>1, <1>0 DEF Crash
  <2>. HIDE DEF Q
  <2>2. ASSUME NEW t \in Tabs, TabStep(t) PROVE OnePlace' \/ Q
    BY <2>2, <2>0, <2>1, <1>1, <1>2, <1>4, PlaceEnqueue
       DEF TabStep, CaptureAlloc, Broadcast, Heal, Lock, Reload, KeepMine, TakeTheirs, PullRead,
           PullFails, Reconcile, Advance, FlushAcked, FlushConflicted, FlushRefused, FlushLost,
           Answered
  <2>3. ASSUME NEW m \in net, PostStep(m) PROVE OnePlace' \/ Q
    BY <2>3, <2>0, <1>3, <1>5 DEF PostStep, EditAnswered
  <2>4. ASSUME NEW f \in Fields, ForeignWrite(f) PROVE Q
    BY <2>4, <2>0 DEF ForeignWrite
  <2>5. ASSUME UNCHANGED vars PROVE Q
    BY <2>5, <2>0 DEF vars
  <2>6. OnePlace' \/ Q
    BY <2>2, <2>3, <2>4, <2>5, StepKinds
  <2>. QED BY <2>6 DEF Q
<1>. QED BY <1>6, PlaceFrame, PlaceEnqueue, WrittenOld

-----------------------------------------------------------------------------
(* What the holder works on.                                               *)

LEMMA CurrentIdle == LockHeld' /\ Types' /\ holder' = None => Current'
<1>. SUFFICES ASSUME LockHeld', Types', holder' = None PROVE Current'
  OBVIOUS
<1>1. \A t \in Tabs : pc'[t] = "idle"
  BY SyncConstants DEF LockHeld
<1>2. \A m \in net' : m.seq = 0
  BY <1>1 DEF LockHeld, Types, Posts
<1>. QED BY <1>1, <1>2 DEF Current, Working

LEMMA CurrentFrame ==
  ASSUME Types, Current, exposed \subseteq exposed',
         \A s \in DOMAIN durable : /\ s \in DOMAIN durable'
                                   /\ durable'[s].val \in {durable[s].val} \cup exposed',
         \A t \in Tabs : pc'[t] = "reloading" => pc[t] = "reloading" /\ snap'[t] = snap[t],
         \A t \in Tabs : Working(t)' => Working(t) /\ \A s \in DOMAIN mem'[t] :
            \/ s \in DOMAIN mem[t] /\ mem'[t][s].val = mem[t][s].val
            \/ s \in DOMAIN durable' /\ durable'[s].val = mem'[t][s].val,
         \A m \in net' : m.seq # 0 => \E n \in net : n.seq = m.seq /\ n.val = m.val
  PROVE  Current'
<1>1. ASSUME NEW t \in Tabs, pc'[t] = "reloading" PROVE Follows(snap[t])'
  BY <1>1 DEF Current, Follows
<1>2. ASSUME NEW t \in Tabs, Working(t)' PROVE Follows(mem[t])'
  BY <1>2 DEF Current, Follows
<1>3. ASSUME NEW m \in net', m.seq # 0
      PROVE  m.seq \in DOMAIN durable' /\ durable'[m.seq].val \in {m.val} \cup exposed'
  BY <1>3 DEF Current
<1>. QED BY <1>1, <1>2, <1>3 DEF Current

LEMMA CurrentStep == IInv /\ Types' /\ LockHeld' /\ [Next]_vars => Current'
<1>. SUFFICES ASSUME Types, LockHeld, Names, Current, Types', LockHeld', [Next]_vars PROVE Current'
  BY DEF IInv
<1>0. /\ DOMAIN mem = Tabs /\ DOMAIN snap = Tabs /\ pc \in [Tabs -> Stages]
      /\ holder \in Tabs \cup {None} /\ None \notin Tabs /\ net \subseteq Posts
  BY SyncConstants DEF Types
<1>h. /\ \A t \in Tabs : holder = t <=> pc[t] # "idle"
      /\ \A t \in Tabs : holder' = t <=> pc'[t] # "idle"
  BY DEF LockHeld
<1>p. /\ \A t \in Tabs : pc[t] \notin {"idle", "waiting"} => \A m \in net : m.seq = 0
      /\ \A m \in net : m.seq # 0 => \A n \in net \ {m} : n.seq = 0
  BY <1>h, QueuePosts
<1>. USE DEF row, store, lockage, chain, history, fates
\* Steps that leave the queues, the lock and the queue's posts alone.
<1>f. ASSUME durable' = durable, exposed' = exposed, pc' = pc, snap' = snap, mem' = mem,
             \A m \in net' : m.seq # 0 => \E n \in net : n.seq = m.seq /\ n.val = m.val
      PROVE  Current'
  <2>1. \A t \in Tabs : Working(t)' = Working(t)
    BY <1>f DEF Working
  <2>. QED BY <1>f, <2>1, CurrentFrame
<1>r. ASSUME NEW t \in Tabs, Release(t) PROVE Current'
  BY <1>r, CurrentIdle DEF Release
<1>1. ASSUME NEW t \in Tabs, NEW f \in Fields, Edit(t, f) \/ EditOffline(t, f) PROVE Current'
  BY <1>1, <1>f DEF Edit, EditOffline, Type
<1>2. ASSUME NEW t \in Tabs, CaptureAlloc(t) \/ Broadcast(t) \/ Heal(t) PROVE Current'
  BY <1>2, <1>f DEF CaptureAlloc, Broadcast, Heal
<1>3. ASSUME NEW t \in Tabs, CaptureEnqueue(t) PROVE Current'
  <2>. DEFINE c == Head(captures[t])
              x == EntryOf(mem[t], c.field)
              s == IF x # 0 THEN x ELSE alloc[t]
              e == IF x # 0 THEN [mem[t][x] EXCEPT !.val = c.val] ELSE c
  <2>1. c \in Entry /\ (x # 0 => x \in DOMAIN mem[t])
    BY <1>3, EnqueueWrites
  <2>2. e.val = c.val
    <3>1. x # 0 => mem[t][x] \in Entry
      BY <2>1 DEF Types, IsQueue
    <3>. QED BY <3>1 DEF Entry
  <2>3. /\ mem' = [mem EXCEPT ![t] = Put(mem[t], s, e)] /\ durable' = Put(durable, s, e)
        /\ UNCHANGED <<pc, snap, net, holder>> /\ exposed \subseteq exposed'
        /\ \A h \in Tabs : x # 0 /\ holder = h /\ InWorkOf(h, t, s) => c.val \in exposed'
    BY <1>3 DEF CaptureEnqueue
  <2>4. x = 0 => s \notin DOMAIN durable
    <3>1. \A r \in DOMAIN durable : alloc[t] # r
      BY WrittenIn DEF Names, Ref
    <3>. QED BY <3>1
  <2>. HIDE DEF c, x, s, e
  <2>5. /\ s \in DOMAIN durable' /\ durable'[s] = e
        /\ \A r \in DOMAIN durable : r # s => r \in DOMAIN durable' /\ durable'[r] = durable[r]
    BY <2>3 DEF Put, Over
  \* What the holder's work has in hand of this seq is exposed.
  <2>6. \A h \in Tabs : /\ pc[h] # "idle" /\ s \in DOMAIN durable /\ InWorkOf(h, t, s)
                       => e.val \in exposed'
    BY <2>2, <2>3, <2>4, <1>h
  <2>7. ASSUME NEW u \in Tabs, pc'[u] = "reloading" PROVE Follows(snap[u])'
    <3>1. pc[u] = "reloading" /\ snap'[u] = snap[u] /\ Follows(snap[u])
      BY <2>3, <2>7 DEF Current
    <3>2. s \in DOMAIN snap[u] => e.val \in exposed'
      BY <2>6, <3>1 DEF InWorkOf, Follows
    <3>. QED BY <2>3, <2>5, <3>1, <3>2 DEF Follows
  <2>8. ASSUME NEW u \in Tabs, Working(u)' PROVE Follows(mem[u])'
    <3>1. Working(u) /\ Follows(mem[u])
      BY <2>3, <2>8 DEF Current, Working
    <3>2. CASE u = t
      <4>1. /\ DOMAIN mem'[u] = DOMAIN mem[u] \cup {s} /\ mem'[u][s] = e
            /\ \A r \in DOMAIN mem[u] : r # s => mem'[u][r] = mem[u][r]
        BY <2>3, <3>2, <1>0 DEF Put, Over
      <4>. QED BY <2>3, <2>5, <3>1, <4>1 DEF Follows
    <3>3. CASE u # t
      <4>1. mem'[u] = mem[u]
        BY <2>3, <3>3, <1>0
      <4>2. s \in DOMAIN mem[u] => e.val \in exposed'
        <5>1. pc[u] # "idle" /\ pc[u] # "reloading"
          BY <3>1 DEF Working
        <5>. QED BY <2>6, <3>1, <3>3, <5>1 DEF InWorkOf, Follows
      <4>. QED BY <2>3, <2>5, <3>1, <4>1, <4>2 DEF Follows
    <3>. QED BY <3>2, <3>3
  <2>9. ASSUME NEW m \in net', m.seq # 0
        PROVE  m.seq \in DOMAIN durable' /\ durable'[m.seq].val \in {m.val} \cup exposed'
    <3>1. m \in net /\ m.tab \in Tabs
      BY <2>3, <1>0 DEF Posts
    <3>2. m.seq \in DOMAIN durable /\ durable[m.seq].val \in {m.val} \cup exposed
      BY <2>9, <3>1 DEF Current
    <3>3. /\ m.seq = InHand(m.tab) /\ m.seq \in DOMAIN mem[m.tab] /\ pc[m.tab] = "waiting"
      BY <2>9, <3>1, AnsweredIs
    <3>4. m.seq = s => e.val \in exposed'
      <4>1. m.seq = s => InWorkOf(m.tab, t, s)
        BY <3>3 DEF InWorkOf
      <4>. QED BY <2>6, <3>1, <3>2, <3>3, <4>1
    <3>. QED BY <2>3, <2>5, <3>2, <3>4
  <2>. QED BY <2>7, <2>8, <2>9 DEF Current
<1>4. ASSUME NEW t \in Tabs, NEW verb, NEW f, Lock(t, verb, f) PROVE Current'
  <2>1. /\ holder' = t /\ snap' = [snap EXCEPT ![t] = durable] /\ pc' = [pc EXCEPT ![t] = "reloading"]
        /\ holder = None /\ UNCHANGED <<durable, exposed, net>>
    BY <1>4 DEF Lock
  <2>2. pc'[t] = "reloading" /\ snap'[t] = durable' /\ \A u \in Tabs : u # t => pc'[u] = "idle"
    BY <2>1, <1>0, <1>h
  <2>3. Follows(snap[t])'
    BY <2>2 DEF Follows
  <2>4. \A m \in net' : m.seq = 0
    BY <2>1, QueuePosts
  <2>. QED BY <2>2, <2>3, <2>4 DEF Current, Working
<1>5. ASSUME NEW t \in Tabs, Reload(t), ~Release(t) PROVE Current'
  <2>1. /\ holder' = holder /\ pc' = [pc EXCEPT ![t] = IF Detect THEN "pulling" ELSE "pulled"]
        /\ mem' = [mem EXCEPT ![t] = snap[t]] /\ pc[t] = "reloading"
        /\ UNCHANGED <<durable, exposed, net>>
    BY <1>5 DEF Reload
  <2>2. /\ \A u \in Tabs : u # t => pc'[u] = "idle" 
        /\ pc'[t] \in {"pulling", "pulled"} /\ mem'[t] = snap[t]
    BY <2>1, <1>0, <1>h
  <2>3. Follows(mem[t])'
    BY <2>1, <2>2 DEF Follows, Current
  <2>4. \A m \in net' : m.seq = 0
    BY <2>1, <1>p
  <2>. QED BY <2>2, <2>3, <2>4 DEF Current, Working
<1>6. ASSUME NEW t \in Tabs, PullRead(t) \/ Reconcile(t) PROVE Current'
  <2>1. CASE Release(t)
    BY <2>1, <1>r
  <2>2. CASE ~Release(t)
    <3>1. /\ \E stage \in {"pulled", "flushing"} : pc' = [pc EXCEPT ![t] = stage]
          /\ pc[t] \in {"pulling", "pulled"}
          /\ UNCHANGED <<durable, exposed, net, snap, mem>>
      BY <1>6, <2>2 DEF PullRead, Reconcile
    <3>2. \A u \in Tabs : Working(u)' = Working(u) /\ (pc'[u] = "reloading" => pc[u] = "reloading")
      BY <3>1, <1>0 DEF Working
    <3>. QED BY <3>1, <3>2, CurrentFrame
  <2>. QED BY <2>1, <2>2
<1>7. ASSUME NEW t \in Tabs, FlushSend(t) PROVE Current'
  <2>. DEFINE h == InHand(t)
              m == [tab |-> t, seq |-> h, field |-> mem[t][h].field, val |-> mem[t][h].val,
                    base |-> mem[t][h].base, status |-> "sent", at |-> 0]
  <2>1. h \in DOMAIN mem[t] /\ pc[t] = "flushing"
    BY <1>7, InHandIs DEF FlushSend
  <2>2. /\ net' = net \cup {m} /\ m.seq = h /\ m.val = mem[t][h].val
        /\ pc' = [pc EXCEPT ![t] = "waiting"] /\ UNCHANGED <<durable, exposed, mem, snap, holder>>
    BY <1>7 DEF FlushSend
  <2>3. Follows(mem[t])
    BY <2>1 DEF Current, Working
  <2>. HIDE DEF h, m
  <2>4. \A n \in net : n.seq = 0
    BY <2>1, <1>p
  <2>5. \A u \in Tabs : u # t => pc'[u] = "idle"
    BY <2>1, <2>2, <1>0, <1>h
  <2>6. Follows(mem[t])'
    BY <2>2, <2>3 DEF Follows
  <2>7. m.seq \in DOMAIN durable' /\ durable'[m.seq].val \in {m.val} \cup exposed'
    BY <2>1, <2>2, <2>3 DEF Follows
  <2>8. pc'[t] = "waiting"
    BY <2>2, <1>0
  <2>. QED BY <2>2, <2>4, <2>5, <2>6, <2>7, <2>8 DEF Current, Working
<1>8. ASSUME NEW t \in Tabs, Advance(t) PROVE Current'
  <2>1. CASE Release(t)
    BY <2>1, <1>r
  <2>2. CASE ~Release(t)
    <3>. DEFINE moved == {s \in DOMAIN mem[t] : Detect /\ s > InHand(t)}
                fresh == [s \in moved |-> [mem[t][s] EXCEPT !.base = known[t]]]
    <3>1. /\ mem' = [mem EXCEPT ![t] = Over(fresh, mem[t])] /\ durable' = Over(fresh, durable)
          /\ pc[t] = "advancing" /\ net' = net /\ FlushNext(t) /\ exposed' = exposed
      BY <1>8 DEF Advance
    <3>2. pc' = [pc EXCEPT ![t] = "flushing"] /\ holder' = holder
      BY <3>1, <2>2 DEF FlushNext
    <3>3. Follows(mem[t])
      BY <3>1 DEF Current, Working
    <3>4. DOMAIN fresh = moved /\ moved \subseteq DOMAIN mem[t]
      OBVIOUS
    <3>. HIDE DEF moved, fresh
    <3>5. Follows(mem[t])'
      <4>1. mem'[t] = Over(fresh, mem[t])
        BY <3>1, <1>0
      <4>2. /\ DOMAIN mem'[t] = DOMAIN mem[t] /\ DOMAIN mem[t] \subseteq DOMAIN durable'
            /\ \A s \in moved : mem'[t][s] = fresh[s] /\ durable'[s] = fresh[s]
            /\ \A s \in DOMAIN mem[t] \ moved : mem'[t][s] = mem[t][s] /\ durable'[s] = durable[s]
        BY <3>1, <3>3, <3>4, <4>1 DEF Over, Follows
      <4>3. \A s \in DOMAIN mem'[t] : durable'[s].val \in {mem'[t][s].val} \cup exposed'
        BY <3>1, <3>3, <4>2 DEF Follows
      <4>. QED BY <4>2, <4>3 DEF Follows
    <3>6. pc'[t] = "flushing" /\ \A u \in Tabs : u # t => pc'[u] = "idle"
      BY <3>1, <3>2, <1>0, <1>h
    <3>7. \A m \in net' : m.seq = 0
      BY <3>1, <1>p
    <3>. QED BY <3>5, <3>6, <3>7 DEF Current, Working
  <2>. QED BY <2>1, <2>2
<1>9. ASSUME NEW t \in Tabs, NEW m \in net, FlushAcked(t, m) \/ FlushRefused(t, m) PROVE Current'
  <2>1. CASE Release(t)
    BY <2>1, <1>r
  <2>2. CASE ~Release(t)
    <3>1. /\ mem' = [mem EXCEPT ![t] = Without(mem[t], m.seq)]
          /\ durable' = Without(durable, m.seq) /\ m.seq # 0 /\ pc[t] = "waiting"
          /\ net' = net \ {m} /\ exposed' = exposed
      BY <1>9 DEF FlushAcked, FlushRefused, Answered
    <3>2. holder' = holder /\ \E stage \in {"advancing", "flushing"} : pc' = [pc EXCEPT ![t] = stage]
      BY <1>9, <2>2 DEF FlushAcked, FlushRefused, FlushNext
    <3>3. Follows(mem[t])
      BY <3>1 DEF Current, Working
    <3>4. Follows(mem[t])'
      BY <3>1, <3>3, <1>0 DEF Follows, Without, Restrict
    <3>5. pc'[t] \in {"advancing", "flushing"} /\ \A u \in Tabs : u # t => pc'[u] = "idle"
      BY <3>1, <3>2, <1>0, <1>h
    <3>6. \A n \in net' : n.seq = 0
      BY <3>1, <1>p
    <3>. QED BY <3>4, <3>5, <3>6 DEF Current, Working
  <2>. QED BY <2>1, <2>2
<1>10. ASSUME NEW t \in Tabs, Crash(t) PROVE Current'
  <2>1. CASE holder = t
    BY <1>10, <2>1, <1>r DEF Crash
  <2>2. CASE holder # t
    <3>1. /\ mem' = [mem EXCEPT ![t] = durable] /\ net' \subseteq net
          /\ UNCHANGED <<durable, exposed, pc, snap>>
      BY <1>10, <2>2 DEF Crash
    <3>2. \A u \in Tabs : Working(u)' = Working(u) /\ (Working(u) => u # t)
      BY <3>1, <2>2, <1>h DEF Working
    <3>. QED BY <3>1, <3>2, <1>0, CurrentFrame
  <2>. QED BY <2>1, <2>2
<1>11. ASSUME NEW m \in net, Accept(m) \/ Conflict(m) \/ Refuse(m) PROVE Current'
  <2>1. /\ \E status, r : Answer(m, status, r)
        /\ UNCHANGED <<durable, exposed, pc, snap, mem>>
    BY <1>11 DEF Accept, Conflict, Refuse
  <2>2. \A n \in net' : \E o \in net : o.seq = n.seq /\ o.val = n.val
    BY <2>1, AnswerKeeps
  <2>. QED BY <2>1, <2>2, <1>f
<1>12. ASSUME NEW m \in net, EditAnswered(m) \/ EditConflicted(m) \/ EditLost(m) PROVE Current'
  BY <1>12, <1>f DEF EditAnswered, EditConflicted, EditLost
<1>13. ASSUME NEW f \in Fields, ForeignWrite(f) PROVE Current'
  BY <1>13, <1>f DEF ForeignWrite
<1>14. CASE UNCHANGED vars
  BY <1>14, <1>f DEF vars
<1>15. ASSUME NEW t \in Tabs, NEW m \in net,
              \/ KeepMine(t) \/ TakeTheirs(t) \/ PullFails(t)
              \/ FlushConflicted(t, m) \/ FlushLost(t, m)
       PROVE  Release(t)
  BY <1>15 DEF KeepMine, TakeTheirs, PullFails, FlushConflicted, FlushLost
<1>16. ASSUME NEW t \in Tabs, KeepMine(t) \/ TakeTheirs(t) \/ PullFails(t) PROVE Release(t)
  BY <1>16 DEF KeepMine, TakeTheirs, PullFails
<1>. QED
  BY <1>r, <1>1, <1>2, <1>3, <1>4, <1>5, <1>6, <1>7, <1>8, <1>9, <1>10, <1>11, <1>12, <1>13,
     <1>14, <1>15, <1>16, StepKinds DEF TabStep, PostStep

-----------------------------------------------------------------------------
(* Every keystroke is kept.                                                *)

\* Where a keystroke was, there it is again, or its value is accounted for.
LEMMA KeptFrame ==
  ASSUME AllKept,
         accepted \subseteq accepted', Told \subseteq Told', exposed \subseteq exposed',
         \A e \in 1..edits' : e \in 1..edits \/ Kept(e)',
         \A m \in net : m.seq = 0 => Kept(m.val)' \/ \E n \in net' : n.seq = 0 /\ n.val = m.val,
         \A t \in Tabs : \A v \in Waiting(t) : v \in Waiting(t)' \/ Kept(v)',
         \A s \in DOMAIN durable : \/ \E r \in DOMAIN durable' : durable'[r].val = durable[s].val
                                   \/ \E r \in DOMAIN dead' : dead'[r].val = durable[s].val
                                   \/ durable[s].val \in accepted' \cup Told' \cup exposed',
         \A s \in DOMAIN dead : \/ s \in DOMAIN dead' /\ dead'[s].val = dead[s].val
                                \/ dead[s].val \in exposed',
         \A m \in net' : m.status = "ok" => m.val \in accepted',
         \A m \in net' : m.status = "refused" /\ m.seq = 0 => m.val \in Told',
         \A s \in DOMAIN dead' \cap DOMAIN durable' : dead'[s].val \in exposed'
  PROVE  AllKept'
<1>1. ASSUME NEW e, Kept(e) PROVE Kept(e)'
  <2>1. ASSUME NEW m \in net, m.seq = 0, m.val = e PROVE Kept(e)'
    <3>1. CASE \E n \in net' : n.seq = 0 /\ n.val = m.val
      BY <2>1, <3>1 DEF Kept
    <3>2. CASE Kept(m.val)'
      BY <2>1, <3>2 DEF Kept
    <3>. QED BY <2>1, <3>1, <3>2
  <2>2. ASSUME NEW t \in Tabs, e \in Waiting(t) PROVE Kept(e)'
    BY <2>2 DEF Kept
  <2>3. ASSUME NEW s \in DOMAIN durable, durable[s].val = e PROVE Kept(e)'
    BY <2>3 DEF Kept
  <2>4. ASSUME NEW s \in DOMAIN dead, dead[s].val = e PROVE Kept(e)'
    BY <2>4 DEF Kept
  <2>5. ASSUME e \in accepted \cup Told \cup exposed PROVE Kept(e)'
    BY <2>5 DEF Kept
  <2>. QED BY <1>1, <2>1, <2>2, <2>3, <2>4, <2>5 DEF Kept
<1>. QED BY <1>1 DEF AllKept

LEMMA AllKeptStep == IInv /\ Types' /\ [Next]_vars => AllKept'
<1>. SUFFICES ASSUME Types, LockHeld, Names, OnePlace, Current, AllKept, Types', [Next]_vars
              PROVE  AllKept'
  BY DEF IInv
<1>e. edits \in Nat
  <2>1. edits \in 0..MaxEdits
    BY DEF Types
  <2>. QED BY <2>1, SyncConstants
<1>m. DOMAIN mem = Tabs /\ net \subseteq Posts /\ captures \in [Tabs -> Seq(Entry)]
  BY DEF Types
<1>0. /\ DOMAIN mem = Tabs /\ net \subseteq Posts /\ captures \in [Tabs -> Seq(Entry)]
      /\ edits \in Nat
  BY <1>e, <1>m
<1>k. /\ \A m \in net : m.status = "ok" => m.val \in accepted
      /\ \A m \in net : m.status = "refused" /\ m.seq = 0 => m.val \in Told
      /\ \A s \in DOMAIN dead \cap DOMAIN durable : dead[s].val \in exposed
  BY DEF AllKept
<1>. USE DEF row, store, lockage, chain, history, fates, Told, Spoiled
\* Steps that move no value.
<1>f. ASSUME edits' = edits, net' \subseteq net, captures' = captures, durable' = durable, dead' = dead,
             accepted' = accepted, Told' = Told, exposed' = exposed,
             \A m \in net \ net' : m.seq # 0 \/ m.val \in accepted \cup Told
      PROVE  AllKept'
  <2>1. \A t \in Tabs : Waiting(t)' = Waiting(t)
    BY <1>f DEF Waiting
  <2>2. \A e : e \in accepted \cup Told => Kept(e)'
    BY <1>f DEF Kept
  <2>. QED BY <1>f, <1>k, <2>1, <2>2, KeptFrame
<1>1. ASSUME NEW t \in Tabs, NEW f \in Fields, Edit(t, f) PROVE AllKept'
  <2>. DEFINE m == [tab |-> t, seq |-> 0, field |-> f, val |-> edits', at |-> 0,
                    base |-> known[t], status |-> "sent"]
  <2>1. /\ net' = net \cup {m} /\ m.val = edits + 1 /\ m.seq = 0 /\ m.status = "sent"
        /\ edits' = edits + 1
        /\ UNCHANGED <<captures, durable, dead, accepted, Told, exposed>>
    BY <1>1 DEF Edit, Type
  <2>. HIDE DEF m
  <2>2. \A e \in 1..edits' : e \in 1..edits \/ e = m.val
    BY <2>1, <1>0
  <2>3. \A e : e = m.val => Kept(e)'
    BY <2>1 DEF Kept
  <2>4. \A u \in Tabs : Waiting(u)' = Waiting(u)
    BY <2>1 DEF Waiting
  <2>. QED BY <2>1, <2>2, <2>3, <2>4, <1>k, KeptFrame
\* A value goes onto a capture chain.
<1>2. ASSUME NEW t \in Tabs, NEW m, m.field \in Fields, m.val \in Edits, m.base \in Nat, Capture(t, m),
             durable' = durable, dead' = dead,
             accepted' = accepted, Told' = Told, exposed' = exposed,
             net' \subseteq net, \A n \in net \ net' : n.val = m.val,
             \A e \in 1..edits' : e \in 1..edits \/ e = m.val
      PROVE  AllKept'
  <2>1. /\ \A u \in Tabs : Waiting(u) \subseteq Waiting(u)'
        /\ m.val \in Waiting(t)'
    <3>1. /\ \A u \in Tabs : u # t => captures'[u] = captures[u]
          /\ Len(captures[t]) \in Nat
          /\ Len(captures'[t]) = Len(captures[t]) + 1
          /\ \A i \in 1..Len(captures[t]) : captures'[t][i] = captures[t][i]
          /\ captures'[t][Len(captures[t]) + 1].val = m.val
      BY <1>2, CaptureIs
    <3>2. \A i \in 1..Len(captures[t]) : i \in 1..Len(captures'[t])
      BY <3>1
    <3>3. Len(captures[t]) + 1 \in 1..Len(captures'[t])
      BY <3>1
    <3>4. m.val \in Waiting(t)' /\ \A v \in Waiting(t) : v \in Waiting(t)'
      BY <3>1, <3>2, <3>3 DEF Waiting
    <3>5. \A u \in Tabs : u # t => Waiting(u)' = Waiting(u)
      BY <3>1 DEF Waiting
    <3>. QED BY <3>4, <3>5
  <2>2. \A e : e = m.val => Kept(e)'
    BY <2>1 DEF Kept
  <2>. QED BY <1>2, <2>1, <2>2, <1>k, KeptFrame
<1>3. ASSUME NEW t \in Tabs, NEW f \in Fields, EditOffline(t, f) PROVE AllKept'
  <2>. DEFINE m == [field |-> f, val |-> edits', base |-> known[t]]
  <2>1. edits' = edits + 1 /\ edits' \in Edits /\ known[t] \in Nat
    BY <1>3, SyncConstants DEF EditOffline, Type, Edits, Types
  <2>2. m.field \in Fields /\ m.val = edits + 1 /\ m.val \in Edits /\ m.base \in Nat /\ Capture(t, m)
    BY <1>3, <2>1 DEF EditOffline
  <2>3. UNCHANGED <<net, durable, dead, accepted, Told, exposed>>
    BY <1>3 DEF EditOffline, Type
  <2>. HIDE DEF m
  <2>4. \A e \in 1..edits' : e \in 1..edits \/ e = m.val
    BY <2>1, <2>2, <1>0
  <2>. QED BY <2>2, <2>3, <2>4, <1>2
<1>4. ASSUME NEW m \in net, EditConflicted(m) \/ EditLost(m) PROVE AllKept'
  <2>1. m.field \in Fields /\ m.val \in Edits /\ m.base \in Nat /\ m.tab \in Tabs
    BY <1>0 DEF Posts
  <2>2. /\ Capture(m.tab, m) /\ net' = net \ {m} /\ edits' = edits
        /\ UNCHANGED <<durable, dead, accepted, Told, exposed>>
    BY <1>4 DEF EditConflicted, EditLost
  <2>. QED BY <2>1, <2>2, <1>2
<1>5. ASSUME NEW t \in Tabs, CaptureEnqueue(t) PROVE AllKept'
  <2>. DEFINE c == Head(captures[t])
              x == EntryOf(mem[t], c.field)
              s == IF x # 0 THEN x ELSE alloc[t]
              e == IF x # 0 THEN [mem[t][x] EXCEPT !.val = c.val] ELSE c
  <2>1. c \in Entry /\ (x # 0 => x \in DOMAIN mem[t])
    BY <1>5, EnqueueWrites
  <2>2. e.val = c.val
    <3>1. x # 0 => mem[t][x] \in Entry
      BY <2>1 DEF Types, IsQueue
    <3>. QED BY <3>1 DEF Entry
  <2>3. /\ durable' = Put(durable, s, e)
        /\ excused' = excused \cup {q[s].val : q \in {r \in {mem[t], durable} : s \in DOMAIN r}}
        /\ UNCHANGED <<unsaved, logged>>
        /\ exposed \subseteq exposed' /\ (s \in DOMAIN dead => dead[s].val \in exposed')
        /\ UNCHANGED <<edits, net, dead, accepted>>
        /\ captures' = [captures EXCEPT ![t] = Tail(captures[t])] /\ captures[t] # <<>>
    BY <1>5 DEF CaptureEnqueue
  <2>. DEFINE n == Len(captures[t])
  <2>4. /\ n \in Nat \ {0} /\ c = captures[t][1] /\ Len(Tail(captures[t])) = n - 1
        /\ \A i \in 1..(n - 1) : Tail(captures[t])[i] = captures[t][i + 1]
    BY <2>3, <1>0, DropHead
  <2>. HIDE DEF c, x, s, e
  <2>5. /\ s \in DOMAIN durable' /\ durable'[s] = e
        /\ DOMAIN durable' = DOMAIN durable \cup {s}
        /\ \A r \in DOMAIN durable : r # s => durable'[r] = durable[r]
    BY <2>3 DEF Put, Over
  <2>6. s \in DOMAIN durable => durable[s].val \in Told'
    BY <2>3
  <2>7. \A v : v = c.val => Kept(v)'
    BY <2>2, <2>5 DEF Kept
  <2>8. \A u \in Tabs : \A v \in Waiting(u) : v \in Waiting(u)' \/ v = c.val
    <3>1. \A u \in Tabs : u # t => Waiting(u)' = Waiting(u)
      BY <2>3, <1>0 DEF Waiting
    <3>2. ASSUME NEW i \in 1..n PROVE captures[t][i].val \in Waiting(t)' \/ captures[t][i].val = c.val
      <4>1. captures'[t] = Tail(captures[t])
        BY <2>3, <1>0
      <4>2. CASE i = 1
        BY <4>2, <2>4
      <4>3. CASE i # 1
        <5>1. i - 1 \in 1..(n - 1) /\ (i - 1) + 1 = i
          BY <4>3, <2>4
        <5>2. Tail(captures[t])[i - 1] = captures[t][i]
          BY <5>1, <2>4
        <5>. QED BY <4>1, <5>1, <5>2, <2>4 DEF Waiting
      <4>. QED BY <4>2, <4>3
    <3>3. \A v \in Waiting(t) : v \in Waiting(t)' \/ v = c.val
      BY <3>2 DEF Waiting
    <3>. QED BY <3>1, <3>3
  <2>9. \A r \in DOMAIN durable : \/ \E q \in DOMAIN durable' : durable'[q].val = durable[r].val
                                  \/ durable[r].val \in Told'
    BY <2>5, <2>6
  <2>10. \A r \in DOMAIN dead' \cap DOMAIN durable' : dead'[r].val \in exposed'
    BY <2>3, <2>5, <1>k
  <2>. HIDE DEF n
  <2>. QED BY <2>3, <2>7, <2>8, <2>9, <2>10, <1>k, KeptFrame
<1>6. ASSUME NEW t \in Tabs, KeepMine(t) PROVE AllKept'
  <2>. DEFINE s == EntryOf(snap[t], want[t].field)
              e == [snap[t][s] EXCEPT !.base = known[t]]
  <2>1. /\ pc[t] = "reloading" /\ UNCHANGED <<edits, net, captures, dead, accepted, Told, exposed>>
        /\ IF s = 0 THEN durable' = durable ELSE durable' = Put(durable, s, e)
    BY <1>6 DEF KeepMine
  <2>2. s # 0 => s \in DOMAIN snap[t]
    BY EntryFound DEF Types
  <2>3. s # 0 => e.val = snap[t][s].val
    BY <2>2 DEF Types, IsQueue, Entry
  <2>4. Follows(snap[t])
    BY <2>1 DEF Current
  <2>. HIDE DEF s, e
  <2>5. CASE s = 0
    BY <2>1, <2>5, <1>f
  <2>6. CASE s # 0
    <3>1. /\ s \in DOMAIN durable /\ durable[s].val \in {e.val} \cup exposed
      BY <2>2, <2>3, <2>4, <2>6 DEF Follows
    <3>2. /\ DOMAIN durable' = DOMAIN durable /\ durable'[s] = e
          /\ \A r \in DOMAIN durable : r # s => durable'[r] = durable[r]
      BY <2>1, <2>6, <3>1 DEF Put, Over
    <3>3. \A r \in DOMAIN durable : \/ \E q \in DOMAIN durable' : durable'[q].val = durable[r].val
                                    \/ durable[r].val \in exposed'
      BY <3>1, <3>2, <2>1
    <3>4. \A u \in Tabs : Waiting(u)' = Waiting(u)
      BY <2>1 DEF Waiting
    <3>5. \A r \in DOMAIN dead' \cap DOMAIN durable' : dead'[r].val \in exposed'
      BY <2>1, <3>2, <1>k
    <3>. QED BY <2>1, <3>3, <3>4, <3>5, <1>k, KeptFrame
  <2>. QED BY <2>5, <2>6
<1>7. ASSUME NEW t \in Tabs, TakeTheirs(t) PROVE AllKept'
  <2>. DEFINE s == EntryOf(snap[t], want[t].field)
  <2>1. /\ pc[t] = "reloading" /\ UNCHANGED <<edits, net, captures, dead, accepted, exposed>>
        /\ UNCHANGED <<unsaved, logged>>
        /\ IF s = 0 THEN durable' = durable /\ excused' = excused
                    ELSE durable' = Without(durable, s) /\ excused' = excused \cup {snap[t][s].val}
    BY <1>7 DEF TakeTheirs
  <2>2. s # 0 => s \in DOMAIN snap[t]
    BY EntryFound DEF Types
  <2>4. Follows(snap[t])
    BY <2>1 DEF Current
  <2>. HIDE DEF s
  <2>5. CASE s = 0
    BY <2>1, <2>5, <1>f
  <2>6. CASE s # 0
    <3>1. /\ s \in DOMAIN durable /\ durable[s].val \in Told' \cup exposed'
      BY <2>1, <2>2, <2>4, <2>6 DEF Follows
    <3>2. /\ DOMAIN durable' \subseteq DOMAIN durable
          /\ \A r \in DOMAIN durable : r # s => r \in DOMAIN durable' /\ durable'[r] = durable[r]
      BY <2>1, <2>6 DEF Without, Restrict
    <3>3. \A r \in DOMAIN durable : \/ \E q \in DOMAIN durable' : durable'[q].val = durable[r].val
                                    \/ durable[r].val \in Told' \cup exposed'
      BY <3>1, <3>2
    <3>4. \A u \in Tabs : Waiting(u)' = Waiting(u)
      BY <2>1 DEF Waiting
    <3>5. \A r \in DOMAIN dead' \cap DOMAIN durable' : dead'[r].val \in exposed'
      BY <2>1, <3>2, <1>k
    <3>6. Told \subseteq Told'
      BY <2>1, <2>6
    <3>. QED BY <2>1, <3>3, <3>4, <3>5, <3>6, <1>k, KeptFrame
  <2>. QED BY <2>5, <2>6
<1>8. ASSUME NEW t \in Tabs, Advance(t) PROVE AllKept'
  <2>. DEFINE moved == {s \in DOMAIN mem[t] : Detect /\ s > InHand(t)}
              fresh == [s \in moved |-> [mem[t][s] EXCEPT !.base = known[t]]]
  <2>1. /\ durable' = Over(fresh, durable) /\ pc[t] = "advancing"
        /\ UNCHANGED <<edits, net, captures, dead, accepted, Told, exposed>>
    BY <1>8 DEF Advance
  <2>2. DOMAIN fresh = moved /\ \A s \in moved : s \in DOMAIN mem[t] /\ fresh[s].val = mem[t][s].val
    BY DEF Types, IsQueue, Entry
  <2>3. Follows(mem[t])
    BY <2>1 DEF Current, Working
  <2>. HIDE DEF moved, fresh
  <2>4. \A s \in moved : s \in DOMAIN durable /\ durable[s].val \in {fresh[s].val} \cup exposed
    BY <2>2, <2>3 DEF Follows
  <2>5. /\ DOMAIN durable' = DOMAIN durable
        /\ \A s \in moved : durable'[s] = fresh[s]
        /\ \A s \in DOMAIN durable \ moved : durable'[s] = durable[s]
    BY <2>1, <2>2, <2>4 DEF Over
  <2>6. \A r \in DOMAIN durable : \/ \E q \in DOMAIN durable' : durable'[q].val = durable[r].val
                                  \/ durable[r].val \in exposed'
    BY <2>1, <2>4, <2>5
  <2>7. \A u \in Tabs : Waiting(u)' = Waiting(u)
    BY <2>1 DEF Waiting
  <2>8. \A r \in DOMAIN dead' \cap DOMAIN durable' : dead'[r].val \in exposed'
    BY <2>1, <2>5, <1>k
  <2>. QED BY <2>1, <2>6, <2>7, <2>8, <1>k, KeptFrame
<1>9. ASSUME NEW t \in Tabs, NEW m \in net, FlushAcked(t, m) PROVE AllKept'
  <2>1. /\ durable' = Without(durable, m.seq) /\ m.seq # 0 /\ m.status = "ok" /\ net' = net \ {m}
        /\ UNCHANGED <<edits, captures, dead, accepted, Told, exposed>>
    BY <1>9 DEF FlushAcked, Answered
  <2>2. m.seq \in DOMAIN durable /\ durable[m.seq].val \in accepted' \cup exposed'
    BY <2>1, <1>k DEF Current
  <2>3. /\ DOMAIN durable' \subseteq DOMAIN durable
        /\ \A r \in DOMAIN durable : r # m.seq => r \in DOMAIN durable' /\ durable'[r] = durable[r]
    BY <2>1 DEF Without, Restrict
  <2>4. \A r \in DOMAIN durable : \/ \E q \in DOMAIN durable' : durable'[q].val = durable[r].val
                                  \/ durable[r].val \in accepted' \cup exposed'
    BY <2>2, <2>3
  <2>5. \A u \in Tabs : Waiting(u)' = Waiting(u)
    BY <2>1 DEF Waiting
  <2>6. \A r \in DOMAIN dead' \cap DOMAIN durable' : dead'[r].val \in exposed'
    BY <2>1, <2>3, <1>k
  <2>. QED BY <2>1, <2>4, <2>5, <2>6, <1>k, KeptFrame
<1>10. ASSUME NEW t \in Tabs, NEW m \in net, FlushRefused(t, m) PROVE AllKept'
  <2>. DEFINE e == mem[t][m.seq]
  <2>1. /\ durable' = Without(durable, m.seq) /\ m.seq # 0 /\ net' = net \ {m}
        /\ dead' = Put(dead, m.seq, e) /\ m.tab = t
        /\ UNCHANGED <<edits, captures, accepted, Told, exposed>>
    BY <1>10 DEF FlushRefused, Answered
  <2>2. m.seq \in DOMAIN mem[t] /\ pc[t] = "waiting"
    BY <2>1, AnsweredIs
  <2>3. Follows(mem[t])
    BY <2>2 DEF Current, Working
  <2>4. m.seq \in DOMAIN durable /\ durable[m.seq].val \in {e.val} \cup exposed'
    BY <2>1, <2>2, <2>3 DEF Follows
  <2>. HIDE DEF e
  <2>5. /\ DOMAIN durable' = DOMAIN durable \ {m.seq}
        /\ \A r \in DOMAIN durable : r # m.seq => r \in DOMAIN durable' /\ durable'[r] = durable[r]
    BY <2>1 DEF Without, Restrict
  <2>6. /\ DOMAIN dead' = DOMAIN dead \cup {m.seq} /\ dead'[m.seq] = e
        /\ \A r \in DOMAIN dead : r # m.seq => dead'[r] = dead[r]
    BY <2>1 DEF Put, Over
  <2>7. \A r \in DOMAIN durable : \/ \E q \in DOMAIN durable' : durable'[q].val = durable[r].val
                                  \/ \E q \in DOMAIN dead' : dead'[q].val = durable[r].val
                                  \/ durable[r].val \in exposed'
    BY <2>4, <2>5, <2>6
  <2>8. \A r \in DOMAIN dead : \/ r \in DOMAIN dead' /\ dead'[r].val = dead[r].val
                               \/ dead[r].val \in exposed'
    BY <2>1, <2>4, <2>6, <1>k
  <2>9. \A r \in DOMAIN dead' \cap DOMAIN durable' : dead'[r].val \in exposed'
    BY <2>1, <2>5, <2>6, <1>k
  <2>10. \A u \in Tabs : Waiting(u)' = Waiting(u)
    BY <2>1 DEF Waiting
  <2>. QED BY <2>1, <2>7, <2>8, <2>9, <2>10, <1>k, KeptFrame
<1>11. ASSUME NEW t \in Tabs, Crash(t) PROVE AllKept'
  <2>1. /\ unsaved' = unsaved \cup {m.val : m \in {n \in net : n.tab = t /\ n.seq = 0}}
                              \cup {captures[t][i].val : i \in DOMAIN captures[t]}
        /\ net' = {m \in net : m.tab # t}
        /\ captures' = [captures EXCEPT ![t] = <<>>]
        /\ UNCHANGED <<edits, durable, dead, accepted, exposed, excused, logged>>
    BY <1>11 DEF Crash
  <2>2. \A m \in net : m.seq = 0 => m \in net' \/ m.val \in Told'
    BY <2>1
  <2>3. \A u \in Tabs : \A v \in Waiting(u) : v \in Waiting(u)' \/ v \in Told'
    <3>1. DOMAIN captures[t] = 1..Len(captures[t])
      BY <1>0
    <3>2. \A u \in Tabs : u # t => captures'[u] = captures[u]
      BY <2>1, <1>0
    <3>. QED BY <2>1, <3>1, <3>2 DEF Waiting
  <2>4. \A e : e \in Told' => Kept(e)'
    BY DEF Kept
  <2>5. Told \subseteq Told' /\ net' \subseteq net
    BY <2>1
  <2>6. \A m \in net : m.seq = 0 => Kept(m.val)' \/ \E n \in net' : n.seq = 0 /\ n.val = m.val
    BY <2>2, <2>4
  <2>7. \A u \in Tabs : \A v \in Waiting(u) : v \in Waiting(u)' \/ Kept(v)'
    BY <2>3, <2>4
  <2>8. /\ \A m \in net' : m.status = "ok" => m.val \in accepted'
        /\ \A m \in net' : m.status = "refused" /\ m.seq = 0 => m.val \in Told'
        /\ \A s \in DOMAIN dead' \cap DOMAIN durable' : dead'[s].val \in exposed'
    BY <2>1, <2>5, <1>k
  <2>9. /\ accepted \subseteq accepted' /\ exposed \subseteq exposed' /\ edits' = edits
        /\ durable' = durable /\ dead' = dead
    BY <2>1
  <2>. QED BY <2>5, <2>6, <2>7, <2>8, <2>9, KeptFrame
\* The server answers a message: accepted, or refused.
<1>12. ASSUME NEW m \in net, NEW status, NEW r, Answer(m, status, r),
              edits' = edits, captures' = captures, durable' = durable, dead' = dead,
              exposed' = exposed, accepted \subseteq accepted', Told \subseteq Told',
              status = "ok" => m.val \in accepted',
              status = "refused" /\ m.seq = 0 => m.val \in Told'
       PROVE  AllKept'
  <2>1. PICK n : net' = (net \ {m}) \cup {n} /\ n.seq = m.seq /\ n.val = m.val /\ n.status = status
    BY <1>12, AnswerKeeps
  <2>2. \A u \in Tabs : Waiting(u)' = Waiting(u)
    BY <1>12 DEF Waiting
  <2>3. \A o \in net : o.seq = 0 => \E p \in net' : p.seq = 0 /\ p.val = o.val
    BY <2>1
  <2>4. /\ \A o \in net' : o.status = "ok" => o.val \in accepted'
        /\ \A o \in net' : o.status = "refused" /\ o.seq = 0 => o.val \in Told'
    BY <2>1, <1>12, <1>k
  <2>. QED BY <1>12, <2>2, <2>3, <2>4, <1>k, KeptFrame
<1>13. ASSUME NEW m \in net, Accept(m) PROVE AllKept'
  <2>1. /\ Answer(m, "ok", rev') /\ accepted' = accepted \cup {m.val}
        /\ UNCHANGED <<edits, captures, durable, dead, exposed, Told>>
    BY <1>13 DEF Accept
  <2>. QED BY <2>1, <1>12
<1>14. ASSUME NEW m \in net, Conflict(m) PROVE AllKept'
  <2>1. /\ Answer(m, "conflict", rev)
        /\ UNCHANGED <<edits, captures, durable, dead, exposed, Told, accepted>>
    BY <1>14 DEF Conflict
  <2>. QED BY <2>1, <1>12
<1>15. ASSUME NEW m \in net, Refuse(m) PROVE AllKept'
  <2>1. /\ Answer(m, "refused", rev)
        /\ logged' = IF m.seq = 0 THEN logged \cup {m.val} ELSE logged
        /\ UNCHANGED <<edits, captures, durable, dead, exposed, accepted, excused, unsaved>>
    BY <1>15 DEF Refuse
  <2>. QED BY <2>1, <1>12
<1>16. ASSUME NEW m \in net, EditAnswered(m) PROVE AllKept'
  <2>1. /\ net' = net \ {m} /\ m.seq = 0 /\ m.status \in {"ok", "refused"}
        /\ UNCHANGED <<edits, captures, durable, dead, exposed, accepted, Told>>
    BY <1>16 DEF EditAnswered
  <2>. QED BY <2>1, <1>f, <1>k
<1>17. ASSUME NEW t \in Tabs, NEW m \in net, FlushConflicted(t, m) \/ FlushLost(t, m) PROVE AllKept'
  <2>1. /\ net' = net \ {m} /\ m.seq # 0
        /\ UNCHANGED <<edits, captures, durable, dead, exposed, accepted, Told>>
    BY <1>17 DEF FlushConflicted, FlushLost, Answered
  <2>. QED BY <2>1, <1>f
<1>18. ASSUME NEW t \in Tabs, \/ CaptureAlloc(t) \/ Broadcast(t) \/ Heal(t) \/ Reload(t) \/ PullRead(t)
                              \/ PullFails(t) \/ Reconcile(t)
                              \/ \E verb, f : Lock(t, verb, f)
       PROVE  AllKept'
  <2>1. UNCHANGED <<edits, net, captures, durable, dead, exposed, accepted, Told>>
    BY <1>18 DEF CaptureAlloc, Broadcast, Heal, Reload, PullRead, PullFails, Reconcile, Lock
  <2>. QED BY <2>1, <1>f
<1>19. ASSUME NEW t \in Tabs, FlushSend(t) PROVE AllKept'
  <2>. DEFINE m == [tab |-> t, seq |-> InHand(t), field |-> mem[t][InHand(t)].field,
                    val |-> mem[t][InHand(t)].val,
                    base |-> mem[t][InHand(t)].base, status |-> "sent", at |-> 0]
  <2>1. /\ net' = net \cup {m} /\ m.status = "sent"
        /\ UNCHANGED <<edits, captures, durable, dead, exposed, accepted, Told>>
    BY <1>19 DEF FlushSend
  <2>. HIDE DEF m
  <2>2. \A u \in Tabs : Waiting(u)' = Waiting(u)
    BY <2>1 DEF Waiting
  <2>. QED BY <2>1, <2>2, <1>k, KeptFrame
<1>20. ASSUME NEW f \in Fields, ForeignWrite(f) PROVE AllKept'
  <2>1. UNCHANGED <<edits, net, captures, durable, dead, exposed, accepted, Told>>
    BY <1>20 DEF ForeignWrite
  <2>. QED BY <2>1, <1>f
<1>21. CASE UNCHANGED vars
  BY <1>21, <1>f DEF vars
<1>. QED
  BY <1>1, <1>3, <1>4, <1>5, <1>6, <1>7, <1>8, <1>9, <1>10, <1>11, <1>13, <1>14, <1>15, <1>16,
     <1>17, <1>18, <1>19, <1>20, <1>21, StepKinds DEF TabStep, PostStep

-----------------------------------------------------------------------------
(* Pins.                                                                   *)

\* The values in the places a pin can be are keystrokes that happened.
LEMMA PlaceValues ==
  ASSUME Types, OnePlace
  PROVE  /\ \A s \in DOMAIN durable : durable[s].val \in 1..edits /\ durable[s].base \in Nat
         /\ \A t \in Tabs : \A s \in DOMAIN mem[t] : mem[t][s].val \in 1..edits /\ mem[t][s].base \in Nat
         /\ \A t \in Tabs : \A s \in DOMAIN snap[t] : snap[t][s].val \in 1..edits /\ snap[t][s].base \in Nat
         /\ \A t \in Tabs : \A i \in 1..Len(captures[t]) :
               captures[t][i].val \in 1..edits /\ captures[t][i].base \in Nat
         /\ \A m \in net : m.val \in 1..edits /\ m.base \in Nat /\ m.at \in Nat
<1>1. edits \in Nat
  <2>1. edits \in 0..MaxEdits
    BY DEF Types
  <2>. QED BY <2>1, SyncConstants
<1>2. \A v \in Edits : v <= edits => v \in 1..edits
  BY <1>1, SyncConstants DEF Edits
<1>3. \A s, e : Ref(s, e).val = e.val
  BY DEF Ref
<1>4. \A a \in Written : a.val <= edits
  BY DEF OnePlace
<1>5. ASSUME NEW q, IsQueue(q), \A s \in DOMAIN q : Ref(s, q[s]) \in Written
      PROVE  \A s \in DOMAIN q : q[s].val \in 1..edits /\ q[s].base \in Nat
  <2>1. ASSUME NEW s \in DOMAIN q PROVE q[s].val \in Edits /\ q[s].base \in Nat /\ q[s].val <= edits
    <3>1. q[s].val \in Edits /\ q[s].base \in Nat
      BY <1>5, EntryTypes
    <3>. QED BY <3>1, <1>3, <1>4, <1>5
  <2>. QED BY <2>1, <1>2
<1>6. \A s \in DOMAIN durable : durable[s].val \in 1..edits /\ durable[s].base \in Nat
  BY <1>5, WrittenIn DEF Types
<1>7. \A t \in Tabs : \A s \in DOMAIN mem[t] : mem[t][s].val \in 1..edits /\ mem[t][s].base \in Nat
  BY <1>5, WrittenIn DEF Types
<1>8. \A t \in Tabs : \A s \in DOMAIN snap[t] : snap[t][s].val \in 1..edits /\ snap[t][s].base \in Nat
  BY <1>5, WrittenIn DEF Types
<1>9. ASSUME NEW t \in Tabs, NEW i \in 1..Len(captures[t])
      PROVE  captures[t][i].val \in 1..edits /\ captures[t][i].base \in Nat
  <2>1. captures[t] \in Seq(Entry)
    BY DEF Types
  <2>2. captures[t][i] \in Entry
    BY <2>1, ElementOfSeq
  <2>3. captures[t][i].val <= edits
    BY DEF OnePlace, Waiting
  <2>. QED BY <2>2, <2>3, <1>2 DEF Entry
<1>10. \A m \in net : m.val \in 1..edits /\ m.base \in Nat /\ m.at \in Nat
  BY <1>2 DEF Types, Posts, OnePlace
<1>. QED BY <1>6, <1>7, <1>8, <1>9, <1>10

\* What a step leaves as it was, place by place, but for the value w, of which
\* its user has seen less than before; what is new is honest.
KeepsSeen(w) ==
  /\ rev' \in Nat /\ rev <= rev' /\ \A r \in foreign' : r \in foreign \/ (r \in Nat /\ r > rev)
  /\ Spoiled \subseteq Spoiled' /\ overwrote' \subseteq Spoiled'
  /\ \A v \in 1..edits : v # w => seen'[v] = seen[v]
KeepsDurable(w) ==
  \A s \in DOMAIN durable' :
     \/ Honest(durable[s])'
     \/ s \in DOMAIN durable /\ durable'[s] = durable[s] /\ durable[s].val # w
KeepsMem(w) ==
  \A t \in Tabs : \A s \in DOMAIN mem'[t] :
     \/ Honest(mem[t][s])'
     \/ mem'[t][s].base <= rev' /\ ~Working(t)'
     \/ /\ s \in DOMAIN mem[t] /\ mem'[t][s] = mem[t][s]
        /\ Working(t)' => Working(t) /\ mem[t][s].val # w
KeepsSnap(w) ==
  \A t \in Tabs : \A s \in DOMAIN snap'[t] :
     \/ Honest(snap[t][s])'
     \/ /\ s \in DOMAIN snap[t] /\ snap'[t][s] = snap[t][s]
        /\ pc'[t] = "reloading" => pc[t] = "reloading" /\ snap[t][s].val # w
KeepsCaptures(w) ==
  \A t \in Tabs : \A i \in 1..Len(captures'[t]) :
     \/ Honest(captures[t][i])'
     \/ \E j \in 1..Len(captures[t]) : captures'[t][i] = captures[t][j] /\ captures[t][j].val # w
KeepsNet(w) ==
  \A m \in net' : \/ m \in net /\ m.val # w
                  \/ Honest(m)' /\ (m.status = "ok" => m.at \notin foreign')
KeepsPulled ==
  \A t \in Tabs : pc'[t] = "advancing" =>
     pulled'[t] \notin foreign' \/ (pc[t] = "advancing" /\ pulled'[t] = pulled[t])

\* What was honest is honest still, unless what its user has seen (w's) fell.
LEMMA PinsFrame ==
  ASSUME Types, Revisions, OnePlace, Pins, NEW w, KeepsSeen(w), KeepsDurable(w), KeepsMem(w),
         KeepsSnap(w), KeepsCaptures(w), KeepsNet(w), KeepsPulled
  PROVE  Pins'
<1>. USE DEF KeepsSeen
<1>1. rev \in Nat /\ foreign \subseteq Nat /\ seen \in [Edits -> Nat] /\ \A v \in 1..edits : v \in Edits
  <2>1. edits \in 0..MaxEdits /\ rev \in Nat /\ foreign \subseteq Nat /\ seen \in [Edits -> Nat]
    BY DEF Types, Seqs
  <2>. QED BY <2>1, SyncConstants DEF Edits
<1>2. ASSUME NEW v \in 1..edits, NEW b \in Nat, b <= rev, v # w, Sees(v, b)
      PROVE  b <= rev' /\ (v \in Spoiled' \/ \A r \in foreign' : r <= seen'[v] \/ b < r)
  <2>1. b <= rev'
    BY <1>1, <1>2
  <2>2. CASE v \in Spoiled
    BY <2>1, <2>2
  <2>3. CASE v \notin Spoiled
    <3>1. \A r \in foreign : r <= seen[v] \/ b < r
      BY <1>2, <2>3 DEF Sees
    <3>2. seen'[v] = seen[v] /\ seen[v] \in Nat
      BY <1>1, <1>2
    <3>3. \A r \in foreign' : r <= seen'[v] \/ b < r
      <4>1. \A r \in foreign : r <= seen'[v] \/ b < r
        BY <3>1, <3>2
      <4>2. \A r \in Nat : r > rev => b < r
        BY <1>1, <1>2
      <4>. QED BY <4>1, <4>2
    <3>. QED BY <2>1, <3>3
  <2>. QED BY <2>2, <2>3
<1>3. \A s \in DOMAIN durable' : Honest(durable[s])'
  <2>1. ASSUME NEW s \in DOMAIN durable, durable'[s] = durable[s], durable[s].val # w
        PROVE  Honest(durable[s])'
    <3>1. durable[s].val \in 1..edits /\ durable[s].base \in Nat /\ Honest(durable[s])
      BY PlaceValues DEF Pins
    <3>. QED BY <3>1, <2>1, <1>2 DEF Honest, Sees
  <2>. QED BY <2>1 DEF KeepsDurable
<1>4. ASSUME NEW t \in Tabs, NEW s \in DOMAIN mem'[t]
      PROVE  mem'[t][s].base <= rev' /\ (Working(t)' => Honest(mem[t][s])')
  <2>1. CASE s \in DOMAIN mem[t] /\ mem'[t][s] = mem[t][s]
             /\ (Working(t)' => Working(t) /\ mem[t][s].val # w)
    <3>1. mem[t][s].val \in 1..edits /\ mem[t][s].base \in Nat /\ mem[t][s].base <= rev
          /\ (Working(t) => Honest(mem[t][s]))
      BY <2>1, PlaceValues DEF Pins
    <3>2. mem'[t][s].base <= rev'
      BY <3>1, <2>1, <1>1
    <3>3. Working(t)' => Honest(mem[t][s])'
      <4>1. ASSUME Working(t)' PROVE Honest(mem[t][s])'
        <5>1. Sees(mem[t][s].val, mem[t][s].base) /\ mem[t][s].val # w
          BY <3>1, <2>1, <4>1 DEF Honest
        <5>. HIDE DEF Working
        <5>. QED BY <3>1, <5>1, <2>1, <1>2 DEF Honest, Sees
      <4>. QED BY <4>1
    <3>. QED BY <3>2, <3>3
  <2>. QED BY <2>1 DEF KeepsMem, Honest
<1>5. ASSUME NEW t \in Tabs, NEW s \in DOMAIN snap'[t]
      PROVE  snap'[t][s].base <= rev' /\ (pc'[t] = "reloading" => Honest(snap[t][s])')
  <2>1. CASE s \in DOMAIN snap[t] /\ snap'[t][s] = snap[t][s]
             /\ (pc'[t] = "reloading" => pc[t] = "reloading" /\ snap[t][s].val # w)
    <3>1. snap[t][s].val \in 1..edits /\ snap[t][s].base \in Nat /\ snap[t][s].base <= rev
          /\ (pc[t] = "reloading" => Honest(snap[t][s]))
      BY <2>1, PlaceValues DEF Pins
    <3>2. snap'[t][s].base <= rev'
      BY <3>1, <2>1, <1>1
    <3>3. pc'[t] = "reloading" => Honest(snap[t][s])'
      BY <3>1, <2>1, <1>2 DEF Honest, Sees
    <3>. QED BY <3>2, <3>3
  <2>. QED BY <2>1 DEF KeepsSnap, Honest
<1>6. ASSUME NEW t \in Tabs, NEW i \in 1..Len(captures'[t]) PROVE Honest(captures[t][i])'
  <2>1. ASSUME NEW j \in 1..Len(captures[t]), captures'[t][i] = captures[t][j], captures[t][j].val # w
        PROVE  Honest(captures[t][i])'
    <3>1. captures[t][j].val \in 1..edits /\ captures[t][j].base \in Nat /\ Honest(captures[t][j])
      BY PlaceValues DEF Pins
    <3>. QED BY <3>1, <2>1, <1>2 DEF Honest, Sees
  <2>. QED BY <2>1 DEF KeepsCaptures
<1>7. ASSUME NEW m \in net' PROVE Honest(m)' /\ (m.status = "ok" => m.at \notin foreign')
  <2>1. ASSUME m \in net, m.val # w PROVE Honest(m)' /\ (m.status = "ok" => m.at \notin foreign')
    <3>1. m.val \in 1..edits /\ m.base \in Nat /\ Honest(m) /\ m.at \in Nat
      BY <2>1, PlaceValues DEF Pins
    <3>2. Honest(m)'
      BY <3>1, <2>1, <1>2 DEF Honest, Sees
    <3>3. ASSUME m.status = "ok" PROVE m.at \notin foreign'
      <4>1. m.at \notin foreign /\ m.at \in 1..rev
        BY <2>1, <3>3 DEF Pins, Revisions
      <4>. QED BY <4>1, <3>1, <1>1
    <3>. QED BY <3>2, <3>3
  <2>. QED BY <2>1 DEF KeepsNet
<1>8. ASSUME NEW t \in Tabs, pc'[t] = "advancing" PROVE pulled'[t] \notin foreign'
  <2>1. CASE pc[t] = "advancing" /\ pulled'[t] = pulled[t]
    <3>1. pulled[t] \notin foreign /\ pulled[t] \in 1..rev
      BY <2>1 DEF Pins, Revisions
    <3>. QED BY <2>1, <3>1, <1>1
  <2>. QED BY <2>1, <1>8 DEF KeepsPulled
<1>. QED BY <1>3, <1>4, <1>5, <1>6, <1>7, <1>8 DEF Pins

LEMMA PinsStep == IInv /\ [Next]_vars => Pins'
<1>. SUFFICES ASSUME Types, Revisions, LockHeld, Names, OnePlace, Pins, [Next]_vars
              PROVE  Pins'
  BY DEF IInv
<1>n. rev \in Nat /\ edits \in Nat /\ foreign \subseteq Nat /\ known \in [Tabs -> Nat]
      /\ seen \in [Edits -> Nat] /\ (~Detect => foreign = {}) /\ \A r \in foreign : r <= rev
  <2>1. edits \in 0..MaxEdits /\ rev \in Nat /\ foreign \subseteq Nat /\ known \in [Tabs -> Nat]
        /\ seen \in [Edits -> Nat]
    BY DEF Types, Seqs
  <2>2. foreign \subseteq 1..rev /\ (~Detect => foreign = {})
    BY DEF Revisions
  <2>. QED BY <2>1, <2>2, SyncConstants
<1>0. /\ DOMAIN mem = Tabs /\ DOMAIN snap = Tabs /\ pc \in [Tabs -> Stages]
      /\ captures \in [Tabs -> Seq(Entry)] /\ net \subseteq Posts
  BY DEF Types
<1>k. \A t \in Tabs : known[t] \in Nat /\ known[t] <= rev /\ fed[t] \in Nat
  BY <1>n DEF Revisions
<1>v. /\ \A s \in DOMAIN durable : durable[s].val # 0
      /\ \A t \in Tabs : \A s \in DOMAIN mem[t] : mem[t][s].val # 0
      /\ \A t \in Tabs : \A s \in DOMAIN snap[t] : snap[t][s].val # 0
      /\ \A t \in Tabs : \A i \in 1..Len(captures[t]) : captures[t][i].val # 0
      /\ \A m \in net : m.val # 0
  BY PlaceValues
<1>o. overwrote \subseteq Spoiled
  BY DEF Pins
<1>. USE DEF row, store, lockage, chain, history, fates, Told, Spoiled
\* The lock work of one tab goes on or ends; nobody else's does.
<1>l. ASSUME NEW t \in Tabs, Release(t) \/ FlushNext(t)
      PROVE  /\ \A u \in Tabs : pc'[u] # "reloading" \/ (pc'[u] = pc[u] /\ u # t)
             /\ \A u \in Tabs : pc'[u] # "advancing" \/ (pc'[u] = pc[u] /\ pulled'[u] = pulled[u])
             /\ \A u \in Tabs : u # t => pc'[u] = pc[u]
             /\ pc'[t] \in {"idle", "flushing"}
             /\ Release(t) => pc'[t] = "idle"
             /\ \A u \in Tabs : \A s \in DOMAIN snap'[u] : s \in DOMAIN snap[u] /\ snap'[u] = snap[u]
  <2>1. \E stage \in {"idle", "flushing"} : pc' = [pc EXCEPT ![t] = stage]
    BY <1>l DEF Release, FlushNext
  <2>2. pulled' = [pulled EXCEPT ![t] = 1] /\ pulled \in [Tabs -> Nat]
    BY <1>l DEF Release, FlushNext, Types
  <2>3. \A u \in Tabs : \A s \in DOMAIN snap'[u] : s \in DOMAIN snap[u] /\ snap'[u] = snap[u]
    <3>1. \A u \in Tabs : snap'[u] \in {snap[u], Empty}
      BY <1>l, LockSnap
    <3>. QED BY <3>1 DEF Empty
  <2>4. Release(t) => pc'[t] = "idle"
    BY <1>0 DEF Release
  <2>. QED BY <2>1, <2>2, <2>3, <2>4, <1>0
\* Steps that leave the queues and the lock alone.
<1>f. ASSUME durable' = durable, mem' = mem, snap' = snap, pc' = pc, pulled' = pulled,
             rev' \in Nat, rev <= rev',
             \A r \in foreign' : r \in foreign \/ (r \in Nat /\ r > rev),
             Spoiled \subseteq Spoiled', overwrote' \subseteq Spoiled',
             \A v \in 1..edits : seen'[v] = seen[v],
             \A t \in Tabs : \A i \in 1..Len(captures'[t]) :
                \/ Honest(captures[t][i])'
                \/ \E j \in 1..Len(captures[t]) : captures'[t][i] = captures[t][j],
             \A m \in net' : \/ m \in net
                             \/ Honest(m)' /\ (m.status = "ok" => m.at \notin foreign')
      PROVE  Pins'
  <2>1. \A t \in Tabs : Working(t)' = Working(t)
    BY <1>f DEF Working
  <2>2. KeepsSeen(0)
    BY <1>f DEF KeepsSeen
  <2>3. KeepsDurable(0)
    BY <1>f, <1>v DEF KeepsDurable
  <2>4. KeepsMem(0)
    BY <1>f, <1>v, <2>1 DEF KeepsMem
  <2>5. KeepsSnap(0)
    BY <1>f, <1>v DEF KeepsSnap
  <2>6. KeepsCaptures(0)
    BY <1>f, <1>v DEF KeepsCaptures
  <2>7. KeepsNet(0)
    BY <1>f, <1>v DEF KeepsNet
  <2>8. KeepsPulled
    BY <1>f DEF KeepsPulled
  <2>. QED BY <2>2, <2>3, <2>4, <2>5, <2>6, <2>7, <2>8, PinsFrame
\* A pin goes onto a capture chain.
<1>c. ASSUME NEW t \in Tabs, NEW m, m.field \in Fields, m.val \in Edits, m.base \in Nat, Capture(t, m),
             m.base <= rev, ~Detect => foreign' = {}, rev' = rev,
             Detect => m.val \in Spoiled' \/ \A r \in foreign' : r <= seen'[m.val] \/ m.base < r
      PROVE  \A u \in Tabs : \A i \in 1..Len(captures'[u]) :
                \/ Honest(captures[u][i])'
                \/ \E j \in 1..Len(captures[u]) : captures'[u][i] = captures[u][j]
  <2>. DEFINE n == Len(captures[t])
  <2>1. /\ \A u \in Tabs : u # t => captures'[u] = captures[u]
        /\ n \in Nat /\ Len(captures'[t]) = n + 1
        /\ \A i \in 1..n : captures'[t][i] = captures[t][i]
        /\ captures'[t][n + 1].val = m.val
        /\ captures'[t][n + 1].base = IF Detect THEN m.base ELSE 0
    BY <1>c, CaptureIs
  <2>2. ASSUME NEW i, i = n + 1 PROVE Honest(captures[t][i])'
    <3>1. CASE Detect
      <4>1. captures'[t][i].val = m.val /\ captures'[t][i].base = m.base
        BY <3>1, <2>1, <2>2
      <4>. QED BY <3>1, <4>1, <1>c DEF Honest, Sees
    <3>2. CASE ~Detect
      <4>1. captures'[t][i].base = 0
        BY <3>2, <2>1, <2>2
      <4>. QED BY <3>2, <4>1, <1>c, <1>n DEF Honest, Sees
    <3>. QED BY <3>1, <3>2
  <2>3. \A i \in 1..(n + 1) : i \in 1..n \/ i = n + 1
    BY <2>1
  <2>4. ASSUME NEW i \in 1..Len(captures'[t])
        PROVE  Honest(captures[t][i])' \/ \E j \in 1..n : captures'[t][i] = captures[t][j]
    <3>1. CASE i = n + 1
      BY <3>1, <2>2
    <3>2. CASE i \in 1..n
      BY <3>2, <2>1
    <3>. QED BY <3>1, <3>2, <2>1, <2>3
  <2>. QED BY <2>1, <2>4
<1>1. ASSUME NEW t \in Tabs, NEW f \in Fields, Edit(t, f) PROVE Pins'
  <2>a. /\ edits' = edits + 1 /\ seen' = [seen EXCEPT ![edits'] = fed[t]]
        /\ blind' = IF \E r \in foreign : fed[t] < r /\ r <= known[t]
                    THEN blind \cup {edits'} ELSE blind
    BY <1>1 DEF Edit, Type
  <2>b. \A m \in net' : \/ m \in net
                        \/ m.val = edits' /\ m.base = known[t] /\ m.status = "sent"
    BY <1>1 DEF Edit
  <2>c. UNCHANGED <<captures, durable, mem, snap, pc, pulled, rev, foreign, skewed, overwrote>>
    BY <1>1 DEF Edit, Type
  <2>1. /\ \A m \in net' : \/ m \in net
                           \/ m.val = edits + 1 /\ m.base = known[t] /\ m.status = "sent"
        /\ seen' = [seen EXCEPT ![edits + 1] = fed[t]]
        /\ UNCHANGED <<captures, durable, mem, snap, pc, pulled, rev, foreign, skewed, overwrote>>
    BY <2>a, <2>b, <2>c
  <2>0. edits + 1 \in Edits
    BY <1>1, <1>n, SyncConstants DEF Edit, Type, Edits
  <2>2. /\ seen'[edits + 1] = fed[t]
        /\ \A v \in 1..edits : seen'[v] = seen[v]
    BY <2>0, <2>1, <1>n DEF Edits
  <2>3. ASSUME NEW m \in net', m.val = edits + 1, m.base = known[t] PROVE Honest(m)'
    <3>1. m.val \in Spoiled' \/ \A r \in foreign : r <= fed[t] \/ known[t] < r
      BY <2>a, <2>3, <1>k, <1>n
    <3>. QED BY <2>1, <2>2, <2>3, <3>1, <1>k DEF Honest, Sees
  <2>4. Spoiled \subseteq Spoiled'
    BY <2>a, <2>c
  <2>. QED BY <2>1, <2>2, <2>3, <2>4, <1>f, <1>n, <1>o
<1>2. ASSUME NEW t \in Tabs, NEW f \in Fields, EditOffline(t, f) PROVE Pins'
  <2>. DEFINE m == [field |-> f, val |-> edits', base |-> known[t]]
  <2>1. edits' = edits + 1 /\ edits' \in Edits /\ known[t] \in Nat
    BY <1>2, SyncConstants DEF EditOffline, Type, Edits, Types
  <2>2. /\ m.field \in Fields /\ m.val = edits + 1 /\ m.val \in Edits /\ m.base = known[t]
        /\ Capture(t, m)
    BY <1>2, <2>1 DEF EditOffline
  <2>3. /\ seen' = [seen EXCEPT ![edits + 1] = fed[t]]
        /\ blind' = IF \E r \in foreign : fed[t] < r /\ r <= known[t]
                    THEN blind \cup {edits + 1} ELSE blind
        /\ UNCHANGED <<net, durable, mem, snap, pc, pulled, rev, foreign, skewed, overwrote>>
    BY <1>2, <2>1 DEF EditOffline, Type
  <2>. HIDE DEF m
  <2>4. /\ seen'[m.val] = fed[t]
        /\ \A v \in 1..edits : seen'[v] = seen[v]
        /\ Spoiled \subseteq Spoiled'
    BY <2>2, <2>3, <1>n DEF Edits
  <2>5. m.val \in Spoiled' \/ \A r \in foreign' : r <= seen'[m.val] \/ m.base < r
    BY <2>2, <2>3, <2>4, <1>k, <1>n
  <2>6. \A u \in Tabs : \A i \in 1..Len(captures'[u]) :
           \/ Honest(captures[u][i])'
           \/ \E j \in 1..Len(captures[u]) : captures'[u][i] = captures[u][j]
    BY <2>2, <2>3, <2>5, <1>c, <1>k, <1>n
  <2>. QED BY <2>3, <2>4, <2>6, <1>f, <1>n, <1>o
<1>3. ASSUME NEW m \in net, EditConflicted(m) \/ EditLost(m) PROVE Pins'
  <2>1. m.field \in Fields /\ m.val \in Edits /\ m.base \in Nat /\ m.tab \in Tabs
    BY <1>0 DEF Posts
  <2>2. /\ Capture(m.tab, m) /\ net' \subseteq net
        /\ UNCHANGED <<seen, durable, mem, snap, pc, pulled, rev, foreign, Spoiled, overwrote>>
    BY <1>3 DEF EditConflicted, EditLost
  <2>3. Honest(m)
    BY DEF Pins
  <2>4. m.base <= rev /\ (m.val \in Spoiled' \/ \A r \in foreign' : r <= seen'[m.val] \/ m.base < r)
    BY <2>2, <2>3 DEF Honest, Sees
  <2>6. \A u \in Tabs : \A i \in 1..Len(captures'[u]) :
           \/ Honest(captures[u][i])'
           \/ \E j \in 1..Len(captures[u]) : captures'[u][i] = captures[u][j]
    BY <2>1, <2>2, <2>4, <1>c, <1>n
  <2>. QED BY <2>2, <2>6, <1>f, <1>n, <1>o
\* Steps that touch no pin, nor the lock.
<1>4. ASSUME UNCHANGED <<durable, mem, snap, pc, pulled, rev, foreign, Spoiled, overwrote, seen, captures>>,
             net' \subseteq net
      PROVE  Pins'
  BY <1>4, <1>f, <1>n, <1>o
<1>5. ASSUME NEW t \in Tabs, CaptureAlloc(t) \/ Broadcast(t) \/ Heal(t) PROVE Pins'
  BY <1>5, <1>4 DEF CaptureAlloc, Broadcast, Heal
\* Steps that touch no pin, and end the lock work or take it a step on.
<1>6. ASSUME UNCHANGED <<durable, mem, rev, foreign, Spoiled, overwrote, seen, captures>>,
             net' \subseteq net, NEW t \in Tabs,
             \/ Release(t)
             \/ /\ pc[t] \in {"pulling", "pulled"} /\ snap' = snap
                /\ \E stage \in {"pulled", "flushing"} : pc' = [pc EXCEPT ![t] = stage]
                /\ \A u \in Tabs : u # t => pulled'[u] = pulled[u]
      PROVE  Pins'
  <2>1. /\ \A u \in Tabs : Working(u)' => Working(u)
        /\ \A u \in Tabs : pc'[u] = "reloading" => pc[u] = "reloading"
        /\ \A u \in Tabs : pc'[u] = "advancing" => pc[u] = "advancing" /\ pulled'[u] = pulled[u]
        /\ \A u \in Tabs : \A s \in DOMAIN snap'[u] : s \in DOMAIN snap[u] /\ snap'[u] = snap[u]
    <3>1. CASE Release(t)
      BY <3>1, <1>l DEF Working
    <3>2. CASE ~Release(t)
      BY <3>2, <1>6, <1>0 DEF Working
    <3>. QED BY <3>1, <3>2
  <2>2. KeepsSeen(0)
    BY <1>6, <1>n, <1>o DEF KeepsSeen
  <2>3. KeepsDurable(0)
    BY <1>6, <1>v DEF KeepsDurable
  <2>4. KeepsMem(0)
    BY <1>6, <1>v, <2>1 DEF KeepsMem
  <2>5. KeepsSnap(0)
    BY <2>1, <1>v DEF KeepsSnap
  <2>6. KeepsCaptures(0)
    BY <1>6, <1>v DEF KeepsCaptures
  <2>7. KeepsNet(0)
    BY <1>6, <1>v DEF KeepsNet
  <2>8. KeepsPulled
    BY <2>1 DEF KeepsPulled
  <2>. QED BY <2>2, <2>3, <2>4, <2>5, <2>6, <2>7, <2>8, PinsFrame
<1>7. ASSUME NEW t \in Tabs, PullRead(t) \/ PullFails(t) \/ Reconcile(t) PROVE Pins'
  <2>1. pulled \in [Tabs -> Nat]
    BY DEF Types
  <2>2. CASE PullRead(t)
    BY <2>1, <2>2, <1>6 DEF PullRead
  <2>3. CASE PullFails(t)
    BY <2>3, <1>6 DEF PullFails
  <2>4. CASE Reconcile(t)
    BY <2>1, <2>4, <1>6 DEF Reconcile
  <2>. QED BY <1>7, <2>2, <2>3, <2>4
<1>8. ASSUME NEW t \in Tabs, NEW m \in net, FlushConflicted(t, m) \/ FlushLost(t, m) PROVE Pins'
  BY <1>8, <1>6 DEF FlushConflicted, FlushLost, Answered
<1>9. ASSUME NEW t \in Tabs, CaptureEnqueue(t) PROVE Pins'
  <2>. DEFINE c == Head(captures[t])
              x == EntryOf(mem[t], c.field)
              s == IF x # 0 THEN x ELSE alloc[t]
              e == IF x # 0 THEN [mem[t][x] EXCEPT !.val = c.val] ELSE c
              n == Len(captures[t])
  <2>1. /\ captures[t] # <<>> /\ captures' = [captures EXCEPT ![t] = Tail(captures[t])]
        /\ mem' = [mem EXCEPT ![t] = Put(mem[t], s, e)] /\ durable' = Put(durable, s, e)
        /\ skewed' = IF e.base > c.base THEN skewed \cup {c.val} ELSE skewed
        /\ UNCHANGED <<seen, blind, net, snap, pc, pulled, rev, foreign, overwrote>>
    BY <1>9 DEF CaptureEnqueue
  <2>2. /\ n \in Nat \ {0} /\ c = captures[t][1] /\ Len(Tail(captures[t])) = n - 1
        /\ \A i \in 1..(n - 1) : Tail(captures[t])[i] = captures[t][i + 1]
    BY <2>1, <1>0, DropHead
  <2>3. c.val \in 1..edits /\ c.base \in Nat /\ c.base <= rev /\ Sees(c.val, c.base)
    <3>1. 1 \in 1..n
      BY <2>2
    <3>. QED BY <2>2, <3>1, PlaceValues DEF Pins, Honest
  <2>4. e.val = c.val /\ e.base \in Nat /\ e.base <= rev
    <3>1. CASE x = 0
      BY <3>1, <2>3
    <3>2. CASE x # 0
      <4>1. x \in DOMAIN mem[t]
        BY <1>9, <3>2, EnqueueWrites
      <4>2. mem[t][x] \in Entry /\ mem[t][x].base <= rev /\ mem[t][x].base \in Nat
        BY <4>1, PlaceValues DEF Pins, Types, IsQueue
      <4>. QED BY <3>2, <4>2 DEF Entry
    <3>. QED BY <3>1, <3>2
  <2>5. \A v \in 1..edits : v \in Edits
    <3>1. edits \in 0..MaxEdits
      BY DEF Types
    <3>. QED BY <3>1, SyncConstants DEF Edits
  <2>. HIDE DEF c, x, s, e
  <2>6. /\ e.base <= rev'
        /\ e.val \in Spoiled' \/ \A r \in foreign' : r <= seen'[e.val] \/ e.base < r
    <3>1. CASE e.base > c.base
      BY <3>1, <2>1, <2>4
    <3>2. CASE ~(e.base > c.base)
      <4>1. \A r \in Nat : c.base < r => e.base < r
        BY <3>2, <2>3, <2>4
      <4>2. c.val \in Spoiled \/ \A r \in foreign : r <= seen[c.val] \/ c.base < r
        BY <2>3 DEF Sees
      <4>3. Spoiled \subseteq Spoiled'
        BY <2>1
      <4>. HIDE DEF Spoiled
      <4>. QED BY <2>1, <2>4, <4>1, <4>2, <4>3, <1>n
    <3>. QED BY <3>1, <3>2
  <2>7. KeepsSeen(0)
    BY <2>1, <1>n, <1>o DEF KeepsSeen
  <2>8. KeepsDurable(0)
    <3>1. \A r \in DOMAIN durable' : \/ durable'[r] = e
                                     \/ r \in DOMAIN durable /\ durable'[r] = durable[r]
      BY <2>1 DEF Put, Over
    <3>. QED BY <3>1, <2>6, <1>v DEF KeepsDurable, Honest, Sees
  <2>9. KeepsMem(0)
    <3>1. ASSUME NEW u \in Tabs, NEW r \in DOMAIN mem'[u]
          PROVE  mem'[u][r] = e \/ (r \in DOMAIN mem[u] /\ mem'[u][r] = mem[u][r])
      <4>1. mem'[t] = Put(mem[t], s, e) /\ (u # t => mem'[u] = mem[u])
        BY <2>1, <1>0
      <4>2. CASE u = t
        BY <4>1, <4>2 DEF Put, Over
      <4>3. CASE u # t
        BY <4>1, <4>3
      <4>. QED BY <4>2, <4>3
    <3>2. \A u \in Tabs : Working(u)' = Working(u)
      BY <2>1 DEF Working
    <3>3. \A u \in Tabs : \A r \in DOMAIN mem'[u] : mem'[u][r] = e => Honest(mem[u][r])'
      BY <2>6 DEF Honest, Sees
    <3>. QED BY <3>1, <3>2, <3>3, <1>v DEF KeepsMem
  <2>10. KeepsSnap(0)
    BY <2>1, <1>v DEF KeepsSnap
  <2>11. KeepsCaptures(0)
    <3>1. ASSUME NEW u \in Tabs, NEW i \in 1..Len(captures'[u])
          PROVE  \E j \in 1..Len(captures[u]) : captures'[u][i] = captures[u][j]
      <4>1. CASE u # t
        BY <4>1, <2>1, <1>0
      <4>2. CASE u = t
        <5>1. captures'[t] = Tail(captures[t])
          BY <2>1, <1>0
        <5>2. i \in 1..(n - 1) /\ i + 1 \in 1..n
          BY <4>2, <5>1, <2>2
        <5>3. captures'[u][i] = captures[u][i + 1]
          BY <4>2, <5>1, <5>2, <2>2
        <5>. QED BY <4>2, <5>2, <5>3
      <4>. QED BY <4>1, <4>2
    <3>. QED BY <3>1, <1>v DEF KeepsCaptures
  <2>12. KeepsNet(0)
    BY <2>1, <1>v DEF KeepsNet
  <2>13. KeepsPulled
    BY <2>1 DEF KeepsPulled
  <2>. QED BY <2>7, <2>8, <2>9, <2>10, <2>11, <2>12, <2>13, PinsFrame
<1>10. ASSUME NEW t \in Tabs, NEW verb, NEW f, Lock(t, verb, f) PROVE Pins'
  <2>1. /\ snap' = [snap EXCEPT ![t] = durable] /\ pc' = [pc EXCEPT ![t] = "reloading"]
        /\ UNCHANGED <<durable, mem, rev, foreign, Spoiled, overwrote, seen, captures, net, pulled>>
    BY <1>10 DEF Lock
  <2>2. /\ \A u \in Tabs : Working(u)' => Working(u)
        /\ \A u \in Tabs : pc'[u] = "reloading" => u = t \/ pc[u] = "reloading"
        /\ \A u \in Tabs : pc'[u] = "advancing" => pc[u] = "advancing"
    BY <2>1, <1>0 DEF Working
  <2>3. KeepsSeen(0)
    BY <2>1, <1>n, <1>o DEF KeepsSeen
  <2>4. KeepsDurable(0)
    BY <2>1, <1>v DEF KeepsDurable
  <2>5. KeepsMem(0)
    BY <2>1, <2>2, <1>v DEF KeepsMem
  <2>6. KeepsSnap(0)
    <3>1. \A s \in DOMAIN durable : Honest(durable[s])
      BY DEF Pins
    <3>2. ASSUME NEW s \in DOMAIN snap'[t] PROVE Honest(snap[t][s])'
      <4>1. s \in DOMAIN durable /\ snap'[t][s] = durable[s]
        BY <2>1, <1>0
      <4>. QED BY <4>1, <3>1, <2>1 DEF Honest, Sees
    <3>3. \A u \in Tabs : u # t => snap'[u] = snap[u]
      BY <2>1, <1>0
    <3>. QED BY <3>2, <3>3, <2>2, <1>v DEF KeepsSnap
  <2>7. KeepsCaptures(0)
    BY <2>1, <1>v DEF KeepsCaptures
  <2>8. KeepsNet(0)
    BY <2>1, <1>v DEF KeepsNet
  <2>9. KeepsPulled
    BY <2>1, <2>2 DEF KeepsPulled
  <2>. QED BY <2>3, <2>4, <2>5, <2>6, <2>7, <2>8, <2>9, PinsFrame
<1>11. ASSUME NEW t \in Tabs, Reload(t) PROVE Pins'
  <2>1. /\ mem' = [mem EXCEPT ![t] = snap[t]] /\ pc[t] = "reloading"
        /\ UNCHANGED <<durable, rev, foreign, Spoiled, overwrote, seen, captures, net>>
    BY <1>11 DEF Reload
  <2>2. /\ \A u \in Tabs : u # t /\ Working(u)' => Working(u)
        /\ \A u \in Tabs : pc'[u] = "reloading" => pc[u] = "reloading"
        /\ \A u \in Tabs : pc'[u] = "advancing" => pc[u] = "advancing" /\ pulled'[u] = pulled[u]
        /\ \A u \in Tabs : \A s \in DOMAIN snap'[u] : s \in DOMAIN snap[u] /\ snap'[u][s] = snap[u][s]
    <3>1. CASE Release(t)
      BY <3>1, <1>l DEF Working
    <3>2. CASE ~Release(t)
      <4>1. /\ \E stage \in {"pulling", "pulled"} : pc' = [pc EXCEPT ![t] = stage]
            /\ snap' = [snap EXCEPT ![t] = Empty] /\ pulled' = pulled
        BY <3>2, <1>11 DEF Reload
      <4>. QED BY <4>1, <1>0 DEF Working, Empty
    <3>. QED BY <3>1, <3>2
  <2>3. KeepsSeen(0)
    BY <2>1, <1>n, <1>o DEF KeepsSeen
  <2>4. KeepsDurable(0)
    BY <2>1, <1>v DEF KeepsDurable
  <2>5. KeepsMem(0)
    <3>1. \A s \in DOMAIN snap[t] : Honest(snap[t][s])
      BY <2>1 DEF Pins
    <3>2. ASSUME NEW s \in DOMAIN mem'[t] PROVE Honest(mem[t][s])'
      <4>1. s \in DOMAIN snap[t] /\ mem'[t][s] = snap[t][s]
        BY <2>1, <1>0
      <4>. QED BY <4>1, <3>1, <2>1 DEF Honest, Sees
    <3>3. \A u \in Tabs : u # t => mem'[u] = mem[u]
      BY <2>1, <1>0
    <3>. QED BY <3>2, <3>3, <2>2, <1>v DEF KeepsMem
  <2>6. KeepsSnap(0)
    BY <2>2, <1>v DEF KeepsSnap
  <2>7. KeepsCaptures(0)
    BY <2>1, <1>v DEF KeepsCaptures
  <2>8. KeepsNet(0)
    BY <2>1, <1>v DEF KeepsNet
  <2>9. KeepsPulled
    BY <2>2 DEF KeepsPulled
  <2>. QED BY <2>3, <2>4, <2>5, <2>6, <2>7, <2>8, <2>9, PinsFrame
\* The user adopts the revision for the value: the one case where less is seen.
<1>12. ASSUME NEW t \in Tabs, KeepMine(t) PROVE Pins'
  <2>. DEFINE s == EntryOf(snap[t], want[t].field)
              e == [snap[t][s] EXCEPT !.base = known[t]]
              w == snap[t][s].val
  <2>1. /\ pc[t] = "reloading" /\ Release(t)
        /\ UNCHANGED <<rev, foreign, Spoiled, overwrote, captures, net>>
        /\ IF s = 0
           THEN mem' = [mem EXCEPT ![t] = snap[t]] /\ durable' = durable /\ seen' = seen
           ELSE /\ mem' = [mem EXCEPT ![t] = Put(snap[t], s, e)]
                /\ durable' = Put(durable, s, e)
                /\ seen' = [seen EXCEPT ![e.val] = known[t]]
    BY <1>12 DEF KeepMine
  <2>2. /\ \A u \in Tabs : ~Working(u)' \/ (Working(u) /\ u # t)
        /\ \A u \in Tabs : pc'[u] # "reloading" \/ (pc[u] = "reloading" /\ u # t)
        /\ \A u \in Tabs : pc'[u] # "advancing" \/ (pc[u] = "advancing" /\ pulled'[u] = pulled[u])
        /\ \A u \in Tabs : \A r \in DOMAIN snap'[u] : r \in DOMAIN snap[u] /\ snap'[u] = snap[u]
    BY <2>1, <1>l DEF Working
  <2>3. \A u \in Tabs : ~Working(u)' /\ pc'[u] # "reloading"
    <3>1. \A u \in Tabs : u # t => pc[u] = "idle"
      BY <2>1 DEF LockHeld
    <3>. QED BY <2>2, <3>1 DEF Working
  <2>4. s # 0 => s \in DOMAIN snap[t] /\ s \in Nat
    BY EntryFound DEF Types
  <2>5. s # 0 => e.val = w /\ e.base = known[t] /\ w \in Edits
    <3>1. s # 0 => snap[t][s] \in Entry
      BY <2>4 DEF Types, IsQueue
    <3>. QED BY <3>1 DEF Entry
  <2>6. KeepsPulled
    BY <2>2 DEF KeepsPulled
  <2>. HIDE DEF s, e, w
  <2>7. CASE s = 0
    <3>1. KeepsSeen(0)
      BY <2>1, <2>7, <1>n, <1>o DEF KeepsSeen
    <3>2. KeepsDurable(0)
      BY <2>1, <2>7, <1>v DEF KeepsDurable
    <3>3. KeepsMem(0)
      <4>1. mem'[t] = snap[t] /\ \A u \in Tabs : u # t => mem'[u] = mem[u]
        BY <2>1, <2>7, <1>0
      <4>2. \A r \in DOMAIN snap[t] : snap[t][r].base <= rev
        BY DEF Pins
      <4>. QED BY <4>1, <4>2, <2>1, <2>3, <1>v DEF KeepsMem
    <3>4. KeepsSnap(0)
      BY <2>2, <1>v DEF KeepsSnap
    <3>5. KeepsCaptures(0)
      BY <2>1, <1>v DEF KeepsCaptures
    <3>6. KeepsNet(0)
      BY <2>1, <1>v DEF KeepsNet
    <3>. QED BY <2>6, <3>1, <3>2, <3>3, <3>4, <3>5, <3>6, PinsFrame
  <2>8. CASE s # 0
    <3>a. Ref(s, snap[t][s]) \in Written
      BY <2>4, <2>8, WrittenIn
    <3>b. PICK a \in Written : a.seq = s /\ a.val = w
      BY <3>a DEF Ref, w
    <3>c. s # 0 /\ s \in Nat /\ e.val = w /\ e.base = known[t] /\ w \in Edits
          /\ mem' = [mem EXCEPT ![t] = Put(snap[t], s, e)]
          /\ durable' = Put(durable, s, e) /\ seen' = [seen EXCEPT ![e.val] = known[t]]
      BY <2>1, <2>4, <2>5, <2>8
    <3>1. KeepsSeen(w)
      <4>1. \A v \in 1..edits : v # w => seen'[v] = seen[v]
        BY <3>c, <1>n
      <4>. QED BY <2>1, <4>1, <1>n, <1>o DEF KeepsSeen
    <3>2. KeepsDurable(w)
      <4>1. \A r \in DOMAIN durable' : \/ r = s /\ durable'[r] = e
                                       \/ r # s /\ r \in DOMAIN durable /\ durable'[r] = durable[r]
        BY <3>c DEF Put, Over
      <4>2. ASSUME NEW r \in DOMAIN durable', durable'[r] = e PROVE Honest(durable[r])'
        <5>1. seen'[e.val] = known[t]
          BY <3>c, <1>n
        <5>2. known[t] <= rev' /\ \A x \in foreign' : x <= known[t] \/ known[t] < x
          BY <2>1, <1>k, <1>n
        <5>. QED BY <4>2, <5>1, <5>2, <3>c DEF Honest, Sees
      <4>3. ASSUME NEW r \in DOMAIN durable, r # s PROVE durable[r].val # w
        <5>1. Ref(r, durable[r]) \in Written /\ Ref(r, durable[r]).seq = r
              /\ Ref(r, durable[r]).val = durable[r].val
          BY WrittenIn DEF Ref
        <5>. QED BY <4>3, <5>1, <3>b DEF OnePlace
      <4>. QED BY <4>1, <4>2, <4>3 DEF KeepsDurable
    <3>3. KeepsMem(w)
      <4>1. mem'[t] = Put(snap[t], s, e) /\ \A u \in Tabs : u # t => mem'[u] = mem[u]
        BY <3>c, <1>0
      <4>2. \A r \in DOMAIN snap[t] : snap[t][r].base <= rev
        BY DEF Pins
      <4>3. \A r \in DOMAIN mem'[t] : mem'[t][r].base <= rev'
        BY <4>1, <4>2, <2>1, <3>c, <1>k DEF Put, Over
      <4>. QED BY <4>1, <4>3, <2>3 DEF KeepsMem
    <3>4. KeepsSnap(w)
      BY <2>2, <2>3 DEF KeepsSnap
    <3>5. KeepsCaptures(w)
      <4>1. \A u \in Tabs : w \notin Waiting(u)
        BY <3>b DEF OnePlace
      <4>. QED BY <2>1, <4>1 DEF KeepsCaptures, Waiting
    <3>6. KeepsNet(w)
      <4>1. \A m \in net : m.seq = 0
        <5>1. holder = t
          BY <2>1 DEF LockHeld
        <5>. QED BY <2>1, <5>1, QueuePosts
      <4>2. \A m \in net : m.val # w
        BY <4>1, <3>b, <3>c DEF OnePlace
      <4>. QED BY <2>1, <4>2 DEF KeepsNet
    <3>. QED BY <2>6, <3>1, <3>2, <3>3, <3>4, <3>5, <3>6, PinsFrame
  <2>. QED BY <2>7, <2>8
<1>13. ASSUME NEW t \in Tabs, TakeTheirs(t) PROVE Pins'
  <2>. DEFINE s == EntryOf(snap[t], want[t].field)
  <2>1. /\ pc[t] = "reloading" /\ Release(t)
        /\ UNCHANGED <<rev, foreign, Spoiled, overwrote, captures, net, seen>>
        /\ IF s = 0
           THEN mem' = [mem EXCEPT ![t] = snap[t]] /\ durable' = durable
           ELSE mem' = [mem EXCEPT ![t] = Without(snap[t], s)] /\ durable' = Without(durable, s)
    BY <1>13 DEF TakeTheirs
  <2>. HIDE DEF s
  <2>2. /\ \A u \in Tabs : ~Working(u)' \/ (Working(u) /\ u # t)
        /\ \A u \in Tabs : pc'[u] # "reloading" \/ (pc[u] = "reloading" /\ u # t)
        /\ \A u \in Tabs : pc'[u] # "advancing" \/ (pc[u] = "advancing" /\ pulled'[u] = pulled[u])
        /\ \A u \in Tabs : \A r \in DOMAIN snap'[u] : r \in DOMAIN snap[u] /\ snap'[u] = snap[u]
    BY <2>1, <1>l DEF Working
  <2>3. \A r \in DOMAIN durable' : r \in DOMAIN durable /\ durable'[r] = durable[r]
    BY <2>1 DEF Without, Restrict
  <2>4. /\ \A u \in Tabs : u # t => mem'[u] = mem[u]
        /\ \A r \in DOMAIN mem'[t] : r \in DOMAIN snap[t] /\ mem'[t][r] = snap[t][r]
    <3>1. CASE s = 0
      BY <2>1, <3>1, <1>0
    <3>2. CASE s # 0
      BY <2>1, <3>2, <1>0 DEF Without, Restrict
    <3>. QED BY <3>1, <3>2
  <2>5. KeepsSeen(0)
    BY <2>1, <1>n, <1>o DEF KeepsSeen
  <2>6. KeepsDurable(0)
    BY <2>3, <1>v DEF KeepsDurable
  <2>7. KeepsMem(0)
    <3>1. \A r \in DOMAIN snap[t] : snap[t][r].base <= rev
      BY DEF Pins
    <3>. QED BY <3>1, <2>1, <2>2, <2>4, <1>v DEF KeepsMem
  <2>8. KeepsSnap(0)
    BY <2>2, <1>v DEF KeepsSnap
  <2>9. KeepsCaptures(0)
    BY <2>1, <1>v DEF KeepsCaptures
  <2>10. KeepsNet(0)
    BY <2>1, <1>v DEF KeepsNet
  <2>11. KeepsPulled
    BY <2>2 DEF KeepsPulled
  <2>. QED BY <2>5, <2>6, <2>7, <2>8, <2>9, <2>10, <2>11, PinsFrame
<1>14. ASSUME NEW t \in Tabs, FlushSend(t) PROVE Pins'
  <2>1. InHand(t) \in DOMAIN mem[t] /\ pc[t] = "flushing"
    BY <1>14, InHandIs DEF FlushSend
  <2>2. Honest(mem[t][InHand(t)])
    BY <2>1 DEF Pins, Working
  <2>3. /\ pc' = [pc EXCEPT ![t] = "waiting"]
        /\ UNCHANGED <<durable, mem, snap, pulled, rev, foreign, Spoiled, overwrote, captures, seen>>
    BY <1>14 DEF FlushSend
  <2>4. \A m \in net' : \/ m \in net
                        \/ /\ m.val = mem[t][InHand(t)].val /\ m.base = mem[t][InHand(t)].base
                           /\ m.status = "sent"
    BY <1>14 DEF FlushSend
  <2>5. /\ \A u \in Tabs : Working(u)' => Working(u)
        /\ \A u \in Tabs : pc'[u] = "reloading" => pc[u] = "reloading"
        /\ \A u \in Tabs : pc'[u] = "advancing" => pc[u] = "advancing"
    BY <2>1, <2>3, <1>0 DEF Working
  <2>6. KeepsSeen(0)
    BY <2>3, <1>n, <1>o DEF KeepsSeen
  <2>7. KeepsDurable(0)
    BY <2>3, <1>v DEF KeepsDurable
  <2>8. KeepsMem(0)
    BY <2>3, <2>5, <1>v DEF KeepsMem
  <2>9. KeepsSnap(0)
    BY <2>3, <2>5, <1>v DEF KeepsSnap
  <2>10. KeepsCaptures(0)
    BY <2>3, <1>v DEF KeepsCaptures
  <2>11. KeepsNet(0)
    <3>1. ASSUME NEW m \in net', m.val = mem[t][InHand(t)].val, m.base = mem[t][InHand(t)].base
          PROVE  Honest(m)'
      BY <3>1, <2>2, <2>3 DEF Honest, Sees
    <3>. QED BY <2>4, <3>1, <1>v DEF KeepsNet
  <2>12. KeepsPulled
    BY <2>3, <2>5 DEF KeepsPulled
  <2>. QED BY <2>6, <2>7, <2>8, <2>9, <2>10, <2>11, <2>12, PinsFrame
\* The pins moved past an accepted one are honest if nothing came between.
<1>15. ASSUME NEW t \in Tabs, Advance(t) PROVE Pins'
  <2>. DEFINE moved == {s \in DOMAIN mem[t] : Detect /\ s > InHand(t)}
              fresh == [s \in moved |-> [mem[t][s] EXCEPT !.base = known[t]]]
              honest == {s \in moved : known[t] = pulled[t] /\ mem[t][s].base + 1 = pulled[t]}
  <2>1. /\ pc[t] = "advancing" /\ FlushNext(t)
        /\ mem' = [mem EXCEPT ![t] = Over(fresh, mem[t])] /\ durable' = Over(fresh, durable)
        /\ skewed' = skewed \cup {fresh[s].val : s \in moved \ honest}
        /\ UNCHANGED <<rev, foreign, overwrote, captures, net, seen, blind>>
    BY <1>15 DEF Advance
  <2>2. /\ DOMAIN fresh = moved /\ moved \subseteq DOMAIN mem[t]
        /\ \A s \in moved : fresh[s].val = mem[t][s].val /\ fresh[s].base = known[t]
        /\ \A s \in honest : known[t] = pulled[t] /\ mem[t][s].base + 1 = pulled[t] /\ s \in moved
    BY DEF Types, IsQueue, Entry
  <2>3. pulled[t] \notin foreign /\ Working(t)
    BY <2>1 DEF Pins, Working
  <2>. HIDE DEF moved, fresh, honest
  <2>4. \A s \in moved : /\ fresh[s].base <= rev'
                         /\ \/ fresh[s].val \in Spoiled'
                            \/ \A r \in foreign' : r <= seen'[fresh[s].val] \/ fresh[s].base < r
    <3>1. ASSUME NEW s \in honest
          PROVE  \/ fresh[s].val \in Spoiled'
                 \/ \A r \in foreign' : r <= seen'[fresh[s].val] \/ fresh[s].base < r
      <4>1. /\ s \in DOMAIN mem[t] /\ mem[t][s].base + 1 = known[t] /\ known[t] \notin foreign
            /\ fresh[s].val = mem[t][s].val /\ fresh[s].base = known[t]
        BY <2>2, <2>3
      <4>2. Honest(mem[t][s]) /\ mem[t][s].base \in Nat
        BY <4>1, <2>3, PlaceValues DEF Pins
      <4>3. \A r \in Nat : mem[t][s].base < r /\ r # known[t] => known[t] < r
        BY <4>1, <4>2, <1>k
      <4>. QED BY <4>1, <4>2, <4>3, <2>1, <1>n DEF Honest, Sees
    <3>2. \A s \in moved \ honest : fresh[s].val \in Spoiled'
      BY <2>1
    <3>3. \A s \in moved : fresh[s].base <= rev'
      BY <2>1, <2>2, <1>k
    <3>. QED BY <3>1, <3>2, <3>3
  <2>5. /\ \A u \in Tabs : Working(u)' => Working(u)
        /\ \A u \in Tabs : pc'[u] = "reloading" => pc[u] = "reloading"
        /\ \A u \in Tabs : pc'[u] = "advancing" => pc[u] = "advancing" /\ pulled'[u] = pulled[u]
        /\ \A u \in Tabs : \A s \in DOMAIN snap'[u] : s \in DOMAIN snap[u] /\ snap'[u] = snap[u]
    BY <2>1, <2>3, <1>l DEF Working
  <2>6. /\ \A u \in Tabs : u # t => mem'[u] = mem[u]
        /\ \A s \in DOMAIN mem'[t] : \/ s \in moved /\ mem'[t][s] = fresh[s]
                                     \/ s \in DOMAIN mem[t] /\ mem'[t][s] = mem[t][s]
    <3>1. mem'[t] = Over(fresh, mem[t]) /\ \A u \in Tabs : u # t => mem'[u] = mem[u]
      BY <2>1, <1>0
    <3>. QED BY <3>1, <2>2 DEF Over
  <2>7. \A s \in DOMAIN durable' : \/ s \in moved /\ durable'[s] = fresh[s]
                                   \/ s \in DOMAIN durable /\ durable'[s] = durable[s]
    BY <2>1, <2>2 DEF Over
  <2>8. KeepsSeen(0)
    BY <2>1, <1>n, <1>o DEF KeepsSeen
  <2>9. KeepsDurable(0)
    <3>1. ASSUME NEW s \in moved, durable'[s] = fresh[s] PROVE Honest(durable[s])'
      BY <3>1, <2>4 DEF Honest, Sees
    <3>. QED BY <3>1, <2>7, <1>v DEF KeepsDurable
  <2>10. KeepsMem(0)
    <3>1. ASSUME NEW s \in moved, mem'[t][s] = fresh[s] PROVE Honest(mem[t][s])'
      BY <3>1, <2>4 DEF Honest, Sees
    <3>2. ASSUME NEW s \in DOMAIN mem'[t]
          PROVE  \/ Honest(mem[t][s])'
                 \/ /\ s \in DOMAIN mem[t] /\ mem'[t][s] = mem[t][s]
                    /\ Working(t)' => Working(t) /\ mem[t][s].val # 0
      BY <3>1, <2>5, <2>6, <1>v
    <3>. QED BY <3>2, <2>5, <2>6, <1>v DEF KeepsMem
  <2>11. KeepsSnap(0)
    BY <2>5, <1>v DEF KeepsSnap
  <2>12. KeepsCaptures(0)
    BY <2>1, <1>v DEF KeepsCaptures
  <2>13. KeepsNet(0)
    BY <2>1, <1>v DEF KeepsNet
  <2>14. KeepsPulled
    BY <2>5 DEF KeepsPulled
  <2>. QED BY <2>8, <2>9, <2>10, <2>11, <2>12, <2>13, <2>14, PinsFrame
<1>16. ASSUME NEW t \in Tabs, NEW m \in net, FlushAcked(t, m) \/ FlushRefused(t, m) PROVE Pins'
  <2>1. /\ mem' = [mem EXCEPT ![t] = Without(mem[t], m.seq)] /\ durable' = Without(durable, m.seq)
        /\ net' = net \ {m} /\ pc[t] = "waiting"
        /\ UNCHANGED <<rev, foreign, Spoiled, overwrote, captures, seen>>
    BY <1>16 DEF FlushAcked, FlushRefused, Answered
  <2>2. /\ \A u \in Tabs : Working(u)' => Working(u)
        /\ \A u \in Tabs : pc'[u] = "reloading" => pc[u] = "reloading"
        /\ \A u \in Tabs : \A s \in DOMAIN snap'[u] : s \in DOMAIN snap[u] /\ snap'[u] = snap[u]
        /\ KeepsPulled
    <3>1. CASE FlushAcked(t, m)
      <4>1. /\ pc' = [pc EXCEPT ![t] = "advancing"] /\ snap' = snap /\ m.status = "ok"
            /\ pulled' = [pulled EXCEPT ![t] = m.at] /\ pulled \in [Tabs -> Nat]
        BY <3>1 DEF FlushAcked, Answered, Types
      <4>2. m.at \notin foreign
        BY <4>1 DEF Pins
      <4>3. \A u \in Tabs : pc'[u] = "advancing" =>
               pulled'[u] \notin foreign' \/ (pc[u] = "advancing" /\ pulled'[u] = pulled[u])
        BY <4>1, <4>2, <2>1, <1>0
      <4>. QED BY <4>1, <4>3, <2>1, <1>0 DEF Working, KeepsPulled
    <3>2. CASE FlushRefused(t, m)
      <4>1. FlushNext(t)
        BY <3>2 DEF FlushRefused
      <4>. QED BY <4>1, <2>1, <1>l DEF Working, KeepsPulled
    <3>. QED BY <1>16, <3>1, <3>2
  <2>3. /\ \A u \in Tabs : u # t => mem'[u] = mem[u]
        /\ \A s \in DOMAIN mem'[t] : s \in DOMAIN mem[t] /\ mem'[t][s] = mem[t][s]
        /\ \A s \in DOMAIN durable' : s \in DOMAIN durable /\ durable'[s] = durable[s]
    BY <2>1, <1>0 DEF Without, Restrict
  <2>4. KeepsSeen(0)
    BY <2>1, <1>n, <1>o DEF KeepsSeen
  <2>5. KeepsDurable(0)
    BY <2>3, <1>v DEF KeepsDurable
  <2>6. KeepsMem(0)
    BY <2>2, <2>3, <1>v DEF KeepsMem
  <2>7. KeepsSnap(0)
    BY <2>2, <1>v DEF KeepsSnap
  <2>8. KeepsCaptures(0)
    BY <2>1, <1>v DEF KeepsCaptures
  <2>9. KeepsNet(0)
    BY <2>1, <1>v DEF KeepsNet
  <2>. QED BY <2>2, <2>4, <2>5, <2>6, <2>7, <2>8, <2>9, PinsFrame
<1>17. ASSUME NEW t \in Tabs, Crash(t) PROVE Pins'
  <2>1. /\ mem' = [mem EXCEPT ![t] = durable] /\ captures' = [captures EXCEPT ![t] = <<>>]
        /\ net' \subseteq net /\ UNCHANGED <<durable, rev, foreign, Spoiled, overwrote, seen>>
    BY <1>17 DEF Crash
  <2>2. /\ \A u \in Tabs : Working(u)' => Working(u)
        /\ \A u \in Tabs : pc'[u] = "reloading" => pc[u] = "reloading"
        /\ \A u \in Tabs : pc'[u] = "advancing" => pc[u] = "advancing" /\ pulled'[u] = pulled[u]
        /\ \A u \in Tabs : \A s \in DOMAIN snap'[u] : s \in DOMAIN snap[u] /\ snap'[u] = snap[u]
    <3>1. CASE holder = t
      <4>1. Release(t)
        BY <1>17, <3>1 DEF Crash
      <4>. QED BY <4>1, <1>l DEF Working
    <3>2. CASE holder # t
      <4>1. UNCHANGED <<pc, pulled, snap>>
        BY <1>17, <3>2 DEF Crash
      <4>. QED BY <4>1 DEF Working
    <3>. QED BY <3>1, <3>2
  <2>3. KeepsSeen(0)
    BY <2>1, <1>n, <1>o DEF KeepsSeen
  <2>4. KeepsDurable(0)
    BY <2>1, <1>v DEF KeepsDurable
  <2>5. KeepsMem(0)
    <3>1. \A s \in DOMAIN durable : Honest(durable[s])
      BY DEF Pins
    <3>2. ASSUME NEW s \in DOMAIN mem'[t] PROVE Honest(mem[t][s])'
      <4>1. s \in DOMAIN durable /\ mem'[t][s] = durable[s]
        BY <2>1, <1>0
      <4>. QED BY <4>1, <3>1, <2>1 DEF Honest, Sees
    <3>3. \A u \in Tabs : u # t => mem'[u] = mem[u]
      BY <2>1, <1>0
    <3>. QED BY <3>2, <3>3, <2>2, <1>v DEF KeepsMem
  <2>6. KeepsSnap(0)
    BY <2>2, <1>v DEF KeepsSnap
  <2>7. KeepsCaptures(0)
    <3>1. \A u \in Tabs : \A i \in 1..Len(captures'[u]) : captures'[u] = captures[u]
      BY <2>1, <1>0
    <3>. QED BY <3>1, <1>v DEF KeepsCaptures
  <2>8. KeepsNet(0)
    BY <2>1, <1>v DEF KeepsNet
  <2>9. KeepsPulled
    BY <2>2 DEF KeepsPulled
  <2>. QED BY <2>3, <2>4, <2>5, <2>6, <2>7, <2>8, <2>9, PinsFrame
\* The server answers: its guard is what makes a pin count.
<1>18. ASSUME NEW m \in net, NEW status, NEW r, Answer(m, status, r),
              UNCHANGED <<durable, mem, snap, pc, pulled, captures, seen, Spoiled, foreign>>,
              rev' \in Nat, rev <= rev', overwrote' \subseteq Spoiled,
              status = "ok" => r \notin foreign
       PROVE  Pins'
  <2>1. PICK n : /\ net' = (net \ {m}) \cup {n} /\ n.val = m.val /\ n.base = m.base
                 /\ n.status = status /\ n.at = r
    BY <1>18, AnswerKeeps
  <2>2. \A o \in net : Honest(o)
    BY DEF Pins
  <2>3. Honest(n)'
    <3>1. Honest(m) /\ m.base \in Nat
      BY <2>2, PlaceValues
    <3>. QED BY <3>1, <2>1, <1>18, <1>n DEF Honest, Sees
  <2>4. \A o \in net' : o \in net \/ (Honest(o)' /\ (o.status = "ok" => o.at \notin foreign'))
    BY <2>1, <2>3, <1>18
  <2>. QED BY <2>4, <1>18, <1>f
<1>19. ASSUME NEW m \in net, Accept(m) PROVE Pins'
  <2>1. /\ Answer(m, "ok", rev') /\ (Detect => m.base = rev)
        /\ rev' = IF Detect THEN rev + 1 ELSE rev
        /\ overwrote' = IF \E r \in foreign : seen[m.val] < r THEN overwrote \cup {m.val} ELSE overwrote
        /\ UNCHANGED <<durable, mem, snap, pc, pulled, captures, seen, Spoiled, foreign>>
    BY <1>19 DEF Accept
  <2>2. m.val \in Edits /\ seen[m.val] \in Nat
    <3>1. m.val \in Edits
      BY <1>0 DEF Posts
    <3>. QED BY <3>1, <1>n
  <2>3. overwrote' \subseteq Spoiled
    <3>1. ASSUME NEW r \in foreign, seen[m.val] < r PROVE m.val \in Spoiled
      <4>1. m.base = rev /\ Honest(m)
        BY <3>1, <2>1, <1>n DEF Pins
      <4>2. r \in Nat /\ r <= rev
        BY <1>n
      <4>3. ~(r <= seen[m.val]) /\ ~(m.base < r)
        BY <4>1, <4>2, <2>2, <3>1, <1>n
      <4>. QED BY <4>1, <4>3 DEF Honest, Sees
    <3>. QED BY <3>1, <2>1, <1>o
  <2>4. rev' \in Nat /\ rev <= rev' /\ rev' \notin foreign
    BY <2>1, <1>n
  <2>. QED BY <2>1, <2>3, <2>4, <1>18
<1>20. ASSUME NEW m \in net, Conflict(m) \/ Refuse(m) PROVE Pins'
  <2>1. /\ \E status \in {"conflict", "refused"} : Answer(m, status, rev)
        /\ UNCHANGED <<durable, mem, snap, pc, pulled, captures, seen, Spoiled, foreign, rev, overwrote>>
    BY <1>20 DEF Conflict, Refuse
  <2>. QED BY <2>1, <1>n, <1>o, <1>18
<1>21. ASSUME NEW m \in net, EditAnswered(m) PROVE Pins'
  BY <1>21, <1>4 DEF EditAnswered
<1>22. ASSUME NEW f \in Fields, ForeignWrite(f) PROVE Pins'
  <2>1. /\ rev' = rev + 1 /\ foreign' = foreign \cup {rev'}
        /\ UNCHANGED <<durable, mem, snap, pc, pulled, captures, seen, Spoiled, net, overwrote>>
    BY <1>22 DEF ForeignWrite
  <2>. QED BY <2>1, <1>n, <1>o, <1>f
<1>23. CASE UNCHANGED vars
  BY <1>23, <1>4 DEF vars
<1>. QED
  BY <1>1, <1>2, <1>3, <1>5, <1>7, <1>8, <1>9, <1>10, <1>11, <1>12, <1>13, <1>14, <1>15, <1>16,
     <1>17, <1>19, <1>20, <1>21, <1>22, <1>23, StepKinds DEF TabStep, PostStep

-----------------------------------------------------------------------------
(* The theorems.                                                           *)

LEMMA InvInit == Init => IInv
<1>. SUFFICES ASSUME Init PROVE IInv
  OBVIOUS
<1>1. Types
  BY TypesInit
<1>2. DOMAIN Empty = {} /\ Mentions(Empty) = {}
  BY DEF Empty, Mentions
<1>. USE DEF Init, Fresh
<1>3. Revisions
  BY DEF Revisions
<1>4. LockHeld
  BY SyncConstants DEF LockHeld
<1>5. Written = {}
  BY <1>2, WrittenIs
<1>6. Names
  BY <1>5 DEF Names
<1>7. \A t \in Tabs : Len(captures[t]) = 0
  BY EmptySeq
<1>8. OnePlace
  BY <1>5, <1>7 DEF OnePlace, Waiting
<1>9. Current
  BY DEF Current, Working
<1>10. AllKept
  BY <1>2 DEF AllKept
<1>11. Pins
  BY <1>2, <1>7 DEF Pins
<1>. QED BY <1>1, <1>3, <1>4, <1>6, <1>8, <1>9, <1>10, <1>11 DEF IInv

LEMMA InvStep == IInv /\ [Next]_vars => IInv'
<1>. SUFFICES ASSUME IInv, [Next]_vars PROVE IInv'
  OBVIOUS
<1>1. Types'
  BY TypesStep DEF IInv
<1>2. LockHeld'
  BY LockStep
<1>. QED BY <1>1, <1>2, RevisionsStep, NamesStep, OnePlaceStep, CurrentStep, AllKeptStep, PinsStep
     DEF IInv

LEMMA Invariant == Spec => []IInv
BY InvInit, InvStep, PTL DEF Spec

\* A seq names one entry wherever it turns up, for any number of tabs, edits,
\* crashes and lost answers: allocSeq's transaction on the meta store
\* (runtime/syncClient.js:94-102) is the only place a seq comes from.
THEOREM SeqNames == Spec => []SeqNamesOneEntry
<1>1. IInv => SeqNamesOneEntry
  <2>. SUFFICES ASSUME Types, Revisions, LockHeld, Names PROVE SeqNamesOneEntry
    BY DEF IInv
  <2>. DEFINE queues == {durable, dead} \cup {mem[t] : t \in Tabs} \cup {snap[t] : t \in Tabs}
  <2>1. TypeOK
    <3>1. rev \in Nat /\ nextSeq \in Nat
      BY DEF Types, Seqs
    <3>2. \A t \in Tabs : \A s \in todo[t] : s \in DOMAIN mem[t] \/ pc[t] = "advancing"
      BY DEF LockHeld
    <3>3. \A t \in Tabs : (holder = t) = (pc[t] # "idle")
      BY DEF LockHeld
    <3>. QED BY <3>1, <3>2, <3>3 DEF TypeOK, Types, Revisions, Names
  <2>2. \A q \in queues : \A s \in DOMAIN q : Ref(s, q[s]) \in Written
    BY WrittenIn
  <2>. HIDE DEF queues
  <2>3. \A s, e : Ref(s, e).seq = s /\ Ref(s, e).field = e.field
    BY DEF Ref
  <2>4. \A p, q \in queues : \A s \in DOMAIN p \cap DOMAIN q : p[s].field = q[s].field
    BY <2>2, <2>3 DEF Names
  <2>5. \A m \in net, q \in queues : m.seq \in DOMAIN q => q[m.seq].field = m.field
    BY <2>2, <2>3 DEF Names
  <2>6. \A t \in Tabs : \A q \in queues : alloc[t] \notin DOMAIN q
    BY <2>2, <2>3 DEF Names
  <2>7. \A t, u \in Tabs : alloc[t] = alloc[u] => t = u \/ alloc[t] = 0
    BY DEF Names
  <2>. QED BY <2>1, <2>4, <2>5, <2>6, <2>7 DEF SeqNamesOneEntry, queues
<1>. QED BY <1>1, Invariant, PTL

\* A keystroke's value is under way, queued, a dead letter, accepted, replaced by
\* a later keystroke or given up by its user; or it is lost in one of four ways:
\* it went with its page before the durable queue had it, an online refusal was
\* only logged (runtime/boot.js:213-239), it was coalesced into an entry that the
\* lock's work had in hand, or it was a dead letter whose seq a stale tab put back
\* (runtime/syncClient.js:109-119, 168-190).  There is no fifth way, whatever the
\* tabs, the crashes, the lost answers and the refusals.
THEOREM NothingElseLost == Spec => []LostOnlyAsListed
<1>1. IInv => LostOnlyAsListed
  <2>. SUFFICES ASSUME Types, AllKept, NEW e \in 1..edits
                PROVE  Safe(e) \/ e \in unsaved \cup logged \cup exposed
    BY DEF IInv, LostOnlyAsListed
  <2>1. Kept(e)
    BY DEF AllKept
  <2>2. \A t \in Tabs : e \in Waiting(t) => \E i \in DOMAIN captures[t] : captures[t][i].val = e
    <3>1. \A t \in Tabs : DOMAIN captures[t] = 1..Len(captures[t])
      BY DEF Types
    <3>. QED BY <3>1 DEF Waiting
  <2>. QED BY <2>1, <2>2 DEF Kept, Safe, Told
<1>. QED BY <1>1, Invariant, PTL

\* An accepted edit overwrites another user's write that its own user had neither
\* on screen nor adopted in two cases only: it was typed while the page's
\* revision bookkeeping was past the screen (runtime/boot.js:227-229,
\* runtime/syncClient.js:261-263, 328), or its pin was moved later by a coalesce
\* onto a later pin or by an advance over another user's write (runtime/queue.js).
\* Otherwise the guarded UPDATE of server/wireServer.js refuses it, for any
\* interleaving of tabs, flushes, echoes and foreign writes.
THEOREM PinsProtect == Spec => []OverwritesOnlyAsListed
<1>1. IInv => OverwritesOnlyAsListed
  BY DEF IInv, Pins, Spoiled, OverwritesOnlyAsListed
<1>. QED BY <1>1, Invariant, PTL

=============================================================================
