------------------------------ MODULE SyncTabs ------------------------------
(***************************************************************************)
(* One row edited in several tabs of one identity: the tabs' keystrokes and *)
(* their POSTs, the durable queue (IndexedDB) the tabs share, each tab's     *)
(* in-memory copy of it, the flush under the Web Lock, and the server's      *)
(* guarded UPDATE.  Every step ends where the code awaits.                   *)
(*                                                                         *)
(* The durable effect of an IndexedDB transaction takes place when it is     *)
(* created: transactions on the same stores run in creation order, and a     *)
(* page that dies before one commits has done nothing.                       *)
(***************************************************************************)
EXTENDS Naturals, Sequences, FiniteSets, FiniteSetsExt, Functions

CONSTANTS Tabs, Fields,
          Detect,      \* conflict="detect" on the row, else "lww"
          Online,      \* do keystrokes reach the server, or reject at once?
          MaxEdits,    \* bound: keystrokes
          MaxForeign,  \* bound: writes by other users
          MaxFaults    \* bound: lost flush answers, failed pulls, refusals, crashes

None == "none"

ASSUME SyncConstants ==
  /\ None \notin Tabs \cup Fields /\ Detect \in BOOLEAN /\ Online \in BOOLEAN
  /\ MaxEdits \in Nat /\ MaxForeign \in Nat /\ MaxFaults \in Nat

Edits == 1..MaxEdits
Seqs  == Nat \ {0}
Empty == [s \in {} |-> 0]

VARIABLES
  edits,     \* keystrokes so far; the value typed is its number
  faults,    \* faults so far
  rev,       \* server: the row's revision
  value,     \* server: [Fields -> the edit that wrote it, 0 for anybody else's]
  durable,   \* the shared queue: seq -> [field, val, base]
  nextSeq,   \* the shared meta counter
  dead,      \* the dead letters: seq -> entry
  holder,    \* the tab that holds the flush lock, or None
  net,       \* POSTs in flight: [tab, seq, field, val, base, status, at]
  mem,       \* [Tabs -> the tab's queue: seq -> entry]
  known,     \* [Tabs -> the tab's revision bookkeeping for the row]
  fed,       \* [Tabs -> the revision on its screen: what its feed delivered]
  captures,  \* [Tabs -> envelopes on the capture chain]
  alloc,     \* [Tabs -> the seq the head of the chain has allocated, 0 if none]
  pc,        \* [Tabs -> where its lock work is]
  want,      \* [Tabs -> [verb, field] the lock was asked for]
  snap,      \* [Tabs -> the durable queue as its reload read it]
  pulled,    \* [Tabs -> the revision its pull read]
  todo,      \* [Tabs -> the seqs of the clean lineage still to flush]
  \* History, read by properties only:
  foreign,   \* revisions another user's write produced
  seen,      \* [Edits -> the revision on its user's screen, or adopted since]
  accepted,  \* edits the server accepted
  overwrote, \* those that overwrote another user's unseen revision
  excused,   \* edits a later keystroke replaced, or their user gave up
  exposed,   \* edits coalesced into an entry that the lock's work had in hand, and
             \* dead letters whose seq a stale tab has put back into the queue
  unsaved,   \* edits that went with a page before the durable queue had them
  logged,    \* online edits refused, which only the console was told
  blind,     \* edits typed on a screen that lacked a foreign write the page's
             \* revision bookkeeping was already past
  skewed     \* edits on a pin that was moved on after they were typed

row     == <<rev, value, foreign, accepted, overwrote>>
store   == <<durable, nextSeq, dead>>
lockage == <<holder, pc, want, snap, pulled, todo>>
chain   == <<captures, alloc>>
fates   == <<excused, exposed, unsaved, logged>>
history == <<seen, fates, blind, skewed>>
vars    == <<edits, faults, row, store, lockage, net, mem, known, fed, chain, history>>

Fresh ==
  /\ edits = 0 /\ rev = 1 /\ value = [f \in Fields |-> 0]
  /\ durable = Empty /\ nextSeq = 1 /\ dead = Empty
  /\ holder = None /\ net = {}
  /\ mem = [t \in Tabs |-> Empty] /\ known = [t \in Tabs |-> 1] /\ fed = [t \in Tabs |-> 1]
  /\ captures = [t \in Tabs |-> <<>>] /\ alloc = [t \in Tabs |-> 0]
  /\ pc = [t \in Tabs |-> "idle"]
  /\ want = [t \in Tabs |-> [verb |-> "resync", field |-> None]]
  /\ snap = [t \in Tabs |-> Empty] /\ pulled = [t \in Tabs |-> 1]
  /\ todo = [t \in Tabs |-> {}]
  /\ foreign = {} /\ seen = [e \in Edits |-> 0] /\ accepted = {} /\ overwrote = {}
  /\ excused = {} /\ exposed = {} /\ unsaved = {} /\ logged = {} /\ blind = {} /\ skewed = {}

Init == Fresh /\ faults = 0

Fault == faults < MaxFaults /\ faults' = faults + 1

Without(q, s) == Restrict(q, DOMAIN q \ {s})
Over(r, q)    == [s \in DOMAIN r \cup DOMAIN q |-> IF s \in DOMAIN r THEN r[s] ELSE q[s]]
Put(q, s, e)  == Over([r \in {s} |-> e], q)

\* The entry for a field, as coalesceTarget and findSet find it: the first.
EntryOf(q, f) ==
  LET S == {s \in DOMAIN q : q[s].field = f} IN IF S = {} THEN 0 ELSE Min(S)

-----------------------------------------------------------------------------
(* Keystrokes and their POSTs.                                              *)

\* What the user sees is fed[t]; the revision sent is known[t], which a 409, a
\* flush's answer and a pull move without painting anything.
Type(t) ==
  /\ edits < MaxEdits
  /\ edits' = edits + 1
  /\ seen' = [seen EXCEPT ![edits'] = fed[t]]
  /\ blind' = IF \E r \in foreign : fed[t] < r /\ r <= known[t]
              THEN blind \cup {edits'} ELSE blind
  /\ UNCHANGED <<faults, row, store, lockage, mem, known, fed, alloc, fates, skewed>>

\* The wire effect: POST with the base revision known to this tab.
Edit(t, f) ==
  /\ Online
  /\ Type(t)
  /\ net' = net \cup {[tab |-> t, seq |-> 0, field |-> f, val |-> edits', at |-> 0,
                       base |-> known[t], status |-> "sent"]}
  /\ UNCHANGED captures

Capture(t, m) ==
  captures' = [captures EXCEPT ![t] = Append(@, [field |-> m.field, val |-> m.val,
                                                 base |-> IF Detect THEN m.base ELSE 0])]

\* No network: the POST rejects at once.
EditOffline(t, f) ==
  /\ Type(t)
  /\ Capture(t, [field |-> f, val |-> edits', base |-> known[t]])
  /\ UNCHANGED net

\* 2xx: nothing to do, the revision comes with the echo.  A refusal is logged.
EditAnswered(m) ==
  /\ m \in net /\ m.seq = 0 /\ m.status \in {"ok", "refused"}
  /\ net' = net \ {m}
  /\ UNCHANGED <<edits, faults, row, store, lockage, mem, known, fed, chain, history>>

\* 409: the revision is adopted, the rejected write captured as it was sent.
EditConflicted(m) ==
  /\ m \in net /\ m.seq = 0 /\ m.status = "conflict"
  /\ net' = net \ {m}
  /\ known' = [known EXCEPT ![m.tab] = m.at]
  /\ Capture(m.tab, m)
  /\ UNCHANGED <<edits, faults, row, store, lockage, mem, fed, alloc, history>>

\* The fetch rejects, before or after the server has done its part.
EditLost(m) ==
  /\ m \in net /\ m.seq = 0
  /\ net' = net \ {m}
  /\ Capture(m.tab, m)
  /\ UNCHANGED <<edits, faults, row, store, lockage, mem, known, fed, alloc, history>>

\* Mutant of CaptureAlloc: a counter of the tab's own.
CaptureAllocLocal(t) ==
  /\ captures[t] # <<>> /\ alloc[t] = 0
  /\ EntryOf(mem[t], Head(captures[t]).field) = 0
  /\ alloc' = [alloc EXCEPT ![t] = 1 + Max({0} \cup DOMAIN mem[t])]
  /\ nextSeq' = nextSeq + 1
  /\ UNCHANGED <<edits, faults, row, durable, dead, lockage, net, mem, known, fed,
                 captures, history>>

\* The chain's head: a new entry allocates its seq in a transaction of its own.
CaptureAlloc(t) ==
  /\ captures[t] # <<>> /\ alloc[t] = 0
  /\ EntryOf(mem[t], Head(captures[t]).field) = 0
  /\ alloc' = [alloc EXCEPT ![t] = nextSeq]
  /\ nextSeq' = nextSeq + 1
  /\ UNCHANGED <<edits, faults, row, durable, dead, lockage, net, mem, known, fed,
                 captures, history>>

\* The seq a flush has in hand: a lineage is flushed in seq order.
InHand(t) == Min(todo[t])

\* The tab that has the lock still works with the entry as it was: read by its
\* reload, in its memory, or copied into the POST it waits for.
InWorkOf(h, t, s) ==
  IF pc[h] = "reloading" THEN s \in DOMAIN snap[h]
  ELSE IF h = t THEN pc[h] = "waiting" /\ s = InHand(h)
  ELSE s \in DOMAIN mem[h]

\* Enqueued in memory and put in the durable store.  A coalesce keeps the
\* entry's seq and its pin; the value it replaces is superseded.
CaptureEnqueue(t) ==
  /\ captures[t] # <<>>
  /\ LET c == Head(captures[t])
         x == EntryOf(mem[t], c.field)
         s == IF x # 0 THEN x ELSE alloc[t]
         e == IF x # 0 THEN [mem[t][x] EXCEPT !.val = c.val] ELSE c
     IN  /\ s # 0
         /\ mem'     = [mem EXCEPT ![t] = Put(@, s, e)]
         /\ durable' = Put(durable, s, e)
         /\ excused' = excused \cup {q[s].val : q \in {r \in {mem[t], durable} : s \in DOMAIN r}}
         /\ exposed' = exposed \cup {c.val : h \in {h \in Tabs : x # 0 /\ holder = h
                                                                /\ InWorkOf(h, t, s)}}
                               \cup (IF s \in DOMAIN dead THEN {dead[s].val} ELSE {})
         /\ skewed'  = IF e.base > c.base THEN skewed \cup {c.val} ELSE skewed
  /\ captures' = [captures EXCEPT ![t] = Tail(@)]
  /\ alloc'    = [alloc EXCEPT ![t] = 0]
  /\ UNCHANGED <<edits, faults, row, nextSeq, dead, lockage, net, known, fed, seen,
                 unsaved, logged, blind>>

-----------------------------------------------------------------------------
(* The server, and what its event feed tells a tab.                         *)

Answer(m, status, r) == net' = (net \ {m}) \cup {[m EXCEPT !.status = status, !.at = r]}

\* Mutant of Accept: the UPDATE is not guarded.
AcceptUnguarded(m) ==
  /\ m \in net /\ m.status = "sent"
  /\ rev' = IF Detect THEN rev + 1 ELSE rev
  /\ value' = [value EXCEPT ![m.field] = m.val]
  /\ accepted' = accepted \cup {m.val}
  /\ overwrote' = IF \E r \in foreign : seen[m.val] < r THEN overwrote \cup {m.val} ELSE overwrote
  /\ Answer(m, "ok", rev')
  /\ UNCHANGED <<edits, faults, store, lockage, mem, known, fed, chain, foreign, history>>

\* UPDATE ... WHERE revision = baseRevision under detect, without it under lww.
Accept(m) ==
  /\ m \in net /\ m.status = "sent"
  /\ Detect => m.base = rev
  /\ rev' = IF Detect THEN rev + 1 ELSE rev
  /\ value' = [value EXCEPT ![m.field] = m.val]
  /\ accepted' = accepted \cup {m.val}
  /\ overwrote' = IF \E r \in foreign : seen[m.val] < r THEN overwrote \cup {m.val} ELSE overwrote
  /\ Answer(m, "ok", rev')
  /\ UNCHANGED <<edits, faults, store, lockage, mem, known, fed, chain, foreign, history>>

Conflict(m) ==
  /\ m \in net /\ m.status = "sent" /\ Detect /\ m.base # rev
  /\ Answer(m, "conflict", rev)
  /\ UNCHANGED <<edits, faults, row, store, lockage, mem, known, fed, chain, history>>

\* A permission rule or a trigger of the schema says no.
Refuse(m) ==
  /\ m \in net /\ m.status = "sent" /\ Fault
  /\ Answer(m, "refused", rev)
  /\ logged' = IF m.seq = 0 THEN logged \cup {m.val} ELSE logged
  /\ UNCHANGED <<edits, row, store, lockage, mem, known, fed, chain,
                 seen, excused, exposed, unsaved, blind, skewed>>

ForeignWrite(f) ==
  /\ Cardinality(foreign) < MaxForeign /\ Detect
  /\ rev' = rev + 1 /\ foreign' = foreign \cup {rev'}
  /\ value' = [value EXCEPT ![f] = 0]
  /\ UNCHANGED <<edits, faults, accepted, overwrote, store, lockage, net, mem, known, fed, chain, history>>

\* The feed delivers broadcasts in order, the tab's own echoes among them.
Broadcast(t) ==
  /\ fed[t] < rev
  /\ fed' = [fed EXCEPT ![t] = @ + 1]
  /\ known' = [known EXCEPT ![t] = fed[t] + 1]
  /\ UNCHANGED <<edits, faults, row, store, lockage, net, mem, chain, history>>

\* The feed reopens: what was sent meanwhile is gone, the record context
\* fetches the row again.
Heal(t) ==
  /\ fed[t] < rev \/ known[t] # rev
  /\ fed' = [fed EXCEPT ![t] = rev]
  /\ known' = [known EXCEPT ![t] = rev]
  /\ UNCHANGED <<edits, faults, row, store, lockage, net, mem, chain, history>>

-----------------------------------------------------------------------------
(* Resync and the two resolutions: the lock, the reload, then the work.     *)

Parked(q, r) == {s \in DOMAIN q : Detect /\ q[s].base # r}

\* The lock is granted and reloadFromDurable reads.  What a tab does while it
\* waits for the lock is in no state of its own: it may do anything.
Lock(t, verb, field) ==
  /\ holder = None
  /\ holder' = t
  /\ want' = [want EXCEPT ![t] = [verb |-> verb, field |-> field]]
  /\ snap' = [snap EXCEPT ![t] = durable]
  /\ pc' = [pc EXCEPT ![t] = "reloading"]
  /\ UNCHANGED <<edits, faults, row, store, pulled, todo, net, mem, known, fed,
                 chain, history>>

\* resync(): on a feed open, after a 409 and after each resolution; here any
\* time.  It awaits the captures chained when it is called, not those chained
\* while it waits for the lock.
Resync(t) == Lock(t, "resync", None)

\* The user answers the prompt, which shows the head conflict.
Resolve(t, verb) ==
  /\ Parked(mem[t], known[t]) # {}
  /\ Lock(t, verb, mem[t][Min(Parked(mem[t], known[t]))].field)

Release(t) ==
  /\ holder' = None
  /\ pc' = [pc EXCEPT ![t] = "idle"]
  /\ snap' = [snap EXCEPT ![t] = Empty]
  /\ todo' = [todo EXCEPT ![t] = {}]
  /\ pulled' = [pulled EXCEPT ![t] = 1]
  /\ want' = [want EXCEPT ![t] = [verb |-> "resync", field |-> None]]

\* queue.reload: memory becomes what was read.  An empty queue ends the work.
Reload(t) ==
  /\ pc[t] = "reloading" /\ want[t].verb = "resync"
  /\ mem' = [mem EXCEPT ![t] = snap[t]]
  /\ IF DOMAIN snap[t] = {}
     THEN Release(t)
     ELSE /\ pc' = [pc EXCEPT ![t] = IF Detect THEN "pulling" ELSE "pulled"]
          /\ snap' = [snap EXCEPT ![t] = Empty]
          /\ UNCHANGED <<holder, want, pulled, todo>>
  /\ UNCHANGED <<edits, faults, row, store, net, known, fed, chain, history>>

\* Act-time pinning: the entry is pinned to the revision this tab knows now,
\* which its user thereby adopts (the prompt may have shown an older value).
KeepMine(t) ==
  /\ pc[t] = "reloading" /\ want[t].verb = "keep"
  /\ LET s == EntryOf(snap[t], want[t].field)
         e == [snap[t][s] EXCEPT !.base = known[t]]
     IN  IF s = 0
         THEN mem' = [mem EXCEPT ![t] = snap[t]] /\ UNCHANGED <<durable, seen>>
         ELSE /\ mem' = [mem EXCEPT ![t] = Put(snap[t], s, e)]
              /\ durable' = Put(durable, s, e)
              /\ seen' = [seen EXCEPT ![e.val] = known[t]]
  /\ Release(t)
  /\ UNCHANGED <<edits, faults, row, nextSeq, dead, net, known, fed, chain,
                 fates, blind, skewed>>

\* The user's own value is given up.
TakeTheirs(t) ==
  /\ pc[t] = "reloading" /\ want[t].verb = "take"
  /\ LET s == EntryOf(snap[t], want[t].field)
     IN  IF s = 0
         THEN mem' = [mem EXCEPT ![t] = snap[t]] /\ UNCHANGED <<durable, excused>>
         ELSE /\ mem' = [mem EXCEPT ![t] = Without(snap[t], s)]
              /\ durable' = Without(durable, s)
              /\ excused' = excused \cup {snap[t][s].val}
  /\ Release(t)
  /\ UNCHANGED <<edits, faults, row, nextSeq, dead, net, known, fed, chain,
                 seen, exposed, unsaved, logged, blind, skewed>>

\* The server answers the pull's read.
PullRead(t) ==
  /\ pc[t] = "pulling"
  /\ pulled' = [pulled EXCEPT ![t] = rev]
  /\ pc' = [pc EXCEPT ![t] = "pulled"]
  /\ UNCHANGED <<edits, faults, row, store, holder, want, snap, todo, net, mem, known,
                 fed, chain, history>>

\* The bundle fetch or the pull rejects: still offline, nothing flushed.
PullFails(t) ==
  /\ pc[t] \in {"pulling", "pulled"} /\ Fault
  /\ Release(t)
  /\ UNCHANGED <<edits, row, store, net, mem, known, fed, chain, history>>

\* The pull arrives.  The row is one lineage: clean, or parked as a whole.
Reconcile(t) ==
  /\ pc[t] = "pulled"
  /\ LET r == IF Detect THEN pulled[t] ELSE known[t]
     IN  /\ known' = [known EXCEPT ![t] = r]
         /\ IF Parked(mem[t], r) # {}
            THEN Release(t)
            ELSE /\ todo' = [todo EXCEPT ![t] = DOMAIN mem[t]]
                 /\ pulled' = [pulled EXCEPT ![t] = 1]
                 /\ pc' = [pc EXCEPT ![t] = "flushing"]
                 /\ UNCHANGED <<holder, want, snap>>
  /\ UNCHANGED <<edits, faults, row, store, net, mem, fed, chain, history>>

\* Mutant of FlushSend: sent with the revision known now, not the pin.
FlushSendRebased(t) ==
  /\ pc[t] = "flushing"
  /\ LET s == InHand(t)
         e == mem[t][s]
     IN  net' = net \cup {[tab |-> t, seq |-> s, field |-> e.field, val |-> e.val,
                           base |-> known[t], status |-> "sent", at |-> 0]}
  /\ pc' = [pc EXCEPT ![t] = "waiting"]
  /\ UNCHANGED <<edits, faults, row, store, holder, want, snap, pulled, todo, mem,
                 known, fed, chain, history>>

\* The envelope is copied when it is sent.
FlushSend(t) ==
  /\ pc[t] = "flushing"
  /\ LET s == InHand(t)
         e == mem[t][s]
     IN  net' = net \cup {[tab |-> t, seq |-> s, field |-> e.field, val |-> e.val,
                           base |-> e.base, status |-> "sent", at |-> 0]}
  /\ pc' = [pc EXCEPT ![t] = "waiting"]
  /\ UNCHANGED <<edits, faults, row, store, holder, want, snap, pulled, todo, mem,
                 known, fed, chain, history>>

\* On to the next entry; after the last one the lock is released.
FlushNext(t) ==
  IF todo[t] # {InHand(t)}
  THEN /\ todo' = [todo EXCEPT ![t] = @ \ {InHand(t)}]
       /\ pulled' = [pulled EXCEPT ![t] = 1]
       /\ pc' = [pc EXCEPT ![t] = "flushing"]
       /\ UNCHANGED <<holder, want, snap>>
  ELSE Release(t)

Answered(t, m, status) ==
  /\ pc[t] = "waiting" /\ m \in net /\ m.tab = t /\ m.seq # 0 /\ m.status = status
  /\ net' = net \ {m}

\* 2xx: the revision adopted, the entry acked and removed, the removal awaited.
FlushAcked(t, m) ==
  /\ Answered(t, m, "ok")
  /\ known' = [known EXCEPT ![t] = IF Detect THEN m.at ELSE @]
  /\ mem' = [mem EXCEPT ![t] = Without(@, m.seq)]
  /\ durable' = Without(durable, m.seq)
  /\ pulled' = [pulled EXCEPT ![t] = m.at]
  /\ pc' = [pc EXCEPT ![t] = "advancing"]
  /\ UNCHANGED <<edits, faults, row, nextSeq, dead, holder, want, snap, todo, fed, chain,
                 history>>

\* advanceBase, with the revision the bookkeeping holds once the removal is
\* durable; the advanced entries are put back as this tab has them.
Advance(t) ==
  /\ pc[t] = "advancing"
  /\ LET moved == {s \in DOMAIN mem[t] : Detect /\ s > InHand(t)}
         fresh == [s \in moved |-> [mem[t][s] EXCEPT !.base = known[t]]]
         honest == {s \in moved : known[t] = pulled[t] /\ mem[t][s].base + 1 = pulled[t]}
     IN  /\ mem' = [mem EXCEPT ![t] = Over(fresh, @)]
         /\ durable' = Over(fresh, durable)
         /\ skewed' = skewed \cup {fresh[s].val : s \in moved \ honest}
  /\ FlushNext(t)
  /\ UNCHANGED <<edits, faults, row, nextSeq, dead, net, known, fed, chain,
                 seen, fates, blind>>

\* A late 409: the lineage parks, nothing later is flushed past it.
FlushConflicted(t, m) ==
  /\ Answered(t, m, "conflict")
  /\ known' = [known EXCEPT ![t] = m.at]
  /\ Release(t)
  /\ UNCHANGED <<edits, faults, row, store, mem, fed, chain, history>>

\* Mutant of FlushRefused: deleted, not put away.
FlushRefusedDeleted(t, m) ==
  /\ Answered(t, m, "refused")
  /\ mem' = [mem EXCEPT ![t] = Without(@, m.seq)]
  /\ durable' = Without(durable, m.seq)
  /\ FlushNext(t)
  /\ UNCHANGED <<edits, faults, row, nextSeq, dead, known, fed, chain, history>>

\* A terminal refusal: to the dead letters, and on with the lineage.
FlushRefused(t, m) ==
  /\ Answered(t, m, "refused")
  /\ dead' = Put(dead, m.seq, mem[t][m.seq])
  /\ mem' = [mem EXCEPT ![t] = Without(@, m.seq)]
  /\ durable' = Without(durable, m.seq)
  /\ FlushNext(t)
  /\ UNCHANGED <<edits, faults, row, nextSeq, known, fed, chain, history>>

\* The fetch rejects: "offline", the entry stays queued.
FlushLost(t, m) ==
  /\ pc[t] = "waiting" /\ m \in net /\ m.tab = t /\ m.seq # 0 /\ Fault
  /\ net' = net \ {m}
  /\ Release(t)
  /\ UNCHANGED <<edits, row, store, mem, known, fed, chain, history>>

\* The tab goes away and comes back: open() reads the durable queue.  What was
\* only in flight or on the capture chain goes with the page.
Crash(t) ==
  /\ Fault
  /\ mem' = [mem EXCEPT ![t] = durable]
  /\ known' = [known EXCEPT ![t] = rev] /\ fed' = [fed EXCEPT ![t] = rev]
  /\ captures' = [captures EXCEPT ![t] = <<>>] /\ alloc' = [alloc EXCEPT ![t] = 0]
  /\ net' = {m \in net : m.tab # t}
  /\ unsaved' = unsaved \cup {m.val : m \in {n \in net : n.tab = t /\ n.seq = 0}}
                        \cup {captures[t][i].val : i \in DOMAIN captures[t]}
  /\ IF holder = t
     THEN Release(t)
     ELSE UNCHANGED lockage
  /\ UNCHANGED <<edits, row, store, seen, excused, exposed, logged, blind, skewed>>

OfTab(t) ==
  \/ \E f \in Fields : Edit(t, f) \/ EditOffline(t, f)
  \/ CaptureAlloc(t) \/ CaptureEnqueue(t)
  \/ Broadcast(t) \/ Heal(t)
  \/ Resync(t) \/ Resolve(t, "keep") \/ Resolve(t, "take")
  \/ Reload(t) \/ KeepMine(t) \/ TakeTheirs(t)
  \/ PullRead(t) \/ PullFails(t) \/ Reconcile(t)
  \/ FlushSend(t) \/ Advance(t)
  \/ \E m \in net : FlushAcked(t, m) \/ FlushConflicted(t, m) \/ FlushRefused(t, m)
                   \/ FlushLost(t, m)
  \/ Crash(t)

Next ==
  \/ \E t \in Tabs : OfTab(t)
  \/ \E m \in net : \/ Accept(m) \/ Conflict(m) \/ Refuse(m)
                    \/ EditAnswered(m) \/ EditConflicted(m) \/ EditLost(m)
  \/ \E f \in Fields : ForeignWrite(f)

Spec == Init /\ [][Next]_vars

-----------------------------------------------------------------------------
(* Properties.                                                             *)

Entry == [field : Fields, val : Edits, base : Nat]
IsQueue(q) == DOMAIN q \subseteq Seqs /\ \A s \in DOMAIN q : q[s] \in Entry

\* Types of all variables, and every tab's flush runs under the lock.
TypeOK ==
  /\ edits \in 0..MaxEdits /\ faults \in 0..MaxFaults /\ rev \in Nat /\ nextSeq \in Nat
  /\ value \in [Fields -> 0..MaxEdits] /\ seen \in [Edits -> Nat]
  /\ IsQueue(durable) /\ IsQueue(dead)
  /\ \A t \in Tabs : /\ IsQueue(mem[t]) /\ IsQueue(snap[t])
                     /\ known[t] \in 1..rev /\ fed[t] \in 1..rev /\ pulled[t] \in 1..rev
                     /\ (holder = t) = (pc[t] # "idle")
                     /\ alloc[t] # 0 => captures[t] # <<>>
                     /\ \A s \in todo[t] : s \in DOMAIN mem[t] \/ pc[t] = "advancing"

\* The seq counter is shared and allocated atomically (runtime/syncClient.js:
\* 94-102): no two tabs ever give one seq to two entries, so wherever a seq
\* turns up - durable, dead, in a tab's memory, in its reload, on the wire - it
\* is the same entry, and a seq being allocated is nowhere yet (in a well
\* typed state).
SeqNamesOneEntry ==
  LET queues == {durable, dead} \cup {mem[t] : t \in Tabs} \cup {snap[t] : t \in Tabs}
  IN  /\ TypeOK
      /\ \A p, q \in queues : \A s \in DOMAIN p \cap DOMAIN q : p[s].field = q[s].field
      /\ \A m \in net, q \in queues : m.seq \in DOMAIN q => q[m.seq].field = m.field
      /\ \A t \in Tabs : \A q \in queues : alloc[t] \notin DOMAIN q
      /\ \A t, u \in Tabs : alloc[t] = alloc[u] => t = u \/ alloc[t] = 0

Safe(e) ==
  \/ \E m \in net : m.val = e
  \/ \E t \in Tabs : \E i \in DOMAIN captures[t] : captures[t][i].val = e
  \/ \E s \in DOMAIN durable : durable[s].val = e
  \/ \E s \in DOMAIN dead : dead[s].val = e
  \/ e \in accepted
  \/ e \in excused

\* A keystroke's value is in flight, on the capture chain, in the durable queue
\* or the dead letters, or the server took it, or a later keystroke replaced it
\* or its user gave it up.  It is lost in four ways only: with the page, while
\* that alone has it (unsaved); by an online refusal, of which only the console
\* tells (logged; runtime/boot.js:213-239); coalesced into an entry that a flush
\* or a resolution has in hand, which removes or puts back the older value; and
\* as a dead letter that a tab with an old copy of the queue puts back under its
\* seq, to be refused once more and overwritten (exposed; runtime/syncClient.js:
\* 109-119).
LostOnlyAsListed == \A e \in 1..edits : Safe(e) \/ e \in unsaved \cup logged \cup exposed

\* "An entry leaves the durable queue only when the server answers - 2xx, or a
\* terminal 4xx" (docs/apskel-design.md:2708-2710): what had been captured durably
\* is never lost.  Not an invariant: see exposed.
NothingLost == \A e \in 1..edits : Safe(e) \/ e \in unsaved \cup logged

\* Under detect an accepted edit overwrites a foreign revision its user had not
\* seen on screen, nor adopted with keep-mine, only if it was typed when the
\* page's bookkeeping was already past that revision (blind), or its pin was
\* moved since (skewed): by a coalesce onto a later pin, or by an advance of its
\* lineage that was not from its own pin to the revision its flush just made.
OverwritesOnlyAsListed == overwrote \subseteq blind \cup skewed

\* "Only a FOREIGN move is a conflict" (docs/apskel-design.md:2806-2807): what
\* the server refuses as conflicting, another user has moved since.
OnlyForeignConflicts ==
  \A m \in net : m.status = "conflict" => \E r \in foreign : m.base < r /\ r <= m.at

=============================================================================
