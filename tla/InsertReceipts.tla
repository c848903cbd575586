---------------------------- MODULE InsertReceipts ----------------------------
(***************************************************************************)
(* Queued inserts and their idempotency receipts, end to end: the page that *)
(* creates rows, the durable queue its failed creates fall into, the flush  *)
(* under the Web Lock, the network, the Wire server's insert handler and    *)
(* the one PostgreSQL connection all handlers share.                        *)
(*                                                                         *)
(* A handler awaits one query at a time; node-postgres runs the queries of  *)
(* one client in the order they were issued.  So the connection is a FIFO   *)
(* of the one query each running handler is waiting for, and a handler's    *)
(* next query goes to the end of it.                                        *)
(***************************************************************************)
EXTENDS Naturals, Sequences, FiniteSets, FiniteSetsExt

CONSTANTS MaxCreates,   \* bound: rows the users create
          MaxFaults,    \* bound: lost flush answers, page and server crashes
          LateDelivery  \* may a request outlive the fetch that sent it?

ASSUME ReceiptConstants ==
  MaxCreates \in Nat /\ MaxFaults \in Nat /\ LateDelivery \in BOOLEAN

Keys == 1..MaxCreates   \* sequence numbers; 0 is "no idempotency key"

VARIABLES
  creates,  \* creates begun
  faults,   \* faults so far
  nextAtt,  \* the next request (attempt) number
  create,   \* attempt of the online create in progress, 0 if none
  nextSeq,  \* the shared meta counter
  capturing,\* seqs allocated, entry not yet persisted
  queued,   \* the durable queue: seqs of queued inserts
  acked,    \* seqs durably removed after a 2xx
  dead,     \* seqs durably moved to the dead letters
  mem,      \* the lock holder's copy of the queue
  flush,    \* the lock holder: [phase, att, seq]
  net,      \* requests on their way: [att, key, through]
  dbq,      \* queries waiting for the connection: [att, key, through, stage]
  replies,  \* answers on their way: [att, ok]
  receipts, \* table sync_receipts, by seq
  keyed,    \* [Keys -> rows created under that key]
  plain,    \* attempts that created a row without a key
  plainOf   \* [Keys -> the online attempt the queued insert comes from]

client  == <<creates, nextSeq, capturing, queued, acked, dead, mem, plainOf>>
server  == <<dbq, receipts, keyed, plain>>
vars    == <<creates, faults, nextAtt, create, nextSeq, capturing, queued, acked,
             dead, mem, flush, net, dbq, replies, receipts, keyed, plain, plainOf>>

Idle == [phase |-> "idle", att |-> 0, seq |-> 0]

Init ==
  /\ creates = 0 /\ faults = 0 /\ nextAtt = 1 /\ create = 0 /\ nextSeq = 1
  /\ capturing = {} /\ queued = {} /\ acked = {} /\ dead = {} /\ mem = {}
  /\ flush = Idle
  /\ net = {} /\ dbq = <<>> /\ replies = {}
  /\ receipts = {} /\ keyed = [k \in Keys |-> 0] /\ plain = {}
  /\ plainOf = [k \in Keys |-> 0]

\* What is left on the wire once the fetch for attempt a is over.
Abandoned(a) ==
  /\ net' = IF LateDelivery THEN net ELSE {m \in net : m.att # a}
  /\ replies' = {r \in replies : r.att # a}

Fault == faults < MaxFaults /\ faults' = faults + 1

-----------------------------------------------------------------------------
(* The page: apskel.data.create always tries online first, without a key.   *)

Create ==
  /\ create = 0 /\ creates < MaxCreates
  /\ creates' = creates + 1
  /\ create' = nextAtt /\ nextAtt' = nextAtt + 1
  /\ net' = net \cup {[att |-> nextAtt, key |-> 0, through |-> 0]}
  /\ UNCHANGED <<faults, nextSeq, capturing, queued, acked, dead, mem, plainOf,
                 flush, replies, server>>

\* Answered: done if 2xx, warned about and dropped if refused.
CreateAnswered ==
  /\ \E r \in replies : r.att = create /\ replies' = replies \ {r}
  /\ create' = 0
  /\ UNCHANGED <<client, faults, nextAtt, flush, net, server>>

\* Mutants of CreateFails: the failed create stays in progress; the counter is
\* read and not moved on.
CreateFailsAgain ==
  /\ create # 0
  /\ capturing' = capturing \cup {nextSeq}
  /\ nextSeq' = nextSeq + 1
  /\ plainOf' = [plainOf EXCEPT ![nextSeq] = create]
  /\ Abandoned(create)
  /\ UNCHANGED <<creates, faults, nextAtt, create, queued, acked, dead, mem, flush, server>>
CreateFailsUncounted ==
  /\ create # 0
  /\ capturing' = capturing \cup {nextSeq}
  /\ plainOf' = [plainOf EXCEPT ![nextSeq] = create]
  /\ create' = 0
  /\ Abandoned(create)
  /\ UNCHANGED <<creates, faults, nextAtt, nextSeq, queued, acked, dead, mem, flush, server>>

\* The fetch rejects: captured, beginning with the atomic seq allocation.
CreateFails ==
  /\ create # 0
  /\ capturing' = capturing \cup {nextSeq}
  /\ nextSeq' = nextSeq + 1
  /\ plainOf' = [plainOf EXCEPT ![nextSeq] = create]
  /\ create' = 0
  /\ Abandoned(create)
  /\ UNCHANGED <<creates, faults, nextAtt, queued, acked, dead, mem, flush, server>>

\* The page goes away with the create unanswered: nobody captures it.
CreateCrash ==
  /\ create # 0 /\ Fault
  /\ create' = 0
  /\ Abandoned(create)
  /\ UNCHANGED <<client, nextAtt, flush, server>>

\* The entry becomes durable.  It is in the lock holder's memory too if the
\* holder is the tab that captured it.
CapturePersisted(s) ==
  /\ s \in capturing
  /\ capturing' = capturing \ {s}
  /\ queued' = queued \cup {s}
  /\ \/ mem' = mem
     \/ flush.phase # "idle" /\ mem' = mem \cup {s}
  /\ UNCHANGED <<creates, faults, nextAtt, create, nextSeq, acked, dead, plainOf,
                 flush, net, replies, server>>

-----------------------------------------------------------------------------
(* Resync: lock, reload from the durable queue, flush entry by entry.       *)

AcquireLock ==
  /\ flush.phase = "idle" /\ queued # {}
  /\ flush' = [flush EXCEPT !.phase = "holding"]
  /\ mem' = queued
  /\ UNCHANGED <<creates, faults, nextAtt, create, nextSeq, capturing, queued,
                 acked, dead, plainOf, net, replies, server>>

\* Mutant of FlushSend: the watermark is one too high.
FlushSendTooHigh(s) ==
  /\ flush.phase = "holding" /\ s \in mem
  /\ flush' = [phase |-> "waiting", att |-> nextAtt, seq |-> s]
  /\ net' = net \cup {[att |-> nextAtt, key |-> s, through |-> Min(mem) + 1]}
  /\ nextAtt' = nextAtt + 1
  /\ UNCHANGED <<client, faults, create, replies, server>>

\* Each entry goes out with its key and the watermark dequeuedThrough.
FlushSend(s) ==
  /\ flush.phase = "holding" /\ s \in mem
  /\ flush' = [phase |-> "waiting", att |-> nextAtt, seq |-> s]
  /\ net' = net \cup {[att |-> nextAtt, key |-> s, through |-> Min(mem)]}
  /\ nextAtt' = nextAtt + 1
  /\ UNCHANGED <<client, faults, create, replies, server>>

\* Mutant of FlushAnswered: every answer counts as an acknowledgement.
FlushAnsweredAny ==
  /\ flush.phase = "waiting"
  /\ \E r \in replies : r.att = flush.att /\ replies' = replies \ {r}
  /\ flush' = [flush EXCEPT !.phase = "acking"]
  /\ mem' = mem \ {flush.seq}
  /\ UNCHANGED <<creates, faults, nextAtt, create, nextSeq, capturing, queued,
                 acked, dead, plainOf, net, server>>

\* 2xx: dequeued in memory, the durable removal awaited.
\* Anything else: a terminal rejection, on its way to the dead letters.
FlushAnswered ==
  /\ flush.phase = "waiting"
  /\ \E r \in replies :
       /\ r.att = flush.att
       /\ replies' = replies \ {r}
       /\ flush' = [flush EXCEPT !.phase = IF r.ok THEN "acking" ELSE "burying"]
  /\ mem' = mem \ {flush.seq}
  /\ UNCHANGED <<creates, faults, nextAtt, create, nextSeq, capturing, queued,
                 acked, dead, plainOf, net, server>>

FlushPersisted ==
  /\ flush.phase \in {"acking", "burying"}
  /\ queued' = queued \ {flush.seq}
  /\ acked' = IF flush.phase = "acking" THEN acked \cup {flush.seq} ELSE acked
  /\ dead' = IF flush.phase = "burying" THEN dead \cup {flush.seq} ELSE dead
  /\ flush' = [Idle EXCEPT !.phase = "holding"]
  /\ UNCHANGED <<creates, faults, nextAtt, create, nextSeq, capturing, mem,
                 plainOf, net, replies, server>>

\* The fetch rejects ("offline"): the lock is released, the entry stays.
FlushLost ==
  /\ flush.phase = "waiting" /\ Fault
  /\ flush' = Idle /\ mem' = {}
  /\ Abandoned(flush.att)
  /\ UNCHANGED <<creates, nextAtt, create, nextSeq, capturing, queued, acked,
                 dead, plainOf, server>>

ReleaseLock ==
  /\ flush.phase = "holding"
  /\ flush' = Idle /\ mem' = {}
  /\ UNCHANGED <<creates, faults, nextAtt, create, nextSeq, capturing, queued,
                 acked, dead, plainOf, net, replies, server>>

\* The tab that holds the lock goes away; the browser frees the lock.
PageCrash ==
  /\ flush.phase # "idle" /\ Fault
  /\ flush' = Idle /\ mem' = {}
  /\ Abandoned(flush.att)
  /\ UNCHANGED <<creates, nextAtt, create, nextSeq, capturing, queued, acked,
                 dead, plainOf, server>>

\* A tab goes away between allocating a seq and persisting the entry: the
\* seq is spent, nothing was promised about the row.
CaptureCrash(s) ==
  /\ s \in capturing /\ Fault
  /\ capturing' = capturing \ {s}
  /\ UNCHANGED <<creates, nextAtt, create, nextSeq, queued, acked, dead, mem,
                 plainOf, flush, net, replies, server>>

-----------------------------------------------------------------------------
(* The Wire server.                                                        *)

\* The handler starts and issues its first query: a keyed insert prunes
\* receipts first, an unkeyed one has nothing to prune or to claim.
Arrive(m) ==
  /\ m \in net
  /\ net' = net \ {m}
  /\ dbq' = Append(dbq, [att |-> m.att, key |-> m.key, through |-> m.through,
                         stage |-> IF m.key = 0 THEN "insert" ELSE "prune"])
  /\ UNCHANGED <<client, faults, nextAtt, create, flush, replies, receipts, keyed, plain>>

Awaited == {create, flush.att} \ {0}

Answer(att, ok) ==
  replies' = IF att \in Awaited THEN replies \cup {[att |-> att, ok |-> ok]} ELSE replies

Continue(stage) == dbq' = Append(Tail(dbq), [Head(dbq) EXCEPT !.stage = stage])

NextQuery(stage) == dbq # <<>> /\ Head(dbq).stage = stage

\* Mutant of ExecPrune: the watermark itself is pruned too.
ExecPruneThrough ==
  /\ NextQuery("prune")
  /\ receipts' = {k \in receipts : ~(k <= Head(dbq).through)}
  /\ Continue("claim")
  /\ UNCHANGED <<client, faults, nextAtt, create, flush, net, replies, keyed, plain>>

ExecPrune ==
  /\ NextQuery("prune")
  /\ receipts' = {k \in receipts : ~(k < Head(dbq).through)}
  /\ Continue("claim")
  /\ UNCHANGED <<client, faults, nextAtt, create, flush, net, replies, keyed, plain>>

\* A receipt answers with the original id; without one the insert follows.
ExecClaim ==
  /\ NextQuery("claim")
  /\ IF Head(dbq).key \in receipts
     THEN dbq' = Tail(dbq) /\ Answer(Head(dbq).att, TRUE)
     ELSE Continue("insert") /\ UNCHANGED replies
  /\ UNCHANGED <<client, faults, nextAtt, create, flush, net, receipts, keyed, plain>>

\* Mutant of ExecKeyedInsert: the receipt does not guard the row.
ExecKeyedInsertUnguarded ==
  /\ NextQuery("insert") /\ Head(dbq).key # 0
  /\ dbq' = Tail(dbq)
  /\ Answer(Head(dbq).att, TRUE)
  /\ receipts' = receipts \cup {Head(dbq).key}
  /\ keyed' = [keyed EXCEPT ![Head(dbq).key] = @ + 1]
  /\ UNCHANGED <<client, faults, nextAtt, create, flush, net, plain>>

\* Row and receipt commit in one statement, which aborts whole when the
\* receipt's primary key is taken.
ExecKeyedInsert ==
  /\ NextQuery("insert") /\ Head(dbq).key # 0
  /\ dbq' = Tail(dbq)
  /\ LET k == Head(dbq).key
     IN  IF k \in receipts
         THEN /\ Answer(Head(dbq).att, FALSE)
              /\ UNCHANGED <<receipts, keyed>>
         ELSE /\ Answer(Head(dbq).att, TRUE)
              /\ receipts' = receipts \cup {k}
              /\ keyed' = [keyed EXCEPT ![k] = @ + 1]
  /\ UNCHANGED <<client, faults, nextAtt, create, flush, net, plain>>

ExecPlainInsert ==
  /\ NextQuery("insert") /\ Head(dbq).key = 0
  /\ dbq' = Tail(dbq)
  /\ plain' = plain \cup {Head(dbq).att}
  /\ Answer(Head(dbq).att, TRUE)
  /\ UNCHANGED <<client, faults, nextAtt, create, flush, net, receipts, keyed>>

\* The application's schema refuses the row (a constraint, a trigger).
ExecRefused ==
  /\ NextQuery("insert")
  /\ dbq' = Tail(dbq)
  /\ Answer(Head(dbq).att, FALSE)
  /\ UNCHANGED <<client, faults, nextAtt, create, flush, net, receipts, keyed, plain>>

ServerCrash ==
  /\ Fault /\ dbq # <<>>
  /\ dbq' = <<>>
  /\ UNCHANGED <<client, nextAtt, create, flush, net, replies, receipts, keyed, plain>>

Next ==
  \/ Create \/ CreateAnswered \/ CreateFails \/ CreateCrash
  \/ \E s \in Keys : CapturePersisted(s) \/ CaptureCrash(s) \/ FlushSend(s)
  \/ AcquireLock \/ FlushAnswered \/ FlushPersisted \/ FlushLost \/ ReleaseLock
  \/ PageCrash
  \/ \E m \in net : Arrive(m)
  \/ ExecPrune \/ ExecClaim \/ ExecKeyedInsert \/ ExecPlainInsert \/ ExecRefused
  \/ ServerCrash

Spec == Init /\ [][Next]_vars

-----------------------------------------------------------------------------
(* Properties.                                                             *)

Request == [att : Nat, key : Nat, through : Nat]

\* Types of all variables.
TypeOK ==
  /\ creates \in 0..MaxCreates /\ faults \in 0..MaxFaults
  /\ nextAtt \in Nat \ {0} /\ create \in Nat /\ nextSeq \in Nat \ {0}
  /\ nextSeq + (IF create = 0 THEN 0 ELSE 1) <= creates + 1
  /\ capturing \subseteq Keys /\ queued \subseteq Keys /\ acked \subseteq Keys
  /\ dead \subseteq Keys /\ mem \subseteq Keys /\ receipts \subseteq Keys
  /\ flush \in [phase : {"idle", "holding", "waiting", "acking", "burying"},
                att : Nat, seq : Keys \cup {0}]
  /\ \A m \in net : m \in Request /\ m.key \in Keys \cup {0}
  /\ dbq \in Seq([att : Nat, key : Keys \cup {0}, through : Nat,
                  stage : {"prune", "claim", "insert"}])
  /\ \A r \in replies : r \in [att : Nat, ok : BOOLEAN]
  /\ keyed \in [Keys -> Nat] /\ plain \subseteq Nat /\ plainOf \in [Keys -> Nat]

\* Exactly-once for the data insert (docs/apskel-design.md:3090): however often
\* a queued insert is resent - after a lost answer, a crash between the ack
\* and its durable removal, a takeover by another tab, a server restart - and
\* however its handlers interleave, its key creates one row at most.
AtMostOnce == \A k \in Keys : keyed[k] <= 1

\* An insert leaves the durable queue as acknowledged only if its row exists.
AckedCreated == \A k \in acked : keyed[k] >= 1

\* A seq is in one place, and below the counter.
OnePlace ==
  /\ \A k \in capturing \cup queued \cup acked \cup dead : k < nextSeq
  /\ capturing \cap (queued \cup acked \cup dead) = {} /\ acked \cap dead = {}
  /\ queued \cap (acked \cup dead) = {}

\* "Nothing replayable is ever deleted" (docs/apskel-design.md:3128): when the
\* watermark has pruned a receipt, its insert is durably resolved, no request
\* carries its key any more and no handler still works on it.
PruneSafe ==
  \A k \in Keys : keyed[k] >= 1 /\ k \notin receipts =>
    /\ k \in acked \cup dead
    /\ \A m \in net : m.key # k
    /\ \A i \in 1..Len(dbq) : dbq[i].key # k

\* The abstract ledger, which the protocol implements.
Outcome == [k \in Keys |-> IF k \in acked THEN "acked" ELSE IF k \in dead THEN "dead" ELSE "open"]
Ledger  == INSTANCE InsertLedger WITH rows <- keyed, outcome <- Outcome
LedgerSpec == Ledger!Spec

\* The create whose online attempt went unanswered creates one row in all.
CreatedOnce == \A k \in Keys : plainOf[k] \in plain => keyed[k] = 0

=============================================================================
