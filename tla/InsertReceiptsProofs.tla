------------------------ MODULE InsertReceiptsProofs ------------------------
(***************************************************************************)
(* Proofs about InsertReceipts, for any number of creates and faults, of a  *)
(* network whose requests end with the fetch that sent them (Bounded).      *)
(*                                                                         *)
(* Why a key creates one row at most: only a pruned receipt could let a     *)
(* second attempt insert.  A prune follows a watermark; what is below a     *)
(* watermark is resolved or was not yet sent (Watermark, Fresh); and once   *)
(* an attempt is answered, every older attempt of its key is already at     *)
(* its insert (Order, Answered), hence ahead of any later prune in the      *)
(* connection's queue.                                                      *)
(***************************************************************************)
EXTENDS InsertReceipts, CommonLemmas

Bounded == LateDelivery = FALSE

Rank(stage) == IF stage = "prune" THEN 0 ELSE IF stage = "claim" THEN 1 ELSE 2

AtWork == flush.phase \in {"acking", "burying"}

\* TypeOK, with the seq a flush is about.
Types == TypeOK /\ (flush.phase = "waiting" \/ AtWork => flush.seq \in Keys)

\* Where a seq is, and what the lock holder's memory holds.
Places ==
  /\ OnePlace
  /\ mem \subseteq queued
  /\ flush.phase = "idle" => mem = {}
  /\ flush.phase = "waiting" => flush.seq \in mem
  /\ AtWork => flush.seq \in queued /\ flush.seq \notin mem

\* Attempts are unique, and a keyed request on its way is the flush's own.
Attempts ==
  /\ create < nextAtt /\ flush.att < nextAtt
  /\ flush.phase = "waiting" => flush.att # 0
  /\ \A m \in net : m.att < nextAtt /\ m.att # 0
  /\ \A m \in net : m.key # 0 =>
       flush.phase = "waiting" /\ m.att = flush.att /\ m.key = flush.seq
  /\ \A i \in 1..Len(dbq) : dbq[i].att < nextAtt /\ dbq[i].att # 0
  /\ \A i, j \in 1..Len(dbq) : dbq[i].att = dbq[j].att => i = j
  /\ \A m \in net, i \in 1..Len(dbq) : m.att # dbq[i].att
  /\ \A m, n \in net : m.att = n.att => m = n
  /\ \A r \in replies : r.att < nextAtt
  /\ \A r \in replies, m \in net : r.att # m.att
  /\ \A r \in replies, i \in 1..Len(dbq) : r.att # dbq[i].att
  /\ flush.phase = "waiting" => \A i \in 1..Len(dbq) :
       /\ dbq[i].att = flush.att => dbq[i].key = flush.seq
       /\ dbq[i].key = flush.seq => dbq[i].att <= flush.att
  /\ flush.phase = "waiting" => \A m \in net : m.att = flush.att => m.key = flush.seq

\* Attempts of one key go through the handler in step: a later one never
\* overtakes an earlier one.
Order == \A i, j \in 1..Len(dbq) :
  dbq[i].key # 0 /\ dbq[i].key = dbq[j].key /\ dbq[i].att < dbq[j].att =>
    /\ Rank(dbq[i].stage) >= Rank(dbq[j].stage)
    /\ dbq[i].stage = dbq[j].stage => i < j

\* An insert is answered once its flush has, or has had, an answer.
IsAnswered(k) ==
  \/ k \in acked \cup dead
  \/ flush.seq = k /\ AtWork
  \/ flush.seq = k /\ flush.phase = "waiting" /\ \E r \in replies : r.att = flush.att

\* Of an answered insert only attempts at their last query are left.
Answered == \A k \in Keys : IsAnswered(k) =>
  /\ \A i \in 1..Len(dbq) : dbq[i].key = k => dbq[i].stage = "insert"
  /\ \A m \in net : m.key # k

\* No attempt of k is in the server's hands.
NoItems(k) == \A i \in 1..Len(dbq) : dbq[i].key # k

Receipts ==
  /\ \A k \in Keys : keyed[k] <= 1 /\ (k \in receipts => keyed[k] = 1)
  /\ \A k \in Keys : keyed[k] = 1 /\ k \notin receipts => k \in acked \cup dead /\ NoItems(k)

\* What a prune that is still to run may delete: receipts of inserts that are
\* resolved, with no attempt behind the prune; or nothing.
Watermark == \A i \in 1..Len(dbq), k \in Keys :
  dbq[i].stage = "prune" /\ k < dbq[i].through =>
    \/ k \in acked \cup dead /\ \A j \in 1..Len(dbq) : dbq[j].key = k => j < i
    \/ keyed[k] = 0 /\ \A j \in 1..Len(dbq) : dbq[j].key = k => j > i /\ dbq[j].stage = "prune"

WatermarkSent == \A m \in net :
  /\ m.through <= m.key
  /\ \A k \in Keys : k < m.through =>
       k \in acked \cup dead \/ (keyed[k] = 0 /\ NoItems(k))

\* An insert not yet in the queue, or not yet in the holder's memory, has
\* not been sent.
NotSent(k) ==
  \/ k \notin queued \cup acked \cup dead
  \/ flush.phase # "idle" /\ k \in queued /\ k \notin mem /\ ~(AtWork /\ k = flush.seq)

Fresh == \A k \in Keys : NotSent(k) => keyed[k] = 0 /\ NoItems(k)

IInv == /\ Types /\ Places /\ Attempts /\ Order /\ Answered
        /\ Receipts /\ Watermark /\ WatermarkSent /\ Fresh

-----------------------------------------------------------------------------
(* Types.                                                                  *)

Item == [att : Nat, key : Keys \cup {0}, through : Nat, stage : {"prune", "claim", "insert"}]

LEMMA ItemTypes ==
  ASSUME TypeOK
  PROVE  /\ dbq \in Seq(Item) /\ Len(dbq) \in Nat
         /\ \A i \in 1..Len(dbq) : dbq[i] \in Item
BY ElementOfSeq, LenProperties DEF TypeOK, Item

\* The flush record keeps its type whatever a step puts in it.
LEMMA TypesInit == Init => Types
BY ReceiptConstants DEF Init, Types, TypeOK, Idle, Keys, AtWork

LEMMA TypesStep == Types /\ [Next]_vars => Types'
<1> SUFFICES ASSUME Types, [Next]_vars PROVE Types'
  OBVIOUS
<1> USE ReceiptConstants DEF Types, AtWork
<1>t. TypeOK
  OBVIOUS
<1>i. dbq \in Seq(Item) /\ \A i \in 1..Len(dbq) : dbq[i] \in Item
  BY <1>t, ItemTypes
<1>1. CASE Create
  <2>1. \A m \in net' : m \in Request /\ m.key \in Keys \cup {0}
    BY <1>1, <1>t DEF Create, TypeOK, Request
  <2>2. creates' \in 0..MaxCreates /\ create' \in Nat /\ nextAtt' \in Nat \ {0}
    BY <1>1, <1>t DEF Create, TypeOK
  <2>3. nextSeq' + (IF create' = 0 THEN 0 ELSE 1) <= creates' + 1
    BY <1>1, <1>t DEF Create, TypeOK
  <2>. QED BY <2>1, <2>2, <2>3, <1>1, <1>t DEF Create, TypeOK, server
<1>2. CASE CreateAnswered
  BY <1>2, <1>t DEF CreateAnswered, TypeOK, server, client
<1>3. CASE CreateFails
  <2>1. nextSeq \in Keys /\ create' = 0 /\ nextSeq' \in Nat \ {0} /\ nextSeq' <= creates' + 1
    BY <1>3, <1>t DEF CreateFails, TypeOK, Keys
  <2>2. capturing' \subseteq Keys /\ plainOf' \in [Keys -> Nat]
    BY <2>1, <1>3, <1>t DEF CreateFails, TypeOK
  <2>3. net' \subseteq net /\ replies' \subseteq replies
    BY <1>3 DEF CreateFails, Abandoned
  <2>4. UNCHANGED <<creates, faults, nextAtt, queued, acked, dead, mem, flush, dbq, receipts,
                    keyed, plain>>
    BY <1>3 DEF CreateFails, server
  <2>5. create' \in Nat /\ nextSeq' + (IF create' = 0 THEN 0 ELSE 1) <= creates' + 1
    BY <2>1
  <2>6. /\ \A m \in net' : m \in Request /\ m.key \in Keys \cup {0}
        /\ \A r \in replies' : r \in [att : Nat, ok : BOOLEAN]
    BY <2>3, <1>t DEF TypeOK
  <2>. QED BY <2>1, <2>2, <2>4, <2>5, <2>6, <1>t DEF TypeOK
<1>4. CASE CreateCrash
  <2>1. create' = 0 /\ nextSeq' <= creates' + 1 /\ faults' \in 0..MaxFaults
    BY <1>4, <1>t DEF CreateCrash, TypeOK, Fault, client
  <2>2. net' \subseteq net /\ replies' \subseteq replies
    BY <1>4 DEF CreateCrash, Abandoned
  <2>. QED BY <2>1, <2>2, <1>4, <1>t DEF CreateCrash, TypeOK, server, client
<1>5. ASSUME NEW s \in Keys, CapturePersisted(s) PROVE Types'
  BY <1>5, <1>t DEF CapturePersisted, TypeOK, server
<1>6. ASSUME NEW s \in Keys, CaptureCrash(s) PROVE Types'
  BY <1>6, <1>t DEF CaptureCrash, TypeOK, Fault, server
<1>7. ASSUME NEW s \in Keys, FlushSend(s) PROVE Types'
  <2>1. Min(mem) \in Nat
    <3>1. mem \in SUBSET Nat /\ mem # {}
      BY <1>7, <1>t DEF FlushSend, TypeOK, Keys
    <3>. QED BY <3>1, MinOf
  <2>2. \A m \in net' : m \in Request /\ m.key \in Keys \cup {0}
    <3>1. s \in Nat
      BY DEF Keys
    <3>. QED BY <2>1, <3>1, <1>7, <1>t DEF FlushSend, TypeOK, Request
  <2>3. flush' \in [phase : {"idle", "holding", "waiting", "acking", "burying"},
                   att : Nat, seq : Keys \cup {0}] /\ flush'.seq \in Keys
    BY <1>7, <1>t DEF FlushSend, TypeOK
  <2>4. nextAtt' \in Nat \ {0}
    BY <1>7, <1>t DEF FlushSend, TypeOK
  <2>. QED BY <2>2, <2>3, <2>4, <1>7, <1>t DEF FlushSend, TypeOK, server, client
<1>8. CASE AcquireLock
  BY <1>8, <1>t DEF AcquireLock, TypeOK, server
<1>9. CASE FlushAnswered
  BY <1>9, <1>t DEF FlushAnswered, TypeOK, server
<1>10. CASE FlushPersisted
  BY <1>10, <1>t DEF FlushPersisted, TypeOK, Idle, server
<1>11. CASE FlushLost
  BY <1>11, <1>t DEF FlushLost, TypeOK, Idle, Fault, Abandoned, server
<1>12. CASE ReleaseLock
  BY <1>12, <1>t DEF ReleaseLock, TypeOK, Idle, server
<1>13. CASE PageCrash
  BY <1>13, <1>t DEF PageCrash, TypeOK, Idle, Fault, Abandoned, server
<1>14. ASSUME NEW m \in net, Arrive(m) PROVE Types'
  <2>1. [att |-> m.att, key |-> m.key, through |-> m.through,
         stage |-> IF m.key = 0 THEN "insert" ELSE "prune"] \in Item
    BY <1>t DEF TypeOK, Request, Item
  <2>2. dbq' \in Seq(Item)
    BY <1>14, <1>i, <2>1, Push DEF Arrive
  <2>. QED BY <2>2, <1>14, <1>t DEF Arrive, TypeOK, Item, client
<1>15. ASSUME NEW stage \in {"claim", "insert"}, dbq # <<>>, Continue(stage)
       PROVE  dbq' \in Seq(Item)
  <2>1. Head(dbq) \in Item
    BY <1>15, <1>i, DropHead
  <2>2. [Head(dbq) EXCEPT !.stage = stage] \in Item
    BY <2>1 DEF Item
  <2>. QED BY <1>15, <1>i, <2>2, Rotate DEF Continue
<1>16. ASSUME dbq # <<>>, dbq' = Tail(dbq)
       PROVE  dbq' \in Seq(Item) /\ Head(dbq) \in Item
  BY <1>16, <1>i, DropHead
<1>17. ASSUME NEW a \in Nat, NEW ok \in BOOLEAN, Answer(a, ok)
       PROVE  \A r \in replies' : r \in [att : Nat, ok : BOOLEAN]
  BY <1>17, <1>t DEF Answer, TypeOK
<1>18. CASE ExecPrune
  <2>1. dbq' \in Seq(Item)
    BY <1>18, <1>15 DEF ExecPrune, NextQuery
  <2>. QED BY <2>1, <1>18, <1>t DEF ExecPrune, TypeOK, Item, client
<1>19. CASE ExecClaim
  <2>1. dbq' \in Seq(Item)
    BY <1>19, <1>15, <1>16 DEF ExecClaim, NextQuery
  <2>2. Head(dbq) \in Item
    BY <1>19, <1>i, DropHead DEF ExecClaim, NextQuery
  <2>3. \A r \in replies' : r \in [att : Nat, ok : BOOLEAN]
    BY <1>19, <2>2, <1>17, <1>t DEF ExecClaim, TypeOK, Item
  <2>. QED BY <2>1, <2>3, <1>19, <1>t DEF ExecClaim, TypeOK, Item, client
<1>20. CASE ExecKeyedInsert
  <2>1. dbq' \in Seq(Item) /\ Head(dbq) \in Item
    BY <1>20, <1>16 DEF ExecKeyedInsert, NextQuery
  <2>2. \A r \in replies' : r \in [att : Nat, ok : BOOLEAN]
    BY <1>20, <2>1, <1>17 DEF ExecKeyedInsert, Item
  <2>3. receipts' \subseteq Keys /\ keyed' \in [Keys -> Nat]
    <3>1. Head(dbq).key \in Keys
      BY <1>20, <2>1 DEF ExecKeyedInsert, Item
    <3>2. CASE Head(dbq).key \in receipts
      BY <1>20, <3>2, <1>t DEF ExecKeyedInsert, TypeOK
    <3>3. CASE Head(dbq).key \notin receipts
      <4>1. /\ receipts' = receipts \cup {Head(dbq).key}
            /\ keyed' = [keyed EXCEPT ![Head(dbq).key] = @ + 1]
        BY <1>20, <3>3 DEF ExecKeyedInsert
      <4>. QED BY <3>1, <4>1, <1>t DEF TypeOK
    <3>. QED BY <3>2, <3>3
  <2>. QED BY <2>1, <2>2, <2>3, <1>20, <1>t DEF ExecKeyedInsert, TypeOK, Item, client
<1>21. CASE ExecPlainInsert
  <2>1. dbq' \in Seq(Item) /\ Head(dbq) \in Item
    BY <1>21, <1>16 DEF ExecPlainInsert, NextQuery
  <2>2. \A r \in replies' : r \in [att : Nat, ok : BOOLEAN]
    BY <1>21, <2>1, <1>17 DEF ExecPlainInsert, Item
  <2>. QED BY <2>1, <2>2, <1>21, <1>t DEF ExecPlainInsert, TypeOK, Item, client
<1>22. CASE ExecRefused
  <2>1. dbq' \in Seq(Item) /\ Head(dbq) \in Item
    BY <1>22, <1>16 DEF ExecRefused, NextQuery
  <2>2. \A r \in replies' : r \in [att : Nat, ok : BOOLEAN]
    BY <1>22, <2>1, <1>17 DEF ExecRefused, Item
  <2>. QED BY <2>1, <2>2, <1>22, <1>t DEF ExecRefused, TypeOK, Item, client
<1>23. CASE ServerCrash
  <2>1. dbq' \in Seq(Item)
    BY <1>23 DEF ServerCrash
  <2>. QED BY <2>1, <1>23, <1>t DEF ServerCrash, TypeOK, Item, Fault, client
<1>24. CASE UNCHANGED vars
  BY <1>24, <1>t DEF vars, TypeOK
<1>. QED
  BY <1>1, <1>2, <1>3, <1>4, <1>5, <1>6, <1>7, <1>8, <1>9, <1>10, <1>11, <1>12, <1>13,
     <1>14, <1>18, <1>19, <1>20, <1>21, <1>22, <1>23, <1>24 DEF Next

\* The type invariant of the receipts protocol, whatever the network does.
THEOREM ReceiptsTyped == Spec => []TypeOK
<1>1. Types => TypeOK
  BY DEF Types
<1>. QED BY <1>1, TypesInit, TypesStep, PTL DEF Spec

-----------------------------------------------------------------------------
(* Steps of the client that leave the server alone.                         *)

LEMMA QuietServer ==
  ASSUME IInv, UNCHANGED <<dbq, keyed, receipts>>, net' \subseteq net,
         acked \cup dead \subseteq acked' \cup dead',
         \A k \in Keys : IsAnswered(k)' => IsAnswered(k),
         \A k \in Keys : NotSent(k)' => NotSent(k)
  PROVE  Order' /\ Answered' /\ Receipts' /\ Watermark' /\ WatermarkSent' /\ Fresh'
<1>1. Order'
  BY DEF IInv, Order
<1>2. Answered'
  BY DEF IInv, Answered
<1>3. Receipts'
  BY DEF IInv, Receipts, NoItems
<1>4. Watermark'
  BY DEF IInv, Watermark
<1>5. WatermarkSent'
  BY DEF IInv, WatermarkSent, NoItems
<1>6. Fresh'
  BY DEF IInv, Fresh, NoItems
<1>. QED BY <1>1, <1>2, <1>3, <1>4, <1>5, <1>6

LEMMA QuietAttempts ==
  ASSUME TypeOK, Attempts, UNCHANGED <<dbq, nextAtt>>, net' \subseteq net, replies' \subseteq replies,
         create' \in {create, 0}, flush'.att \in {flush.att, 0},
         \/ flush' = flush
         \/ flush'.phase # "waiting" /\ \A m \in net' : m.key = 0
  PROVE  Attempts'
<1>1. create \in Nat /\ nextAtt \in Nat \ {0} /\ flush.att \in Nat
  BY DEF TypeOK
<1>2. /\ create' < nextAtt' /\ flush'.att < nextAtt'
      /\ flush'.phase = "waiting" => flush'.att # 0
  BY <1>1 DEF Attempts
<1>3. /\ \A m \in net' : m.att < nextAtt' /\ m.att # 0
      /\ \A i \in 1..Len(dbq') : dbq'[i].att < nextAtt' /\ dbq'[i].att # 0
      /\ \A r \in replies' : r.att < nextAtt'
  BY DEF Attempts
<1>4. /\ \A i, j \in 1..Len(dbq') : dbq'[i].att = dbq'[j].att => i = j
      /\ \A m \in net', i \in 1..Len(dbq') : m.att # dbq'[i].att
      /\ \A m, n \in net' : m.att = n.att => m = n
      /\ \A r \in replies', m \in net' : r.att # m.att
      /\ \A r \in replies', i \in 1..Len(dbq') : r.att # dbq'[i].att
  BY DEF Attempts
<1>5. /\ \A m \in net' : m.key # 0 =>
           flush'.phase = "waiting" /\ m.att = flush'.att /\ m.key = flush'.seq
      /\ flush'.phase = "waiting" => \A i \in 1..Len(dbq') :
           /\ dbq'[i].att = flush'.att => dbq'[i].key = flush'.seq
           /\ dbq'[i].key = flush'.seq => dbq'[i].att <= flush'.att
      /\ flush'.phase = "waiting" => \A m \in net' : m.att = flush'.att => m.key = flush'.seq
  BY DEF Attempts
<1>. QED BY <1>2, <1>3, <1>4, <1>5 DEF Attempts

\* A flush that ends unanswered leaves no keyed request on its way.
LEMMA NothingLeft ==
  ASSUME TypeOK, Attempts, Bounded, Abandoned(flush.att)
  PROVE  net' \subseteq net /\ replies' \subseteq replies /\ \A m \in net' : m.key = 0
BY DEF Attempts, Bounded, Abandoned

LEMMA KeyedOnlyWhileWaiting ==
  ASSUME Attempts, flush.phase # "waiting"
  PROVE  \A m \in net : m.key = 0
BY DEF Attempts

LEMMA CreateAnsweredInv ==
  ASSUME IInv, Types', CreateAnswered
  PROVE  IInv'
<1>1. Places'
  BY DEF CreateAnswered, IInv, Places, OnePlace, AtWork, client
<1>2. Attempts'
  BY QuietAttempts DEF CreateAnswered, IInv, Types, server
<1>3. Order' /\ Answered' /\ Receipts' /\ Watermark' /\ WatermarkSent' /\ Fresh'
  BY QuietServer DEF CreateAnswered, IsAnswered, NotSent, AtWork, client, server
<1>. QED BY <1>1, <1>2, <1>3 DEF IInv

LEMMA CreateFailsInv ==
  ASSUME IInv, Types', CreateFails
  PROVE  IInv'
<1>1. net' \subseteq net /\ replies' \subseteq replies
  BY DEF CreateFails, Abandoned
<1>2. Places'
  <2>1. \A k \in capturing \cup queued \cup acked \cup dead : k \in Nat /\ k < nextSeq
    BY DEF IInv, Types, TypeOK, Places, OnePlace, Keys
  <2>2. \A k \in capturing' \cup queued' \cup acked' \cup dead' : k < nextSeq'
    BY <2>1 DEF CreateFails, IInv, Types, TypeOK
  <2>3. OnePlace'
    <3>1. nextSeq \notin queued \cup acked \cup dead
      <4>1. nextSeq \in Nat
        BY DEF IInv, Types, TypeOK
      <4>. QED BY <2>1, <4>1
    <3>. QED BY <2>2, <3>1 DEF CreateFails, IInv, Places, OnePlace
  <2>. QED BY <2>3 DEF CreateFails, IInv, Places, AtWork
<1>3. Attempts'
  BY <1>1, QuietAttempts DEF CreateFails, IInv, Types, server
<1>4. Order' /\ Answered' /\ Receipts' /\ Watermark' /\ WatermarkSent' /\ Fresh'
  BY <1>1, QuietServer DEF CreateFails, IsAnswered, NotSent, AtWork, server
<1>. QED BY <1>2, <1>3, <1>4 DEF IInv

LEMMA CreateCrashInv ==
  ASSUME IInv, Types', CreateCrash
  PROVE  IInv'
<1>1. net' \subseteq net /\ replies' \subseteq replies
  BY DEF CreateCrash, Abandoned
<1>2. Places'
  BY DEF CreateCrash, IInv, Places, OnePlace, AtWork, client
<1>3. Attempts'
  BY <1>1, QuietAttempts DEF CreateCrash, IInv, Types, server
<1>4. Order' /\ Answered' /\ Receipts' /\ Watermark' /\ WatermarkSent' /\ Fresh'
  BY <1>1, QuietServer DEF CreateCrash, IsAnswered, NotSent, AtWork, client, server
<1>. QED BY <1>2, <1>3, <1>4 DEF IInv

LEMMA CapturePersistedInv ==
  ASSUME IInv, Types', NEW s \in Keys, CapturePersisted(s)
  PROVE  IInv'
<1>1. Places'
  BY DEF CapturePersisted, IInv, Places, OnePlace, AtWork
<1>2. Attempts'
  BY QuietAttempts DEF CapturePersisted, IInv, Types, server
<1>3. s \notin queued \cup acked \cup dead
  BY DEF CapturePersisted, IInv, Places, OnePlace
<1>4. \A k \in Keys : NotSent(k)' => NotSent(k)
  BY <1>3 DEF CapturePersisted, NotSent, AtWork
<1>5. \A k \in Keys : IsAnswered(k)' => IsAnswered(k)
  BY DEF CapturePersisted, IsAnswered, AtWork
<1>6. Order' /\ Answered' /\ Receipts' /\ Watermark' /\ WatermarkSent' /\ Fresh'
  BY <1>4, <1>5, QuietServer DEF CapturePersisted, server
<1>. QED BY <1>1, <1>2, <1>6 DEF IInv

LEMMA CaptureCrashInv ==
  ASSUME IInv, Types', NEW s \in Keys, CaptureCrash(s)
  PROVE  IInv'
<1>1. Places'
  BY DEF CaptureCrash, IInv, Places, OnePlace, AtWork
<1>2. Attempts'
  BY QuietAttempts DEF CaptureCrash, IInv, Types, server
<1>3. Order' /\ Answered' /\ Receipts' /\ Watermark' /\ WatermarkSent' /\ Fresh'
  BY QuietServer DEF CaptureCrash, IsAnswered, NotSent, AtWork, server
<1>. QED BY <1>1, <1>2, <1>3 DEF IInv

LEMMA AcquireLockInv ==
  ASSUME IInv, Types', AcquireLock
  PROVE  IInv'
<1>1. flush'.phase = "holding" /\ flush'.att = flush.att /\ flush'.seq = flush.seq
  BY DEF AcquireLock, IInv, Types, TypeOK
<1>2. Places'
  BY <1>1 DEF AcquireLock, IInv, Places, OnePlace, AtWork
<1>3. Attempts'
  BY <1>1, QuietAttempts, KeyedOnlyWhileWaiting DEF AcquireLock, IInv, Types, server
<1>4. Order' /\ Answered' /\ Receipts' /\ Watermark' /\ WatermarkSent' /\ Fresh'
  BY <1>1, QuietServer DEF AcquireLock, IsAnswered, NotSent, AtWork, server
<1>. QED BY <1>2, <1>3, <1>4 DEF IInv

LEMMA FlushAnsweredInv ==
  ASSUME IInv, Types', FlushAnswered
  PROVE  IInv'
<1>1. PICK r \in replies : r.att = flush.att /\ replies' = replies \ {r}
                           /\ flush' = [flush EXCEPT !.phase = IF r.ok THEN "acking" ELSE "burying"]
  BY DEF FlushAnswered
<1>2. /\ flush'.phase \in {"acking", "burying"} /\ flush'.att = flush.att
      /\ flush'.seq = flush.seq /\ flush.phase = "waiting"
  BY <1>1 DEF FlushAnswered, IInv, Types, TypeOK
<1>3. \A m \in net : m.key = 0
  BY <1>1, <1>2 DEF IInv, Attempts
<1>4. Places'
  BY <1>2 DEF FlushAnswered, IInv, Places, OnePlace, AtWork
<1>5. Attempts'
  BY <1>1, <1>2, <1>3, QuietAttempts DEF FlushAnswered, IInv, Types, server
<1>6. \A k \in Keys : (IsAnswered(k)' => IsAnswered(k)) /\ (NotSent(k)' => NotSent(k))
  BY <1>1, <1>2 DEF FlushAnswered, IsAnswered, NotSent, AtWork
<1>7. Order' /\ Answered' /\ Receipts' /\ Watermark' /\ WatermarkSent' /\ Fresh'
  BY <1>6, QuietServer DEF FlushAnswered, server
<1>. QED BY <1>4, <1>5, <1>7 DEF IInv

LEMMA FlushPersistedInv ==
  ASSUME IInv, Types', FlushPersisted
  PROVE  IInv'
<1>1. flush'.phase = "holding" /\ flush'.att = 0 /\ flush'.seq = 0
  BY DEF FlushPersisted, Idle
<1>2. AtWork /\ flush.phase # "waiting" /\ flush.seq \in Keys
  BY DEF FlushPersisted, AtWork, IInv, Types
<1>3. acked' \cup dead' = (acked \cup dead) \cup {flush.seq}
  BY DEF FlushPersisted
<1>4. Places'
  <2>1. flush.seq \in queued /\ flush.seq \notin mem
    BY <1>2 DEF IInv, Places
  <2>2. OnePlace'
    BY <2>1 DEF FlushPersisted, IInv, Places, OnePlace
  <2>. QED BY <1>1, <2>1, <2>2 DEF FlushPersisted, IInv, Places, AtWork
<1>5. Attempts'
  BY <1>1, <1>2, QuietAttempts, KeyedOnlyWhileWaiting DEF FlushPersisted, IInv, Types, server
<1>6. \A k \in Keys : (IsAnswered(k)' => IsAnswered(k)) /\ (NotSent(k)' => NotSent(k))
  BY <1>1, <1>2, <1>3 DEF FlushPersisted, IsAnswered, NotSent, AtWork
<1>7. Order' /\ Answered' /\ Receipts' /\ Watermark' /\ WatermarkSent' /\ Fresh'
  BY <1>3, <1>6, QuietServer DEF FlushPersisted, server
<1>. QED BY <1>4, <1>5, <1>7 DEF IInv

\* The lock holder stops, whatever it was doing.
LEMMA HolderStops ==
  ASSUME IInv, Types', Bounded, flush' = Idle, mem' = {},
         \/ Abandoned(flush.att)
         \/ flush.phase # "waiting" /\ UNCHANGED <<net, replies>>,
         UNCHANGED <<creates, nextAtt, create, nextSeq, capturing, queued, acked, dead,
                     plainOf, server>>
  PROVE  IInv'
<1>1. flush'.phase = "idle" /\ flush'.att = 0 /\ flush'.seq = 0
  BY DEF Idle
<1>2. net' \subseteq net /\ replies' \subseteq replies /\ \A m \in net' : m.key = 0
  BY NothingLeft, KeyedOnlyWhileWaiting DEF IInv, Types
<1>3. Places'
  BY <1>1 DEF IInv, Places, OnePlace, AtWork
<1>4. Attempts'
  BY <1>1, <1>2, QuietAttempts DEF IInv, Types, server
<1>5. \A k \in Keys : (IsAnswered(k)' => IsAnswered(k)) /\ (NotSent(k)' => NotSent(k))
  BY <1>1 DEF IsAnswered, NotSent, AtWork
<1>6. Order' /\ Answered' /\ Receipts' /\ Watermark' /\ WatermarkSent' /\ Fresh'
  BY <1>2, <1>5, QuietServer DEF server
<1>. QED BY <1>3, <1>4, <1>6 DEF IInv

LEMMA FlushLostInv ==
  ASSUME IInv, Types', Bounded, FlushLost
  PROVE  IInv'
BY HolderStops DEF FlushLost

LEMMA ReleaseLockInv ==
  ASSUME IInv, Types', Bounded, ReleaseLock
  PROVE  IInv'
BY HolderStops DEF ReleaseLock

LEMMA PageCrashInv ==
  ASSUME IInv, Types', Bounded, PageCrash
  PROVE  IInv'
BY HolderStops DEF PageCrash

-----------------------------------------------------------------------------
(* Steps that put a request on its way.                                     *)

LEMMA AttemptTypes ==
  ASSUME TypeOK
  PROVE  /\ nextAtt \in Nat \ {0} /\ create \in Nat /\ flush.att \in Nat
         /\ \A m \in net : m.att \in Nat
         /\ \A i \in 1..Len(dbq) : dbq[i].att \in Nat
         /\ \A r \in replies : r.att \in Nat
BY ItemTypes DEF TypeOK, Request, Item

LEMMA NewAttempt ==
  ASSUME TypeOK, Attempts, NEW new, new.att = nextAtt,
         net' = net \cup {new}, nextAtt' = nextAtt + 1, UNCHANGED <<dbq, replies>>,
         create' \in {create, nextAtt},
         \/ flush' = flush /\ new.key = 0
         \/ /\ flush'.att = nextAtt /\ flush'.phase = "waiting" /\ flush'.seq = new.key
            /\ \A m \in net : m.key = 0
  PROVE  Attempts'
<1>. USE AttemptTypes
<1>1. /\ \A m \in net : m.att < nextAtt
      /\ \A i \in 1..Len(dbq) : dbq[i].att < nextAtt
      /\ \A r \in replies : r.att < nextAtt
  BY DEF Attempts
<1>2. create' < nextAtt' /\ flush'.att < nextAtt' /\ (flush'.phase = "waiting" => flush'.att # 0)
  BY DEF Attempts
<1>3. /\ \A m \in net' : m.att < nextAtt' /\ m.att # 0
      /\ \A i \in 1..Len(dbq) : dbq[i].att < nextAtt' /\ dbq[i].att # 0
      /\ \A r \in replies : r.att < nextAtt'
  BY <1>1 DEF Attempts
<1>4. \A m \in net' : m.key # 0 =>
        flush'.phase = "waiting" /\ m.att = flush'.att /\ m.key = flush'.seq
  BY DEF Attempts
<1>5. /\ \A i, j \in 1..Len(dbq) : dbq[i].att = dbq[j].att => i = j
      /\ \A m \in net', i \in 1..Len(dbq) : m.att # dbq[i].att
      /\ \A m, n \in net' : m.att = n.att => m = n
      /\ \A r \in replies, m \in net' : r.att # m.att
      /\ \A r \in replies, i \in 1..Len(dbq) : r.att # dbq[i].att
  BY <1>1 DEF Attempts
<1>6. flush'.phase = "waiting" => \A i \in 1..Len(dbq) :
        /\ dbq[i].att = flush'.att => dbq[i].key = flush'.seq
        /\ dbq[i].key = flush'.seq => dbq[i].att <= flush'.att
  <2>1. CASE flush' = flush
    BY <2>1 DEF Attempts
  <2>2. CASE flush'.att = nextAtt
    <3>1. \A i \in 1..Len(dbq) : dbq[i].att < nextAtt
      BY DEF Attempts
    <3>. QED BY <2>2, <3>1
  <2>. QED BY <2>1, <2>2
<1>7. flush'.phase = "waiting" => \A m \in net' : m.att = flush'.att => m.key = flush'.seq
  BY <1>1 DEF Attempts
<1>. QED BY <1>2, <1>3, <1>4, <1>5, <1>6, <1>7 DEF Attempts

LEMMA CreateInv ==
  ASSUME IInv, Types', Create
  PROVE  IInv'
<1>. DEFINE new == [att |-> nextAtt, key |-> 0, through |-> 0]
<1>1. net' = net \cup {new} /\ new.att = nextAtt /\ new.key = 0 /\ new.through = 0
  BY DEF Create
<1>2. Places'
  BY DEF Create, IInv, Places, OnePlace, AtWork
<1>3. Attempts'
  <2>1. nextAtt \in Nat \ {0} /\ nextAtt' = nextAtt + 1 /\ create' = nextAtt
    BY DEF Create, IInv, Types, TypeOK
  <2>2. UNCHANGED <<flush, dbq, replies>>
    BY DEF Create, server
  <2>. HIDE DEF new
  <2>. QED BY <1>1, <2>1, <2>2, NewAttempt DEF IInv, Types
<1>4. \A k \in Keys : k # 0
  BY DEF Keys
<1>5. Answered'
  BY <1>1, <1>4 DEF Create, IInv, Answered, IsAnswered, AtWork, server
<1>6. WatermarkSent'
  <2>1. \A k \in Keys : ~(k < new.through)
    BY DEF Keys
  <2>. QED BY <1>1, <2>1 DEF Create, IInv, WatermarkSent, NoItems, server
<1>7. Order' /\ Receipts' /\ Watermark' /\ Fresh'
  <2>1. \A k \in Keys : NotSent(k)' => NotSent(k)
    BY DEF Create, NotSent, AtWork
  <2>. QED BY <2>1 DEF Create, IInv, Order, Receipts, Watermark, Fresh, NoItems, server
<1>. QED BY <1>2, <1>3, <1>5, <1>6, <1>7 DEF IInv

LEMMA FlushSendInv ==
  ASSUME IInv, Types', NEW s \in Keys, FlushSend(s)
  PROVE  IInv'
<1>. DEFINE new == [att |-> nextAtt, key |-> s, through |-> Min(mem)]
<1>1. net' = net \cup {new} /\ new.att = nextAtt /\ new.key = s /\ new.through = Min(mem)
  BY DEF FlushSend
<1>2. Min(mem) \in Nat /\ Min(mem) <= s /\ \A k \in Keys : k < Min(mem) => k \notin mem
  <2>1. mem \in SUBSET Nat /\ mem # {}
    BY DEF FlushSend, IInv, Types, TypeOK, Keys
  <2>2. Min(mem) \in mem /\ \A k \in mem : Min(mem) <= k
    BY <2>1, MinOf
  <2>3. \A k \in Keys : k \in Nat
    BY DEF Keys
  <2>4. s \in mem
    BY DEF FlushSend
  <2>. HIDE DEF new
  <2>5. \A k \in mem, w \in Nat : w <= k /\ k \in Nat => ~(k < w)
    OBVIOUS
  <2>6. Min(mem) \in Nat
    BY <2>1, <2>2
  <2>7. \A k \in Keys : k < Min(mem) => k \notin mem
    BY <2>2, <2>3, <2>5, <2>6
  <2>. QED BY <2>2, <2>4, <2>6, <2>7
<1>3. /\ flush.phase = "holding" /\ s \in mem /\ s # 0
      /\ flush'.phase = "waiting" /\ flush'.att = nextAtt /\ flush'.seq = s
  BY DEF FlushSend, Keys
<1>4. \A m \in net : m.key = 0
  BY <1>3, KeyedOnlyWhileWaiting DEF IInv
<1>5. s \in queued /\ s \notin acked \cup dead
  BY <1>3 DEF IInv, Places, OnePlace
<1>. HIDE DEF new
<1>6. Places'
  BY <1>3, <1>5 DEF FlushSend, client, IInv, Places, OnePlace, AtWork
<1>7. Attempts'
  <2>1. nextAtt \in Nat \ {0} /\ nextAtt' = nextAtt + 1 /\ UNCHANGED <<create, dbq, replies>>
    BY DEF FlushSend, server, IInv, Types, TypeOK
  <2>. QED BY <1>1, <1>3, <1>4, <2>1, NewAttempt DEF IInv, Types
<1>8. Answered'
  <2>1. \A r \in replies : r.att < nextAtt /\ r.att \in Nat /\ nextAtt \in Nat
    BY DEF IInv, Attempts, Types, TypeOK
  <2>2. \A k \in Keys : IsAnswered(k)' => k \in acked \cup dead
    BY <1>3, <2>1 DEF FlushSend, client, server, IsAnswered, AtWork
  <2>. QED BY <1>1, <1>4, <1>5, <2>2 DEF FlushSend, client, server, IInv, Answered, IsAnswered
<1>9. WatermarkSent'
  <2>1. \A k \in Keys : k < new.through => k \in acked \cup dead \/ NotSent(k)
    BY <1>1, <1>2, <1>3 DEF NotSent, AtWork
  <2>2. \A k \in Keys : k < new.through =>
           k \in acked \cup dead \/ (keyed[k] = 0 /\ NoItems(k))
    BY <2>1 DEF IInv, Fresh
  <2>. QED BY <1>1, <1>2, <2>2 DEF FlushSend, client, server, IInv, WatermarkSent, NoItems
<1>10. Order' /\ Receipts' /\ Watermark' /\ Fresh'
  <2>1. \A k \in Keys : NotSent(k)' => NotSent(k)
    BY <1>3 DEF FlushSend, client, NotSent, AtWork
  <2>. QED BY <2>1 DEF FlushSend, client, server, IInv, Order, Receipts, Watermark, Fresh, NoItems
<1>. QED BY <1>6, <1>7, <1>8, <1>9, <1>10 DEF IInv

-----------------------------------------------------------------------------
(* Steps of the server.                                                    *)

LEMMA ArriveInv ==
  ASSUME IInv, Types', NEW m \in net, Arrive(m)
  PROVE  IInv'
<1>. DEFINE x == [att |-> m.att, key |-> m.key, through |-> m.through,
                  stage |-> IF m.key = 0 THEN "insert" ELSE "prune"]
            n == Len(dbq)
<1>1. x \in Item /\ m.key \in Keys \cup {0} /\ m.att \in Nat /\ m.through \in Nat
  BY DEF IInv, Types, TypeOK, Request, Item
<1>2. /\ x.att = m.att /\ x.key = m.key /\ x.through = m.through
      /\ m.key # 0 => x.stage = "prune"
  OBVIOUS
<1>3. /\ Len(dbq') = n + 1 /\ dbq'[n + 1] = x /\ \A i \in 1..n : dbq'[i] = dbq[i]
      /\ n \in Nat /\ 1..(n + 1) = 1..n \cup {n + 1}
      /\ \A i \in 1..n : i < n + 1 /\ i # n + 1 /\ ~(n + 1 < i) /\ i \in Nat
  <2>1. dbq \in Seq(Item) /\ n \in Nat
    BY ItemTypes DEF IInv, Types
  <2>. QED BY <2>1, <1>1, Push DEF Arrive
<1>. HIDE DEF x, n
<1>4. /\ net' = net \ {m} /\ UNCHANGED <<nextAtt, create, flush, replies, receipts, keyed>>
      /\ UNCHANGED <<capturing, queued, acked, dead, mem, nextSeq>>
  BY DEF Arrive, client
<1>5. m.key # 0 => flush.phase = "waiting" /\ m.att = flush.att /\ m.key = flush.seq
  BY DEF IInv, Attempts
<1>6. \A i \in 1..n : m.key # 0 /\ dbq[i].key = m.key => dbq[i].att < m.att
  <2>1. \A i \in 1..n : dbq[i].att # m.att /\ dbq[i].att \in Nat
    BY AttemptTypes DEF IInv, Types, Attempts, n
  <2>2. \A i \in 1..n : m.key # 0 /\ dbq[i].key = m.key => dbq[i].att <= m.att
    BY <1>5 DEF IInv, Attempts, n
  <2>. QED BY <2>1, <2>2, <1>1
<1>7. \A k \in Keys : k \in acked \cup dead => k # m.key
  BY DEF IInv, Answered, IsAnswered
<1>8. \A k \in Keys : k # m.key /\ NoItems(k) => NoItems(k)'
  BY <1>2, <1>3 DEF NoItems, n
<1>9. Places'
  BY <1>4 DEF IInv, Places, OnePlace, AtWork
<1>10. Attempts'
  <2>1. flush.phase = "waiting" => \A i \in 1..(n + 1) :
          /\ dbq'[i].att = flush.att => dbq'[i].key = flush.seq
          /\ dbq'[i].key = flush.seq => dbq'[i].att <= flush.att
    <3>1. CASE flush.phase = "waiting"
      <4>1. m.att = flush.att => m.key = flush.seq
        BY <3>1 DEF IInv, Attempts
      <4>2. m.key = flush.seq => m.att <= flush.att
        BY <1>5, <1>1, <3>1, AttemptTypes DEF IInv, Types, Keys, AtWork
      <4>. QED BY <3>1, <4>1, <4>2, <1>2, <1>3 DEF IInv, Attempts, n
    <3>. QED BY <3>1
  <2>2. \A i \in 1..(n + 1) : dbq'[i].att < nextAtt /\ dbq'[i].att # 0
    BY <1>2, <1>3 DEF IInv, Attempts, n
  <2>3. \A i, j \in 1..(n + 1) : dbq'[i].att = dbq'[j].att => i = j
    BY <1>2, <1>3 DEF IInv, Attempts, n
  <2>4. \A p \in net', i \in 1..(n + 1) : p.att # dbq'[i].att
    BY <1>2, <1>3, <1>4 DEF IInv, Attempts, n
  <2>5. \A r \in replies, i \in 1..(n + 1) : r.att # dbq'[i].att
    BY <1>2, <1>3 DEF IInv, Attempts, n
  <2>. QED BY <2>1, <2>2, <2>3, <2>4, <2>5, <1>3, <1>4 DEF IInv, Attempts
<1>11. Order'
  <2>. SUFFICES ASSUME NEW i \in 1..(n + 1), NEW j \in 1..(n + 1),
                       dbq'[i].key # 0, dbq'[i].key = dbq'[j].key, dbq'[i].att < dbq'[j].att
                PROVE  /\ Rank(dbq'[i].stage) >= Rank(dbq'[j].stage)
                       /\ dbq'[i].stage = dbq'[j].stage => i < j
    BY <1>3 DEF Order
  <2>1. CASE i \in 1..n /\ j \in 1..n
    BY <2>1, <1>3 DEF IInv, Order, n
  <2>2. CASE i \in 1..n /\ j = n + 1
    BY <2>2, <1>2, <1>3 DEF Rank
  <2>3. CASE i = n + 1
    <3>1. j \in 1..n => FALSE
      <4>1. j \in 1..n => dbq[j].att < m.att /\ m.att < dbq[j].att /\ dbq[j].att \in Nat
        BY <2>3, <1>2, <1>3, <1>6, AttemptTypes DEF IInv, Types, n
      <4>. QED BY <4>1, <1>1
    <3>2. j = n + 1 => FALSE
      BY <2>3, <1>1, <1>2, <1>3
    <3>. QED BY <3>1, <3>2, <1>3
  <2>. QED BY <2>1, <2>2, <2>3, <1>3
<1>12. Answered'
  <2>1. \A k \in Keys : IsAnswered(k)' <=> IsAnswered(k)
    BY <1>4 DEF IsAnswered, AtWork
  <2>2. \A k \in Keys : IsAnswered(k) => m.key # k
    BY DEF IInv, Answered
  <2>. QED BY <2>1, <2>2, <1>2, <1>3, <1>4 DEF IInv, Answered, n
<1>13. Receipts'
  BY <1>4, <1>7, <1>8 DEF IInv, Receipts
<1>14. Watermark'
  <2>. SUFFICES ASSUME NEW i \in 1..(n + 1), NEW k \in Keys,
                       dbq'[i].stage = "prune", k < dbq'[i].through
                PROVE  \/ k \in acked \cup dead /\ \A j \in 1..(n + 1) : dbq'[j].key = k => j < i
                       \/ /\ keyed[k] = 0
                          /\ \A j \in 1..(n + 1) : dbq'[j].key = k => j > i /\ dbq'[j].stage = "prune"
    BY <1>3, <1>4 DEF Watermark
  <2>1. CASE i \in 1..n
    <3>1. CASE k \in acked \cup dead /\ \A j \in 1..n : dbq[j].key = k => j < i
      BY <2>1, <3>1, <1>2, <1>3, <1>7
    <3>2. CASE keyed[k] = 0 /\ \A j \in 1..n : dbq[j].key = k => j > i /\ dbq[j].stage = "prune"
      <4>1. k # 0
        BY DEF Keys
      <4>. QED BY <2>1, <3>2, <4>1, <1>2, <1>3
    <3>. QED BY <2>1, <3>1, <3>2, <1>3 DEF IInv, Watermark, n
  <2>2. CASE i = n + 1
    <3>1. k < m.through /\ m.through <= m.key
      BY <2>2, <1>2, <1>3 DEF IInv, WatermarkSent
    <3>2. m.key # k
      BY <3>1, <1>1 DEF Keys
    <3>3. k \in acked \cup dead \/ (keyed[k] = 0 /\ NoItems(k))
      BY <3>1 DEF IInv, WatermarkSent
    <3>. QED BY <2>2, <3>2, <3>3, <1>2, <1>3 DEF NoItems, n
  <2>. QED BY <2>1, <2>2, <1>3
<1>15. WatermarkSent'
  <2>. SUFFICES ASSUME NEW p \in net', NEW k \in Keys, k < p.through,
                       keyed[k] = 0 /\ NoItems(k)
                PROVE  m.key # k
    BY <1>4, <1>8 DEF IInv, WatermarkSent
  <2>1. p \in net /\ p # m
    BY <1>4
  <2>2. p.key # 0
    <3>1. p.through <= p.key /\ p.through \in Nat /\ p.key \in Nat
      BY <2>1 DEF IInv, WatermarkSent, Types, TypeOK, Request
    <3>. QED BY <3>1 DEF Keys
  <2>3. m.key = k => p.att = m.att
    BY <2>1, <2>2, <1>5 DEF IInv, Attempts, Keys
  <2>. QED BY <2>1, <2>3 DEF IInv, Attempts
<1>16. Fresh'
  <2>1. \A k \in Keys : NotSent(k)' <=> NotSent(k)
    BY <1>4 DEF NotSent, AtWork
  <2>2. \A k \in Keys : NotSent(k) => k # m.key
    BY <1>5 DEF NotSent, IInv, Places, AtWork, Keys
  <2>. QED BY <2>1, <2>2, <1>4, <1>8 DEF IInv, Fresh
<1>. QED BY <1>9, <1>10, <1>11, <1>12, <1>13, <1>14, <1>15, <1>16 DEF IInv

\* A query that ends its handler: the head leaves the queue, and its answer,
\* if any, is for its own attempt.  It does not end before its last query
\* unless a receipt says so.
Leaves == /\ dbq # <<>> /\ dbq' = Tail(dbq)
          /\ UNCHANGED <<client, nextAtt, create, flush, net>>
          /\ \A r \in replies' : r \in replies \/ r.att = Head(dbq).att
          /\ Head(dbq).stage # "prune"
          /\ Head(dbq).stage = "claim" => Head(dbq).key \in receipts

LEMMA HeadLeaves ==
  ASSUME TypeOK, dbq # <<>>, dbq' = Tail(dbq)
  PROVE  /\ Len(dbq) \in Nat /\ Head(dbq) = dbq[1] /\ 1 \in 1..Len(dbq) /\ dbq[1] \in Item
         /\ Len(dbq') = Len(dbq) - 1
         /\ \A i \in 1..Len(dbq') : dbq'[i] = dbq[i + 1] /\ i + 1 \in 1..Len(dbq)
                                    /\ i \in Nat /\ i + 1 # 1
BY DropHead, ItemTypes

LEMMA LeavesInv ==
  ASSUME IInv, Leaves
  PROVE  /\ Places' /\ Attempts' /\ Order' /\ Answered'
         /\ \A k \in Keys : NoItems(k) => NoItems(k)'
         /\ \A k \in Keys : NotSent(k)' <=> NotSent(k)
<1>1. /\ 1 \in 1..Len(dbq) /\ Head(dbq) = dbq[1] /\ dbq[1] \in Item
      /\ Len(dbq) \in Nat /\ Len(dbq') = Len(dbq) - 1
      /\ \A i \in 1..Len(dbq') : dbq'[i] = dbq[i + 1] /\ i + 1 \in 1..Len(dbq) /\ i \in Nat /\ i + 1 # 1
  BY HeadLeaves DEF Leaves, IInv, Types
<1>2. /\ UNCHANGED <<create, flush, net, nextAtt, capturing, queued, acked, dead, mem, nextSeq>>
      /\ \A r \in replies' : r \in replies \/ r.att = dbq[1].att
  BY <1>1 DEF Leaves, client
<1>3. Places'
  BY <1>2 DEF IInv, Places, OnePlace, AtWork
<1>4. Attempts'
  <2>1. /\ \A i, j \in 1..Len(dbq) : dbq[i].att = dbq[j].att => i = j
        /\ \A m \in net, i \in 1..Len(dbq) : m.att # dbq[i].att
        /\ \A r \in replies, i \in 1..Len(dbq) : r.att # dbq[i].att
        /\ \A i \in 1..Len(dbq) : dbq[i].att < nextAtt
    BY DEF IInv, Attempts
  <2>2. \A i, j \in 1..Len(dbq') : dbq'[i].att = dbq'[j].att => i = j
    BY <1>1, <2>1
  <2>3. \A r \in replies' : r.att < nextAtt /\ \A m \in net : r.att # m.att
    BY <1>1, <1>2, <2>1 DEF IInv, Attempts
  <2>4. \A r \in replies', i \in 1..Len(dbq') : r.att # dbq'[i].att
    BY <1>1, <1>2, <2>1
  <2>. QED BY <1>1, <1>2, <2>1, <2>2, <2>3, <2>4 DEF IInv, Attempts
<1>5. Order'
  BY <1>1 DEF IInv, Order
<1>6. Answered'
  <2>. SUFFICES ASSUME NEW k \in Keys, IsAnswered(k)'
                PROVE  /\ \A i \in 1..Len(dbq) : i # 1 /\ dbq[i].key = k => dbq[i].stage = "insert"
                       /\ \A m \in net : m.key # k
    <3>1. \A i \in 1..Len(dbq') :
            \E j \in 1..Len(dbq) : j # 1 /\ dbq'[i].key = dbq[j].key /\ dbq'[i].stage = dbq[j].stage
      BY <1>1
    <3>. QED BY <1>2, <3>1 DEF Answered
  <2>1. CASE IsAnswered(k)
    BY <2>1 DEF IInv, Answered
  <2>2. CASE ~IsAnswered(k)
    <3>1. flush.phase = "waiting" /\ flush.seq = k /\ dbq[1].att = flush.att /\ k # 0
      BY <2>2, <1>2 DEF IsAnswered, AtWork, Keys
    <3>2. dbq[1].key = k /\ \A i \in 1..Len(dbq) : dbq[i].key = k => dbq[i].att <= dbq[1].att
      BY <3>1, <1>1 DEF IInv, Attempts
    <3>3. ASSUME NEW i \in 1..Len(dbq), i # 1, dbq[i].key = k PROVE dbq[i].stage = "insert"
      <4>1. dbq[i].att < dbq[1].att
        <5>1. dbq[i].att # dbq[1].att
          BY <3>3, <1>1 DEF IInv, Attempts
        <5>. QED BY <5>1, <3>2, <3>3, <1>1, AttemptTypes DEF IInv, Types
      <4>2. /\ Rank(dbq[i].stage) >= Rank(dbq[1].stage)
            /\ dbq[i].stage = dbq[1].stage => i < 1
        BY <3>1, <3>2, <3>3, <4>1, <1>1 DEF IInv, Order
      <4>3. \/ dbq[i].stage \in {"prune", "claim", "insert"} /\ dbq[i].stage # dbq[1].stage
            \/ dbq[i].stage = "insert"
        <5>1. dbq[i] \in Item
          BY ItemTypes DEF IInv, Types
        <5>. QED BY <5>1, <4>2, <3>3 DEF Item
      <4>4. dbq[1].stage \in {"claim", "insert"}
        BY <1>1 DEF Leaves, Item
      <4>. QED BY <4>2, <4>3, <4>4 DEF Rank
    <3>4. \A m \in net : m.key # k
      BY <3>1, <1>1 DEF IInv, Attempts
    <3>. QED BY <3>3, <3>4
  <2>. QED BY <2>1, <2>2
<1>7. \A k \in Keys : NoItems(k) => NoItems(k)'
  BY <1>1 DEF NoItems
<1>8. \A k \in Keys : NotSent(k)' <=> NotSent(k)
  BY <1>2 DEF NotSent, AtWork
<1>. QED BY <1>3, <1>4, <1>5, <1>6, <1>7, <1>8

\* It changes what is known of the key it worked on, and nothing else.
LEMMA LeavesReceipts ==
  ASSUME IInv, Leaves,
         \/ UNCHANGED <<receipts, keyed>>
         \/ /\ Head(dbq).key \in Keys /\ Head(dbq).key \notin receipts
            /\ Head(dbq).stage = "insert"
            /\ receipts' = receipts \cup {Head(dbq).key}
            /\ keyed' = [keyed EXCEPT ![Head(dbq).key] = @ + 1]
  PROVE  Receipts' /\ Watermark' /\ WatermarkSent' /\ Fresh'
<1>. DEFINE c == Head(dbq).key
<1>1. /\ 1 \in 1..Len(dbq) /\ Head(dbq) = dbq[1] /\ dbq[1] \in Item
      /\ Len(dbq) \in Nat /\ Len(dbq') = Len(dbq) - 1
      /\ \A i \in 1..Len(dbq') : dbq'[i] = dbq[i + 1] /\ i + 1 \in 1..Len(dbq) /\ i \in Nat /\ i + 1 # 1
  BY HeadLeaves DEF Leaves, IInv, Types
<1>2. UNCHANGED <<flush, net, queued, acked, dead, mem>>
  BY DEF Leaves, client
<1>3. /\ \A k \in Keys : NoItems(k) => NoItems(k)' /\ k # c
      /\ \A k \in Keys : NotSent(k)' <=> NotSent(k)
  <2>1. \A k \in Keys : NoItems(k) => k # c
    BY <1>1 DEF NoItems
  <2>. QED BY <2>1, LeavesInv
<1>4. keyed \in [Keys -> Nat] /\ \A k \in Keys : k # c => keyed'[k] = keyed[k] /\ (k \in receipts' <=> k \in receipts)
  BY DEF IInv, Types, TypeOK
<1>. HIDE DEF c
<1>5. Receipts'
  <2>1. c \in Keys => /\ keyed'[c] <= 1 /\ (c \in receipts' => keyed'[c] = 1)
                      /\ ~(keyed'[c] = 1 /\ c \notin receipts')
    <3>1. c \in Keys => ~NoItems(c)
      BY <1>3
    <3>2. c \in Keys => (keyed[c] = 1 <=> c \in receipts) /\ keyed[c] \in {0, 1}
      BY <3>1, <1>4 DEF IInv, Receipts
    <3>. QED BY <3>2, <1>4 DEF c
  <2>2. ASSUME NEW k \in Keys
        PROVE  /\ keyed'[k] <= 1 /\ (k \in receipts' => keyed'[k] = 1)
               /\ keyed'[k] = 1 /\ k \notin receipts' => k \in acked' \cup dead' /\ NoItems(k)'
    <3>1. CASE k # c
      BY <3>1, <1>2, <1>3, <1>4 DEF IInv, Receipts
    <3>2. CASE k = c
      BY <2>1, <3>2
    <3>. QED BY <3>1, <3>2
  <2>. QED BY <2>2 DEF Receipts
<1>6. Watermark'
  <2>. SUFFICES ASSUME NEW i \in 1..Len(dbq'), NEW k \in Keys,
                       dbq'[i].stage = "prune", k < dbq'[i].through
                PROVE  \/ k \in acked \cup dead /\ \A j \in 1..Len(dbq') : dbq'[j].key = k => j < i
                       \/ /\ keyed'[k] = 0
                          /\ \A j \in 1..Len(dbq') : dbq'[j].key = k => j > i /\ dbq'[j].stage = "prune"
    BY <1>2 DEF Watermark
  <2>1. i + 1 \in 1..Len(dbq) /\ dbq[i + 1].stage = "prune" /\ k < dbq[i + 1].through
    BY <1>1
  <2>2. \A j \in 1..Len(dbq') : /\ (j < i <=> j + 1 < i + 1) /\ (j > i <=> j + 1 > i + 1)
    BY <1>1
  <2>3. CASE k \in acked \cup dead /\ \A j \in 1..Len(dbq) : dbq[j].key = k => j < i + 1
    BY <2>2, <2>3, <1>1
  <2>4. CASE /\ keyed[k] = 0
             /\ \A j \in 1..Len(dbq) : dbq[j].key = k => j > i + 1 /\ dbq[j].stage = "prune"
    <3>1. keyed'[k] = 0
      <4>1. k # c
        BY <2>4, <1>1 DEF c
      <4>. QED BY <2>4, <4>1, <1>4
    <3>2. ASSUME NEW j \in 1..Len(dbq'), dbq'[j].key = k
          PROVE  j > i /\ dbq'[j].stage = "prune"
      BY <2>2, <2>4, <3>2, <1>1
    <3>. QED BY <3>1, <3>2
  <2>. QED BY <2>1, <2>3, <2>4 DEF IInv, Watermark
<1>7. WatermarkSent'
  BY <1>2, <1>3, <1>4 DEF IInv, WatermarkSent
<1>8. Fresh'
  BY <1>3, <1>4 DEF IInv, Fresh
<1>. QED BY <1>5, <1>6, <1>7, <1>8

LEMMA AnswerLeaves ==
  ASSUME NEW a, NEW ok, Answer(a, ok)
  PROVE  \A r \in replies' : r \in replies \/ r.att = a
BY DEF Answer

LEMMA ExecInsertInv ==
  ASSUME IInv, Types', ExecKeyedInsert \/ ExecPlainInsert \/ ExecRefused
  PROVE  IInv'
<1>1. dbq # <<>> /\ dbq' = Tail(dbq) /\ Head(dbq).stage = "insert"
  BY DEF ExecKeyedInsert, ExecPlainInsert, ExecRefused, NextQuery
<1>2. \A r \in replies' : r \in replies \/ r.att = Head(dbq).att
  BY AnswerLeaves DEF ExecKeyedInsert, ExecPlainInsert, ExecRefused
<1>3. Leaves
  BY <1>1, <1>2 DEF Leaves, ExecKeyedInsert, ExecPlainInsert, ExecRefused
<1>4. Receipts' /\ Watermark' /\ WatermarkSent' /\ Fresh'
  <2>1. CASE ExecPlainInsert \/ ExecRefused
    BY <2>1, <1>3, LeavesReceipts DEF ExecPlainInsert, ExecRefused
  <2>2. CASE ExecKeyedInsert
    <3>1. Head(dbq).key \in Keys
      BY <2>2, <1>1, HeadLeaves DEF ExecKeyedInsert, Item, IInv, Types
    <3>. QED BY <2>2, <3>1, <1>1, <1>3, LeavesReceipts DEF ExecKeyedInsert
  <2>. QED BY <2>1, <2>2
<1>. QED BY <1>3, <1>4, LeavesInv DEF IInv

\* A query that is followed by another: the handler goes to the end of the
\* queue, one stage on.  No attempt of an answered insert does.
Rotates(from, to) ==
  /\ NextQuery(from) /\ Continue(to)
  /\ UNCHANGED <<client, nextAtt, create, flush, net, replies, keyed>>

LEMMA RotateInv ==
  ASSUME IInv, NEW from, NEW to, <<from, to>> \in {<<"prune", "claim">>, <<"claim", "insert">>},
         Rotates(from, to)
  PROVE  /\ Places' /\ Attempts' /\ Order' /\ Answered' /\ Watermark'
         /\ WatermarkSent' /\ Fresh' /\ \A k \in Keys : NoItems(k) => NoItems(k)'
<1>. DEFINE n == Len(dbq)
            x == [dbq[1] EXCEPT !.stage = to]
<1>1. /\ n \in Nat \ {0} /\ dbq # <<>> /\ Head(dbq) = dbq[1] /\ dbq[1] \in Item /\ 1 \in 1..n
      /\ dbq \in Seq(Item) /\ dbq[1].stage = from
  BY DropHead, ItemTypes DEF Rotates, NextQuery, IInv, Types
<1>2. /\ x \in Item /\ x.att = dbq[1].att /\ x.key = dbq[1].key /\ x.stage = to
      /\ x.through = dbq[1].through
  BY <1>1 DEF Item
<1>3. /\ Len(dbq') = n /\ dbq'[n] = x /\ \A i \in 1..(n - 1) : dbq'[i] = dbq[i + 1]
  <2>1. dbq' = Append(Tail(dbq), x)
    BY <1>1 DEF Rotates, Continue
  <2>. HIDE DEF x
  <2>. QED BY <2>1, <1>1, <1>2, Rotate
<1>. HIDE DEF n, x
<1>4. /\ \A i \in 1..n : i = n \/ (i \in 1..(n - 1) /\ i < n)
      /\ \A i \in 1..(n - 1) : i + 1 \in 1..n /\ i + 1 # 1 /\ ~(i + 1 < 1) /\ i \in Nat
      /\ \A i, j \in 1..(n - 1) : (i + 1 < j + 1 <=> i < j) /\ (i + 1 = j + 1 <=> i = j)
      /\ \A i \in 1..(n - 1) : i < n /\ ~(i = n) /\ ~(n < i)
  BY <1>1
<1>4s. \A i \in 1..n : dbq[i].stage \in {"prune", "claim", "insert"}
  BY ItemTypes DEF IInv, Types, Item, n
<1>5. /\ UNCHANGED <<create, flush, net, nextAtt, capturing, queued, acked, dead, mem, nextSeq>>
      /\ UNCHANGED <<replies, keyed>>
  BY DEF Rotates, client
<1>6. \A k \in Keys : IsAnswered(k) => dbq[1].key # k
  BY <1>1 DEF IInv, Answered, n
<1>7. Places'
  BY <1>5 DEF IInv, Places, OnePlace, AtWork
<1>8. Attempts'
  <2>1. \A i \in 1..n : \E j \in 1..n : dbq'[i].att = dbq[j].att /\ dbq'[i].key = dbq[j].key
    <3>1. \A i \in 1..(n - 1) : i + 1 \in 1..n /\ dbq'[i] = dbq[i + 1]
      BY <1>3, <1>4
    <3>2. dbq'[n].att = dbq[1].att /\ dbq'[n].key = dbq[1].key /\ 1 \in 1..n
      BY <1>1, <1>2, <1>3
    <3>3. \A i \in 1..n : i = n \/ i \in 1..(n - 1)
      BY <1>4
    <3>. QED BY <3>1, <3>2, <3>3
  <2>2. \A i, j \in 1..n : dbq'[i].att = dbq'[j].att => i = j
    BY <1>1, <1>2, <1>3, <1>4 DEF IInv, Attempts, n
  <2>3. /\ \A i \in 1..n : dbq'[i].att < nextAtt /\ dbq'[i].att # 0
        /\ \A m \in net, i \in 1..n : m.att # dbq'[i].att
        /\ \A r \in replies, i \in 1..n : r.att # dbq'[i].att
    <3>1. /\ \A i \in 1..n : dbq[i].att < nextAtt /\ dbq[i].att # 0
          /\ \A m \in net, i \in 1..n : m.att # dbq[i].att
          /\ \A r \in replies, i \in 1..n : r.att # dbq[i].att
      BY DEF IInv, Attempts, n
    <3>2. ASSUME NEW i \in 1..n
          PROVE  /\ dbq'[i].att < nextAtt /\ dbq'[i].att # 0
                 /\ \A m \in net : m.att # dbq'[i].att
                 /\ \A r \in replies : r.att # dbq'[i].att
      <4>1. PICK j \in 1..n : dbq'[i].att = dbq[j].att
        BY <2>1
      <4>. QED BY <3>1, <4>1
    <3>. QED BY <3>2
  <2>4. flush.phase = "waiting" => \A i \in 1..n :
          /\ dbq'[i].att = flush.att => dbq'[i].key = flush.seq
          /\ dbq'[i].key = flush.seq => dbq'[i].att <= flush.att
    BY <2>1 DEF IInv, Attempts, n
  <2>. QED BY <2>2, <2>3, <2>4, <1>3, <1>5 DEF IInv, Attempts
<1>9. Order'
  <2>. SUFFICES ASSUME NEW i \in 1..n, NEW j \in 1..n,
                       dbq'[i].key # 0, dbq'[i].key = dbq'[j].key, dbq'[i].att < dbq'[j].att
                PROVE  /\ Rank(dbq'[i].stage) >= Rank(dbq'[j].stage)
                       /\ dbq'[i].stage = dbq'[j].stage => i < j
    BY <1>3 DEF Order
  <2>0. \A a, b \in 1..n : dbq[a].key # 0 /\ dbq[a].key = dbq[b].key /\ dbq[a].att < dbq[b].att =>
          /\ Rank(dbq[a].stage) >= Rank(dbq[b].stage)
          /\ dbq[a].stage = dbq[b].stage => a < b
    BY DEF IInv, Order, n
  <2>1. CASE i # n /\ j # n
    <3>1. /\ i + 1 \in 1..n /\ j + 1 \in 1..n /\ (i + 1 < j + 1 <=> i < j)
          /\ dbq'[i] = dbq[i + 1] /\ dbq'[j] = dbq[j + 1]
      BY <2>1, <1>3, <1>4
    <3>. QED BY <3>1, <2>0
  <2>2. CASE i = n /\ j # n
    <3>1. Rank(from) >= Rank(dbq'[j].stage)
      <4>1. /\ dbq[1].key # 0 /\ dbq[1].key = dbq[j + 1].key /\ dbq[1].att < dbq[j + 1].att
            /\ j + 1 \in 1..n /\ dbq'[j] = dbq[j + 1]
        BY <2>2, <1>2, <1>3, <1>4
      <4>. QED BY <4>1, <1>1, <2>0
    <3>2. dbq'[j].stage \in {"prune", "claim", "insert"}
      BY <2>2, <1>3, <1>4, <1>4s
    <3>. QED BY <3>1, <3>2, <2>2, <1>2, <1>3 DEF Rank
  <2>3. CASE i # n /\ j = n
    <3>1. Rank(dbq'[i].stage) >= Rank(from) /\ dbq'[i].stage # from
      <4>1. /\ dbq[i + 1].key # 0 /\ dbq[i + 1].key = dbq[1].key /\ dbq[i + 1].att < dbq[1].att
            /\ i + 1 \in 1..n /\ dbq'[i] = dbq[i + 1] /\ ~(i + 1 < 1)
        <5>1. i \in 1..(n - 1)
          BY <2>3, <1>4
        <5>. QED BY <5>1, <2>3, <1>2, <1>3, <1>4
      <4>. QED BY <4>1, <1>1, <2>0
    <3>2. dbq'[i].stage \in {"prune", "claim", "insert"}
      BY <2>3, <1>3, <1>4, <1>4s
    <3>. QED BY <3>1, <3>2, <2>3, <1>2, <1>3, <1>4 DEF Rank
  <2>4. CASE i = n /\ j = n
    BY <2>4, <1>2, <1>3 DEF Item
  <2>. QED BY <2>1, <2>2, <2>3, <2>4
<1>10. Answered'
  <2>1. \A k \in Keys : IsAnswered(k)' <=> IsAnswered(k)
    BY <1>5 DEF IsAnswered, AtWork
  <2>2. ASSUME NEW k \in Keys, IsAnswered(k)
        PROVE  (\A i \in 1..n : dbq'[i].key = k => dbq'[i].stage = "insert") /\ \A m \in net : m.key # k
    <3>1. /\ \A i \in 1..n : dbq[i].key = k => dbq[i].stage = "insert"
          /\ \A m \in net : m.key # k
      BY <2>2 DEF IInv, Answered, n
    <3>2. dbq[1].key # k
      BY <2>2, <1>6
    <3>. QED BY <3>1, <3>2, <1>2, <1>3, <1>4
  <2>. QED BY <2>1, <2>2, <1>3, <1>5 DEF Answered
<1>11. Watermark'
  <2>. SUFFICES ASSUME NEW i \in 1..n, NEW k \in Keys,
                       dbq'[i].stage = "prune", k < dbq'[i].through
                PROVE  \/ k \in acked \cup dead /\ \A j \in 1..n : dbq'[j].key = k => j < i
                       \/ /\ keyed[k] = 0
                          /\ \A j \in 1..n : dbq'[j].key = k => j > i /\ dbq'[j].stage = "prune"
    BY <1>3, <1>5 DEF Watermark
  <2>1. i \in 1..(n - 1) /\ dbq'[i] = dbq[i + 1]
    BY <1>2, <1>3, <1>4
  <2>2. CASE k \in acked \cup dead /\ \A j \in 1..n : dbq[j].key = k => j < i + 1
    <3>1. dbq[1].key # k
      BY <2>2, <1>6 DEF IsAnswered
    <3>. QED BY <2>1, <2>2, <3>1, <1>2, <1>3, <1>4
  <2>3. CASE keyed[k] = 0 /\ \A j \in 1..n : dbq[j].key = k => j > i + 1 /\ dbq[j].stage = "prune"
    <3>1. dbq[1].key # k
      BY <2>1, <2>3, <1>1, <1>4
    <3>. QED BY <2>1, <2>3, <3>1, <1>2, <1>3, <1>4
  <2>4. i + 1 \in 1..n /\ dbq[i + 1].stage = "prune" /\ k < dbq[i + 1].through
    BY <2>1, <1>4
  <2>5. \/ k \in acked \cup dead /\ \A j \in 1..n : dbq[j].key = k => j < i + 1
        \/ keyed[k] = 0 /\ \A j \in 1..n : dbq[j].key = k => j > i + 1 /\ dbq[j].stage = "prune"
    BY <2>4 DEF IInv, Watermark, n
  <2>. QED BY <2>2, <2>3, <2>5
<1>12. \A k \in Keys : NoItems(k) => NoItems(k)'
  BY <1>1, <1>2, <1>3, <1>4 DEF NoItems, n
<1>13. WatermarkSent' /\ Fresh'
  <2>1. \A k \in Keys : NotSent(k)' <=> NotSent(k)
    BY <1>5 DEF NotSent, AtWork
  <2>. QED BY <2>1, <1>5, <1>12 DEF IInv, WatermarkSent, Fresh
<1>. QED BY <1>7, <1>8, <1>9, <1>10, <1>11, <1>12, <1>13

LEMMA ExecPruneInv ==
  ASSUME IInv, Types', ExecPrune
  PROVE  IInv'
<1>1. Rotates("prune", "claim") /\ UNCHANGED <<acked, dead>>
  BY DEF ExecPrune, Rotates, client
<1>2. 1 \in 1..Len(dbq) /\ Head(dbq) = dbq[1] /\ dbq[1].stage = "prune"
  BY DropHead, ItemTypes DEF ExecPrune, NextQuery, IInv, Types
<1>3. ASSUME NEW k \in Keys, k \in receipts, k < dbq[1].through
      PROVE  k \in acked \cup dead /\ NoItems(k)
  <2>1. keyed[k] # 0
    BY <1>3 DEF IInv, Receipts
  <2>2. k \in acked \cup dead /\ \A j \in 1..Len(dbq) : dbq[j].key = k => j < 1
    BY <1>2, <1>3, <2>1 DEF IInv, Watermark
  <2>. QED BY <2>2 DEF NoItems
<1>4. Receipts'
  <2>1. /\ UNCHANGED keyed /\ receipts' \subseteq receipts
        /\ \A k \in receipts \ receipts' : k < dbq[1].through
    BY <1>2 DEF ExecPrune
  <2>2. \A k \in Keys : keyed[k] = 1 /\ k \notin receipts' => k \in acked \cup dead /\ NoItems(k)
    BY <2>1, <1>3 DEF IInv, Receipts
  <2>. QED BY <2>1, <2>2, <1>1, RotateInv DEF IInv, Receipts
<1>. QED BY <1>1, <1>4, RotateInv DEF IInv

LEMMA ExecClaimInv ==
  ASSUME IInv, Types', ExecClaim
  PROVE  IInv'
<1>1. CASE Head(dbq).key \in receipts
  <2>1. Leaves
    BY <1>1, AnswerLeaves DEF ExecClaim, NextQuery, Leaves
  <2>2. Receipts' /\ Watermark' /\ WatermarkSent' /\ Fresh'
    BY <2>1, LeavesReceipts DEF ExecClaim
  <2>. QED BY <2>1, <2>2, LeavesInv DEF IInv
<1>2. CASE Head(dbq).key \notin receipts
  <2>1. Rotates("claim", "insert") /\ UNCHANGED <<acked, dead, receipts>>
    BY <1>2 DEF ExecClaim, Rotates, client
  <2>2. Receipts'
    BY <2>1, RotateInv DEF IInv, Receipts, Rotates
  <2>. QED BY <2>1, <2>2, RotateInv DEF IInv
<1>. QED BY <1>1, <1>2

LEMMA ServerCrashInv ==
  ASSUME IInv, Types', ServerCrash
  PROVE  IInv'
<1>1. /\ Len(dbq') = 0 /\ 1..Len(dbq') = {} /\ UNCHANGED <<nextAtt, create, flush, net, replies, receipts, keyed>>
      /\ UNCHANGED <<capturing, queued, acked, dead, mem, nextSeq>>
  BY DEF ServerCrash, client
<1>2. Places'
  BY <1>1 DEF IInv, Places, OnePlace, AtWork
<1>3. Attempts'
  BY <1>1 DEF IInv, Attempts
<1>4. Order' /\ Answered' /\ Watermark'
  BY <1>1 DEF IInv, Order, Answered, IsAnswered, Watermark, AtWork
<1>5. Receipts' /\ WatermarkSent' /\ Fresh'
  BY <1>1 DEF IInv, Receipts, WatermarkSent, Fresh, NoItems, NotSent, AtWork
<1>. QED BY <1>2, <1>3, <1>4, <1>5 DEF IInv

-----------------------------------------------------------------------------
(* The invariant, and what follows from it.                                 *)

LEMMA InvInit == Init => IInv
<1>. SUFFICES ASSUME Init PROVE IInv
  OBVIOUS
<1>1. Len(dbq) = 0 /\ 1..Len(dbq) = {}
  BY DEF Init
<1>2. Places /\ Attempts /\ Order /\ Answered
  BY <1>1 DEF Init, Idle, Places, OnePlace, AtWork, Attempts, Order, Answered, IsAnswered
<1>3. Receipts /\ Watermark /\ WatermarkSent /\ Fresh
  BY <1>1 DEF Init, Idle, Receipts, Watermark, WatermarkSent, Fresh, NoItems
<1>. QED BY <1>2, <1>3, TypesInit DEF IInv

LEMMA InvStep == ASSUME Bounded PROVE IInv /\ [Next]_vars => IInv'
<1>. SUFFICES ASSUME IInv, [Next]_vars PROVE IInv'
  OBVIOUS
<1>t. Types'
  BY TypesStep DEF IInv
<1>1. CASE UNCHANGED vars
  <2>1. Places' /\ Attempts' /\ Order' /\ Answered'
    BY <1>1 DEF vars, IInv, Places, OnePlace, AtWork, Attempts, Order, Answered, IsAnswered
  <2>2. Receipts' /\ Watermark' /\ WatermarkSent' /\ Fresh'
    BY <1>1 DEF vars, IInv, Receipts, Watermark, WatermarkSent, Fresh, NoItems, NotSent, AtWork
  <2>. QED BY <1>t, <2>1, <2>2 DEF IInv
<1>2. ASSUME NEW s \in Keys, CapturePersisted(s) \/ CaptureCrash(s) \/ FlushSend(s) PROVE IInv'
  BY <1>t, <1>2, CapturePersistedInv, CaptureCrashInv, FlushSendInv
<1>3. CASE Create \/ CreateAnswered \/ CreateFails \/ CreateCrash
  BY <1>t, <1>3, CreateInv, CreateAnsweredInv, CreateFailsInv, CreateCrashInv
<1>4. CASE AcquireLock \/ FlushAnswered \/ FlushPersisted
  BY <1>t, <1>4, AcquireLockInv, FlushAnsweredInv, FlushPersistedInv
<1>5. CASE FlushLost \/ ReleaseLock \/ PageCrash
  BY <1>t, <1>5, Bounded, FlushLostInv, ReleaseLockInv, PageCrashInv
<1>6. ASSUME NEW m \in net, Arrive(m) PROVE IInv'
  BY <1>t, <1>6, ArriveInv
<1>7. CASE ExecPrune \/ ExecClaim \/ ServerCrash
  BY <1>t, <1>7, ExecPruneInv, ExecClaimInv, ServerCrashInv
<1>8. CASE ExecKeyedInsert \/ ExecPlainInsert \/ ExecRefused
  BY <1>t, <1>8, ExecInsertInv
<1>. QED BY <1>1, <1>2, <1>3, <1>4, <1>5, <1>6, <1>7, <1>8 DEF Next

\* However often a queued insert is resent, over crashes of page and server
\* and lost answers, its key creates at most one row, as long as no request
\* outlives the fetch that sent it.
THEOREM ReceiptsAtMostOnce == ASSUME Bounded PROVE Spec => []AtMostOnce
<1>1. IInv => AtMostOnce
  BY DEF IInv, Receipts, AtMostOnce
<1>2. IInv /\ [Next]_vars => IInv'
  BY Bounded, InvStep
<1>. QED BY <1>1, <1>2, InvInit, PTL DEF Spec

\* A seq is in one place: an entry is never both queued and resolved, nor
\* acknowledged and dead, and no seq is handed out twice.
THEOREM ReceiptsOnePlace == ASSUME Bounded PROVE Spec => []OnePlace
<1>1. IInv => OnePlace
  BY DEF IInv, Places
<1>2. IInv /\ [Next]_vars => IInv'
  BY Bounded, InvStep
<1>. QED BY <1>1, <1>2, InvInit, PTL DEF Spec

\* A pruned receipt is never needed again: its insert is durably resolved, no
\* request carries its key and no handler works on it.
THEOREM ReceiptsPruneSafe == ASSUME Bounded PROVE Spec => []PruneSafe
<1>1. IInv => PruneSafe
  <2>. SUFFICES ASSUME IInv, NEW k \in Keys, keyed[k] >= 1, k \notin receipts
                PROVE  k \in acked \cup dead /\ NoItems(k) /\ \A m \in net : m.key # k
    BY DEF PruneSafe, NoItems
  <2>1. keyed[k] = 1
    BY DEF IInv, Receipts, Types, TypeOK
  <2>2. k \in acked \cup dead /\ NoItems(k)
    BY <2>1 DEF IInv, Receipts
  <2>. QED BY <2>2 DEF IInv, Answered, IsAnswered
<1>2. IInv /\ [Next]_vars => IInv'
  BY Bounded, InvStep
<1>. QED BY <1>1, <1>2, InvInit, PTL DEF Spec

-----------------------------------------------------------------------------
(***************************************************************************)
(* InsertReceipts implements InsertLedger, for any number of creates and    *)
(* faults, of a network whose requests end with the fetch that sent them.   *)
(* IInv says that a key is created once; to see that a row is created only  *)
(* while its insert is open, and acknowledged only after, Acks relates an   *)
(* answer to the row and Settled an answered insert to its receipt.         *)
(***************************************************************************)
\* A good answer, wherever it has got to, is the answer to a created row.
Acks ==
  /\ \A k \in acked : keyed[k] = 1
  /\ flush.phase = "acking" => keyed[flush.seq] = 1
  /\ flush.phase = "waiting" =>
       \A r \in replies : r.att = flush.att /\ r.ok => keyed[flush.seq] = 1

\* While attempts of an answered insert are left, its receipt is.
Settled == \A k \in Keys : IsAnswered(k) /\ k \notin receipts => NoItems(k)

LInv == IInv /\ Acks /\ Settled

-----------------------------------------------------------------------------
(* LInv is inductive.                                                      *)

LEMMA LedgerInit == Init => LInv
<1>. SUFFICES ASSUME Init PROVE LInv
  OBVIOUS
<1>1. Len(dbq) = 0 /\ 1..Len(dbq) = {}
  BY DEF Init
<1>. QED BY <1>1, InvInit DEF Init, Idle, LInv, Acks, Settled, NoItems

\* Steps that create no row, bring no answer and start no handler.
LEMMA QuietLedger ==
  ASSUME LInv, UNCHANGED <<dbq, keyed, receipts>>,
         \A k \in Keys : IsAnswered(k)' => IsAnswered(k),
         acked' = acked, \/ flush' = flush /\ replies' \subseteq replies
                         \/ flush'.phase \in {"idle", "holding", "burying"}
  PROVE  Acks' /\ Settled'
<1>1. Acks'
  BY DEF LInv, Acks
<1>2. Settled'
  BY DEF LInv, Settled, NoItems
<1>. QED BY <1>1, <1>2

LEMMA ClientLedger ==
  ASSUME LInv,
         \/ Create \/ CreateAnswered \/ CreateFails \/ CreateCrash
         \/ \E s \in Keys : CapturePersisted(s) \/ CaptureCrash(s)
         \/ AcquireLock \/ FlushLost \/ ReleaseLock \/ PageCrash
  PROVE  Acks' /\ Settled'
<1>1. CASE AcquireLock
  <2>1. flush'.phase = "holding"
    BY <1>1 DEF AcquireLock, LInv, IInv, Types, TypeOK
  <2>. QED BY <1>1, <2>1, QuietLedger DEF AcquireLock, IsAnswered, AtWork, server
<1>2. CASE FlushLost \/ ReleaseLock \/ PageCrash
  <2>1. flush'.phase = "idle"
    BY <1>2 DEF FlushLost, ReleaseLock, PageCrash, Idle
  <2>. QED BY <1>2, <2>1, QuietLedger DEF FlushLost, ReleaseLock, PageCrash, IsAnswered, AtWork, server
<1>3. CASE Create \/ CreateAnswered \/ CreateFails \/ CreateCrash
  <2>1. UNCHANGED <<flush, acked, dead, dbq, keyed, receipts>> /\ replies' \subseteq replies
    BY <1>3 DEF Create, CreateAnswered, CreateFails, CreateCrash, Abandoned, client, server
  <2>. QED BY <2>1, QuietLedger DEF IsAnswered, AtWork
<1>4. ASSUME NEW s \in Keys, CapturePersisted(s) \/ CaptureCrash(s) PROVE Acks' /\ Settled'
  BY <1>4, QuietLedger DEF CapturePersisted, CaptureCrash, IsAnswered, AtWork, server
<1>. QED BY <1>1, <1>2, <1>3, <1>4

LEMMA FlushLedger ==
  ASSUME LInv, (\E s \in Keys : FlushSend(s)) \/ FlushAnswered \/ FlushPersisted
  PROVE  Acks' /\ Settled'
<1>1. ASSUME NEW s \in Keys, FlushSend(s) PROVE Acks' /\ Settled'
  <2>1. /\ flush'.phase = "waiting" /\ flush'.att = nextAtt
        /\ UNCHANGED <<acked, dead, dbq, keyed, receipts, replies>>
    BY <1>1 DEF FlushSend, client, server
  <2>2. \A r \in replies : r.att # nextAtt
    BY AttemptTypes DEF LInv, IInv, Types, Attempts
  <2>3. \A k \in Keys : IsAnswered(k)' => IsAnswered(k)
    BY <2>1, <2>2 DEF IsAnswered, AtWork
  <2>4. Acks'
    BY <2>1, <2>2 DEF LInv, Acks
  <2>. QED BY <2>1, <2>3, <2>4 DEF LInv, Settled, NoItems
<1>2. CASE FlushAnswered
  <2>1. PICK r \in replies : r.att = flush.att /\ replies' = replies \ {r}
          /\ flush' = [flush EXCEPT !.phase = IF r.ok THEN "acking" ELSE "burying"]
    BY <1>2 DEF FlushAnswered
  <2>2. /\ flush'.phase = IF r.ok THEN "acking" ELSE "burying"
        /\ flush'.seq = flush.seq /\ flush.phase = "waiting"
        /\ UNCHANGED <<acked, dead, dbq, keyed, receipts>>
    BY <1>2, <2>1 DEF FlushAnswered, server, LInv, IInv, Types, TypeOK
  <2>3. Acks'
    BY <2>1, <2>2 DEF LInv, Acks
  <2>4. \A k \in Keys : IsAnswered(k)' => IsAnswered(k)
    BY <2>1, <2>2 DEF IsAnswered, AtWork
  <2>. QED BY <2>2, <2>3, <2>4 DEF LInv, Settled, NoItems
<1>3. CASE FlushPersisted
  <2>1. /\ flush'.phase = "holding" /\ flush'.seq = 0 /\ AtWork
        /\ UNCHANGED <<dbq, keyed, receipts, replies>>
    BY <1>3 DEF FlushPersisted, Idle, server, AtWork
  <2>2. Acks'
    BY <1>3, <2>1 DEF FlushPersisted, LInv, Acks
  <2>3. \A k \in Keys : IsAnswered(k)' => IsAnswered(k)
    BY <1>3, <2>1 DEF FlushPersisted, IsAnswered, AtWork
  <2>. QED BY <2>1, <2>2, <2>3 DEF LInv, Settled, NoItems
<1>. QED BY <1>1, <1>2, <1>3

LEMMA ArriveLedger ==
  ASSUME LInv, NEW m \in net, Arrive(m)
  PROVE  Acks' /\ Settled'
<1>1. UNCHANGED <<flush, acked, dead, keyed, receipts, replies>>
  BY DEF Arrive, client
<1>2. Acks'
  BY <1>1 DEF LInv, Acks
<1>3. Settled'
  <2>. SUFFICES ASSUME NEW k \in Keys, IsAnswered(k), k \notin receipts
                PROVE  NoItems(k)'
    BY <1>1 DEF Settled, IsAnswered, AtWork
  <2>1. m.key # k /\ NoItems(k)
    BY DEF LInv, IInv, Answered, Settled
  <2>. DEFINE x == [att |-> m.att, key |-> m.key, through |-> m.through,
                    stage |-> IF m.key = 0 THEN "insert" ELSE "prune"]
  <2>2. x \in Item /\ x.key = m.key /\ dbq' = Append(dbq, x)
    BY DEF Arrive, LInv, IInv, Types, TypeOK, Request, Item
  <2>. HIDE DEF x
  <2>3. /\ Len(dbq') = Len(dbq) + 1 /\ dbq'[Len(dbq) + 1] = x /\ Len(dbq) \in Nat
        /\ \A i \in 1..Len(dbq) : dbq'[i] = dbq[i]
    BY <2>2, ItemTypes, Push DEF LInv, IInv, Types
  <2>. QED BY <2>1, <2>2, <2>3 DEF NoItems
<1>. QED BY <1>2, <1>3

\* The head is answered: nothing of its key is left unless its receipt is.
LEMMA LastOfItsKey ==
  ASSUME IInv, Leaves, NEW k \in Keys, Head(dbq).key = k, Head(dbq).stage = "insert",
         flush.phase = "waiting", flush.seq = k, Head(dbq).att = flush.att
  PROVE  NoItems(k)'
<1>1. /\ 1 \in 1..Len(dbq) /\ Head(dbq) = dbq[1]
      /\ \A i \in 1..Len(dbq') : dbq'[i] = dbq[i + 1] /\ i + 1 \in 1..Len(dbq) /\ i \in Nat /\ i + 1 # 1
  BY HeadLeaves DEF Leaves, IInv, Types
<1>2. ASSUME NEW i \in 1..Len(dbq), i # 1, dbq[i].key = k PROVE FALSE
  <2>1. dbq[i].att < dbq[1].att
    <3>1. dbq[i].att <= flush.att /\ dbq[i].att # dbq[1].att
      BY <1>1, <1>2 DEF IInv, Attempts
    <3>. QED BY <3>1, <1>1, AttemptTypes DEF IInv, Types
  <2>2. Rank(dbq[i].stage) >= Rank(dbq[1].stage) /\ (dbq[i].stage = dbq[1].stage => i < 1)
    BY <1>1, <1>2, <2>1 DEF IInv, Order, Keys
  <2>3. dbq[i].stage \in {"prune", "claim", "insert"}
    BY ItemTypes DEF IInv, Types, Item
  <2>. QED BY <1>1, <2>2, <2>3 DEF Rank
<1>. QED BY <1>1, <1>2 DEF NoItems

\* A handler that ends.  Its answer, if good, is for a row that exists.
LEMMA LeavesLedger ==
  ASSUME LInv, Leaves, receipts \subseteq receipts',
         NEW ok \in BOOLEAN, Answer(Head(dbq).att, ok),
         \A k \in Keys : keyed[k] = 1 => keyed'[k] = 1,
         ok /\ Head(dbq).key # 0 => keyed'[Head(dbq).key] = 1
  PROVE  Acks' /\ Settled'
<1>1. UNCHANGED <<flush, acked, dead>>
  BY DEF Leaves, client
<1>2. /\ 1 \in 1..Len(dbq) /\ Head(dbq) = dbq[1] /\ dbq[1] \in Item
  BY HeadLeaves DEF Leaves, LInv, IInv, Types
<1>3. \A r \in replies' : r \in replies \/ (r.att = dbq[1].att /\ r.ok = ok)
  BY <1>2 DEF Answer
<1>4. flush.phase = "waiting" /\ dbq[1].att = flush.att =>
        dbq[1].key = flush.seq /\ flush.seq \in Keys
  BY <1>2 DEF LInv, IInv, Types, Attempts
<1>5. Acks'
  <2>1. flush.phase \in {"waiting", "acking"} => flush.seq \in Keys
    BY DEF LInv, IInv, Types, AtWork
  <2>2. \A k \in acked' : keyed'[k] = 1
    BY <1>1 DEF LInv, Acks, IInv, Types, TypeOK
  <2>3. flush'.phase = "acking" => keyed'[flush'.seq] = 1
    BY <1>1, <2>1 DEF LInv, Acks
  <2>4. ASSUME flush.phase = "waiting", NEW r \in replies', r.att = flush.att, r.ok
        PROVE  keyed'[flush.seq] = 1
    <3>1. CASE r \in replies
      BY <2>1, <2>4, <3>1 DEF LInv, Acks
    <3>2. CASE r.att = dbq[1].att /\ r.ok = ok
      BY <2>4, <3>2, <1>2, <1>4 DEF Keys
    <3>. QED BY <3>1, <3>2, <1>3
  <2>. QED BY <2>2, <2>3, <2>4, <1>1 DEF Acks
<1>6. Settled'
  <2>. SUFFICES ASSUME NEW k \in Keys, IsAnswered(k)', k \notin receipts'
                PROVE  NoItems(k)'
    BY DEF Settled
  <2>1. CASE IsAnswered(k)
    <3>1. NoItems(k)
      BY <2>1 DEF LInv, Settled
    <3>. QED BY <3>1, LeavesInv DEF LInv
  <2>2. CASE ~IsAnswered(k)
    <3>1. flush.phase = "waiting" /\ flush.seq = k /\ dbq[1].att = flush.att
      BY <2>2, <1>1, <1>3 DEF IsAnswered, AtWork
    <3>2. dbq[1].key = k /\ dbq[1].stage = "insert"
      BY <3>1, <1>2, <1>4 DEF Leaves, Item
    <3>. QED BY <3>1, <3>2, <1>2, LastOfItsKey DEF LInv
  <2>. QED BY <2>1, <2>2
<1>. QED BY <1>5, <1>6

\* An insert without a receipt whose handler is still at work has no row.
LEMMA FirstOfItsKey ==
  ASSUME LInv, ExecKeyedInsert, Head(dbq).key \notin receipts
  PROVE  keyed[Head(dbq).key] = 0
<1>1. 1 \in 1..Len(dbq) /\ Head(dbq) = dbq[1] /\ Head(dbq).key \in Keys
  BY HeadLeaves DEF ExecKeyedInsert, NextQuery, Item, LInv, IInv, Types
<1>2. ~NoItems(Head(dbq).key)
  BY <1>1 DEF NoItems
<1>3. keyed[Head(dbq).key] \in Nat
  BY <1>1 DEF LInv, IInv, Types, TypeOK
<1>. QED BY <1>1, <1>2, <1>3 DEF LInv, IInv, Receipts

LEMMA ServerLedger ==
  ASSUME LInv, ExecPrune \/ ExecClaim \/ ExecKeyedInsert \/ ExecPlainInsert \/ ExecRefused
               \/ ServerCrash
  PROVE  Acks' /\ Settled'
<1>1. ASSUME NEW from, NEW to, <<from, to>> \in {<<"prune", "claim">>, <<"claim", "insert">>},
             Rotates(from, to),
             \A k \in receipts \ receipts' : NoItems(k)
      PROVE  Acks' /\ Settled'
  <2>1. UNCHANGED <<flush, acked, dead, keyed, replies>>
    BY <1>1 DEF Rotates, client
  <2>2. \A k \in Keys : NoItems(k) => NoItems(k)'
    BY <1>1, RotateInv DEF LInv
  <2>3. Acks'
    BY <2>1 DEF LInv, Acks
  <2>4. \A k \in Keys : IsAnswered(k)' => IsAnswered(k)
    BY <2>1 DEF IsAnswered, AtWork
  <2>5. Settled'
    BY <1>1, <2>2, <2>4 DEF LInv, Settled
  <2>. QED BY <2>3, <2>5
<1>2. CASE ExecPrune
  <2>1. Rotates("prune", "claim")
    BY <1>2 DEF ExecPrune, Rotates, client
  <2>2. 1 \in 1..Len(dbq) /\ Head(dbq) = dbq[1] /\ dbq[1].stage = "prune"
    BY <1>2, DropHead, ItemTypes DEF ExecPrune, NextQuery, LInv, IInv, Types
  <2>3. ASSUME NEW k \in receipts \ receipts' PROVE NoItems(k)
    <3>1. k \in Keys /\ k < dbq[1].through /\ keyed[k] # 0
      BY <1>2, <2>2 DEF ExecPrune, LInv, IInv, Types, TypeOK, Receipts
    <3>2. \A j \in 1..Len(dbq) : dbq[j].key = k => j < 1
      BY <2>2, <3>1 DEF LInv, IInv, Watermark
    <3>. QED BY <3>2 DEF NoItems
  <2>. QED BY <1>1, <2>1, <2>3
<1>3. CASE ExecClaim /\ Head(dbq).key \notin receipts
  <2>1. Rotates("claim", "insert") /\ receipts' = receipts
    BY <1>3 DEF ExecClaim, Rotates, client
  <2>. QED BY <1>1, <2>1
<1>4. CASE ExecClaim /\ Head(dbq).key \in receipts
  <2>1. Leaves
    BY <1>4, AnswerLeaves DEF ExecClaim, NextQuery, Leaves
  <2>2. Answer(Head(dbq).att, TRUE) /\ UNCHANGED <<receipts, keyed>>
    BY <1>4 DEF ExecClaim
  <2>3. keyed[Head(dbq).key] = 1
    BY <1>4 DEF LInv, IInv, Receipts, Types, TypeOK
  <2>. QED BY <2>1, <2>2, <2>3, LeavesLedger
<1>5. CASE ExecPlainInsert \/ ExecRefused
  <2>1. Leaves
    BY <1>5, AnswerLeaves DEF ExecPlainInsert, ExecRefused, NextQuery, Leaves
  <2>2. UNCHANGED <<receipts, keyed>>
    BY <1>5 DEF ExecPlainInsert, ExecRefused
  <2>3. CASE ExecPlainInsert
    BY <2>1, <2>2, <2>3, LeavesLedger DEF ExecPlainInsert
  <2>4. CASE ExecRefused
    BY <2>1, <2>2, <2>4, LeavesLedger DEF ExecRefused
  <2>. QED BY <1>5, <2>3, <2>4
<1>6. CASE ExecKeyedInsert
  <2>. DEFINE k == Head(dbq).key
  <2>1. Leaves
    BY <1>6, AnswerLeaves DEF ExecKeyedInsert, NextQuery, Leaves
  <2>2. k \in Keys /\ keyed \in [Keys -> Nat]
    BY <1>6, HeadLeaves DEF ExecKeyedInsert, NextQuery, Item, LInv, IInv, Types, TypeOK
  <2>3. CASE k \in receipts
    <3>1. Answer(Head(dbq).att, FALSE) /\ UNCHANGED <<receipts, keyed>>
      BY <1>6, <2>3 DEF ExecKeyedInsert
    <3>. QED BY <2>1, <3>1, LeavesLedger
  <2>4. CASE k \notin receipts
    <3>1. /\ Answer(Head(dbq).att, TRUE) /\ receipts' = receipts \cup {k}
          /\ keyed' = [keyed EXCEPT ![k] = @ + 1]
      BY <1>6, <2>4 DEF ExecKeyedInsert
    <3>2. keyed[k] = 0
      BY <2>4, FirstOfItsKey, <1>6
    <3>3. keyed'[Head(dbq).key] = 1 /\ \A j \in Keys : keyed[j] = 1 => keyed'[j] = 1
      BY <2>2, <3>1, <3>2
    <3>4. receipts \subseteq receipts' /\ TRUE \in BOOLEAN
      BY <3>1
    <3>. QED BY <2>1, <3>1, <3>3, <3>4, LeavesLedger
  <2>. QED BY <2>3, <2>4
<1>7. CASE ServerCrash
  <2>1. /\ 1..Len(dbq') = {}
        /\ UNCHANGED <<flush, acked, dead, keyed, receipts, replies>>
    BY <1>7 DEF ServerCrash, client
  <2>2. Acks'
    BY <2>1 DEF LInv, Acks
  <2>. QED BY <2>1, <2>2 DEF Settled, NoItems
<1>. QED BY <1>2, <1>3, <1>4, <1>5, <1>6, <1>7

LEMMA LedgerStep == ASSUME Bounded PROVE LInv /\ [Next]_vars => LInv'
<1>. SUFFICES ASSUME LInv, [Next]_vars PROVE LInv'
  OBVIOUS
<1>1. IInv'
  BY InvStep DEF LInv
<1>2. Acks' /\ Settled'
  <2>1. CASE UNCHANGED vars
    BY <2>1 DEF vars, LInv, Acks, Settled, IsAnswered, AtWork, NoItems
  <2>2. CASE \/ Create \/ CreateAnswered \/ CreateFails \/ CreateCrash
             \/ \E s \in Keys : CapturePersisted(s) \/ CaptureCrash(s)
             \/ AcquireLock \/ FlushLost \/ ReleaseLock \/ PageCrash
    BY <2>2, ClientLedger
  <2>3. CASE (\E s \in Keys : FlushSend(s)) \/ FlushAnswered \/ FlushPersisted
    BY <2>3, FlushLedger
  <2>4. CASE \E m \in net : Arrive(m)
    BY <2>4, ArriveLedger
  <2>5. CASE ExecPrune \/ ExecClaim \/ ExecKeyedInsert \/ ExecPlainInsert \/ ExecRefused
             \/ ServerCrash
    BY <2>5, ServerLedger
  <2>. QED BY <2>1, <2>2, <2>3, <2>4, <2>5 DEF Next
<1>. QED BY <1>1, <1>2 DEF LInv

-----------------------------------------------------------------------------
(* Every step is a step of the ledger or a stutter.                        *)

LEMMA StepsMap == LInv /\ [Next]_vars => [Ledger!Next]_(Ledger!vars)
<1>. SUFFICES ASSUME LInv, [Next]_vars PROVE Ledger!Next \/ UNCHANGED <<keyed, Outcome>>
  BY DEF Ledger!vars
<1>1. CASE FlushPersisted
  <2>. DEFINE k == flush.seq
  <2>1. k \in Keys /\ k \in queued /\ k \notin acked \cup dead /\ keyed' = keyed
    BY <1>1 DEF FlushPersisted, server, AtWork, LInv, IInv, Types, Places, OnePlace
  <2>2. Outcome[k] = "open"
    BY <2>1 DEF Outcome
  <2>3. CASE flush.phase = "acking"
    <3>1. acked' = acked \cup {k} /\ dead' = dead
      BY <1>1, <2>3 DEF FlushPersisted
    <3>2. Outcome' = [Outcome EXCEPT ![k] = "acked"]
      BY <2>1, <3>1 DEF Outcome
    <3>3. keyed[k] = 1
      BY <2>3 DEF LInv, Acks
    <3>. QED BY <2>1, <2>2, <3>2, <3>3 DEF Ledger!Next, Ledger!Acknowledge
  <2>4. CASE flush.phase = "burying"
    <3>1. acked' = acked /\ dead' = dead \cup {k}
      BY <1>1, <2>4 DEF FlushPersisted
    <3>2. Outcome' = [Outcome EXCEPT ![k] = "dead"]
      BY <2>1, <3>1 DEF Outcome
    <3>. QED BY <2>1, <2>2, <3>2 DEF Ledger!Next, Ledger!Bury
  <2>. QED BY <1>1, <2>3, <2>4 DEF FlushPersisted
<1>2. CASE ExecKeyedInsert /\ Head(dbq).key \notin receipts
  <2>. DEFINE k == Head(dbq).key
  <2>1. 1 \in 1..Len(dbq) /\ Head(dbq) = dbq[1] /\ k \in Keys
    BY <1>2, HeadLeaves DEF ExecKeyedInsert, NextQuery, Item, LInv, IInv, Types
  <2>2. ~NoItems(k)
    BY <2>1 DEF NoItems
  <2>3. k \notin acked \cup dead
    BY <1>2, <2>1, <2>2 DEF LInv, Settled, IsAnswered
  <2>4. keyed[k] = 0
    BY <1>2, FirstOfItsKey
  <2>5. keyed' = [keyed EXCEPT ![k] = 1] /\ UNCHANGED <<acked, dead>>
    BY <1>2, <2>4 DEF ExecKeyedInsert, client
  <2>6. Outcome[k] = "open" /\ Outcome' = Outcome
    BY <2>1, <2>3, <2>5 DEF Outcome
  <2>. QED BY <2>1, <2>4, <2>5, <2>6 DEF Ledger!Next, Ledger!Commit
<1>3. CASE UNCHANGED <<keyed, acked, dead>>
  BY <1>3 DEF Outcome
<1>4. ASSUME NEW s \in Keys, CapturePersisted(s) \/ CaptureCrash(s) \/ FlushSend(s)
      PROVE  UNCHANGED <<keyed, acked, dead>>
  BY <1>4 DEF CapturePersisted, CaptureCrash, FlushSend, client, server
<1>5. CASE Create \/ CreateAnswered \/ CreateFails \/ CreateCrash
  BY <1>3, <1>5 DEF Create, CreateAnswered, CreateFails, CreateCrash, client, server
<1>6. CASE AcquireLock \/ FlushAnswered \/ FlushLost \/ ReleaseLock \/ PageCrash
  BY <1>3, <1>6 DEF AcquireLock, FlushAnswered, FlushLost, ReleaseLock, PageCrash, server
<1>7. ASSUME NEW m \in net, Arrive(m) PROVE UNCHANGED <<keyed, acked, dead>>
  BY <1>7 DEF Arrive, client
<1>8. CASE \/ ExecPrune \/ ExecClaim \/ ExecPlainInsert \/ ExecRefused \/ ServerCrash
           \/ ExecKeyedInsert /\ Head(dbq).key \in receipts
  BY <1>3, <1>8 DEF ExecPrune, ExecClaim, ExecPlainInsert, ExecRefused, ServerCrash,
                    ExecKeyedInsert, client
<1>9. CASE UNCHANGED vars
  BY <1>3, <1>9 DEF vars
<1>. QED BY <1>1, <1>2, <1>3, <1>4, <1>5, <1>6, <1>7, <1>8, <1>9 DEF Next

\* The protocol implements the ledger: a queued insert's row is created once,
\* while the insert is open, and the insert is acknowledged only after.
THEOREM ReceiptsImplementLedger == ASSUME Bounded PROVE Spec => LedgerSpec
<1>1. Init => Ledger!Init
  BY DEF Init, Ledger!Init, Outcome
<1>2. LInv /\ [Next]_vars => LInv'
  BY Bounded, LedgerStep
<1>3. LInv /\ [Next]_vars => [Ledger!Next]_(Ledger!vars)
  BY StepsMap
<1>. QED BY <1>1, <1>2, <1>3, LedgerInit, PTL DEF Spec, LedgerSpec, Ledger!Spec

\* What the durable queue removes as acknowledged exists on the server.
THEOREM ReceiptsAckedCreated == ASSUME Bounded PROVE Spec => []AckedCreated
<1>1. LInv => AckedCreated
  BY DEF LInv, Acks, AckedCreated, IInv, Types, TypeOK
<1>2. LInv /\ [Next]_vars => LInv'
  BY Bounded, LedgerStep
<1>. QED BY <1>1, <1>2, LedgerInit, PTL DEF Spec

=============================================================================
