------------------------------ MODULE Session -------------------------------
(***************************************************************************)
(* Who a page is, whom its token speaks for, and under which identity its  *)
(* feed listens and its queue is flushed: boot.js (boot, remintToken, send,*)
(* reconnectEvents), frameworkFunctions.js, authServer.js, and the parts   *)
(* of syncClient.js that depend on the identity.  One browser holds one    *)
(* device credential; its tabs log in without each other's knowledge, and  *)
(* the server may restart, which ends every token.                         *)
(*                                                                         *)
(* The database of the queue is opened once, for whom the page shows at    *)
(* boot; the flush lock is named for whom it shows when it is requested.   *)
(* A call is a request the server answers and an answer that arrives;      *)
(* either may be lost.  A request carries the token the page has when it   *)
(* is made, and the server executes it for whom that token speaks for.     *)
(***************************************************************************)
EXTENDS Naturals, FiniteSets

CONSTANTS Tabs, Users, Nobody,
    Before,     \* who may be linked to the device at first
    Budgets     \* bounds on what may happen

Bounded == {"boots", "logins", "edits", "restarts", "faults", "conflicts"}
ASSUME SessionAssumption == /\ Nobody \notin Users /\ Before \subseteq Users \union {Nobody}
                            /\ Budgets \subseteq [Bounded -> Nat]

VARIABLES
    key,        \* the server's token key, which a restart replaces
    linked,     \* the user most recently linked to the device
    tab,        \* the pages, see Page
    queue,      \* the durable entries by the identity of their database
    stale,      \* of them, those whose row somebody else has written since
    act,        \* history: the write the server executed just now, or Idle
    left,       \* history: databases with an entry captured or resolved, or
                \* a flush aborted, since their last reload
    untold,     \* history: tabs that were not told of a change of linked
    budget      \* what may still happen

vars == <<key, linked, tab, queue, stale, act, left, untold, budget>>

None == [user |-> Nobody, key |-> 0]
Idle == [how |-> "idle"]
Identities == Users \union {Nobody}

\* A request: the token in its header and (history) whether the page was then
\* told who is linked, and still showed whom it was booted for.
NoPost == [token |-> None, sure |-> FALSE]
Posted(t, page) == [token |-> page.token, sure |-> t \notin untold /\ ~page.moved]

\* A page: user is app.identity.userId and status its status, db the identity
\* whose database is open; calls its auth calls in flight: asked, then granted
\* a token or refused; feed the EventSource with the token in its URL and whom
\* the server takes it for; moved (history) whether another identity has logged
\* in since the boot; send the edit in flight, typed by by; flush the flush,
\* with the entries still to be sent, under the lock of that name; sendAs and
\* flushAs their requests; parked the conflicts its prompt shows.
Page(on, user, token) ==
    [on |-> on, user |-> user, token |-> token, db |-> user, calls |-> {},
     status |-> IF user = Nobody THEN "anonymous" ELSE "authenticated",
     feed |-> [state |-> "none", token |-> None, user |-> Nobody],
     moved |-> FALSE, send |-> "none", by |-> Nobody, sendAs |-> NoPost, flush |-> "none",
     todo |-> {}, lock |-> Nobody, flushAs |-> NoPost, parked |-> {}]

On(t) == tab[t].on = "on"
Valid(token) == token.key = key
Spend(what) == budget[what] > 0 /\ budget' = [budget EXCEPT ![what] = @ - 1]
Free == UNCHANGED budget
Put(t, page) == tab' = [tab EXCEPT ![t] = page]
Silent == act' = Idle

\* reconnectEvents(): the old EventSource and its timer go, a new one opens
\* with the page's token.
Reconnected(page) ==
    [page EXCEPT !.feed = [state |-> "connecting", token |-> page.token, user |-> Nobody]]

Asking(page, why, user) ==
    [page EXCEPT !.calls = @ \union {[why |-> why, user |-> user, state |-> "asked", token |-> None]}]
\* resync(), unless one is under way; the lock is named for whom the page shows.
Resyncing(page) ==
    IF page.flush = "none" THEN [page EXCEPT !.flush = "waiting", !.lock = page.user] ELSE page

Done(page, c) == [page EXCEPT !.calls = @ \ {c}]
Awaits(t, why) == \E c \in tab[t].calls : c.why = why

-----------------------------------------------------------------------------
(* Who the page is.                                                         *)
Boot(t) ==
    /\ tab[t].on = "off"
    /\ Spend("boots") /\ Silent
    /\ Put(t, Asking(Page("booting", Nobody, None), "boot", Nobody))
    /\ UNCHANGED <<key, linked, queue, stale, left, untold>>

Login(t, u) ==
    /\ On(t) /\ ~Awaits(t, "login")
    /\ Spend("logins") /\ Silent
    /\ Put(t, Asking(tab[t], "login", u))
    /\ UNCHANGED <<key, linked, queue, stale, left, untold>>

\* The answer for that user: a token, or nothing to mint one for.
Answered(page, c, for) ==
    LET answer == IF for = Nobody THEN [c EXCEPT !.state = "refused"]
                  ELSE [c EXCEPT !.state = "granted", !.token = [user |-> for, key |-> key]]
    IN  [Done(page, c) EXCEPT !.calls = @ \union {answer}]

\* The server answers: a login links the device to its user, or is refused; a
\* re-mint is for whoever is linked most recently.  A change of who that is
\* leaves every tab untold, the one that waits for the answer too.
Serve(t, c) ==
    /\ c.state = "asked"
    /\ \E for \in IF c.why = "login" THEN {c.user, Nobody} ELSE {linked} :
        /\ linked' = IF c.why = "login" /\ for # Nobody THEN for ELSE linked
        /\ Put(t, Answered(tab[t], c, for))
    /\ untold' = IF linked' = linked THEN untold ELSE Tabs
    /\ Silent /\ Free /\ UNCHANGED <<key, queue, stale, left>>

\* History: the page learns who is linked, unless a re-mint that was served
\* before is still to arrive.
Told(t, c) ==
    untold' = IF c.token.user = linked /\ \A d \in tab[t].calls \ {c} : d.state = "asked"
              THEN untold \ {t} ELSE untold \union {t}

\* Mutant of BootDone: the database is opened before the answer is there.
BootDoneAnonymous(t, c) ==
    /\ c.why = "boot"
    /\ LET page == Page("on", c.token.user, c.token)
       IN  /\ Put(t, [Reconnected(page) EXCEPT !.db = Nobody])
           /\ IF c.state = "granted" THEN Told(t, c) ELSE UNCHANGED untold
    /\ Silent /\ Free /\ UNCHANGED <<key, linked, queue, stale, left>>

\* The boot's re-mint: identity, token, then the database and the feed.
BootDone(t, c) ==
    /\ c.why = "boot"
    /\ LET page == Page("on", c.token.user, c.token)
       IN  /\ Put(t, Reconnected(page))
           /\ IF c.state = "granted" THEN Told(t, c) ELSE UNCHANGED untold
    /\ Silent /\ Free /\ UNCHANGED <<key, linked, queue, stale, left>>

\* Mutant of LoginDone: the token is taken and the identity is not shown.
LoginDoneUnshown(t, c) ==
    /\ c.why = "login" /\ c.state = "granted"
    /\ Put(t, Reconnected([Done(tab[t], c) EXCEPT !.token = c.token]))
    /\ Told(t, c)
    /\ Silent /\ Free /\ UNCHANGED <<key, linked, queue, stale, left>>

\* applyIdentity and onToken after a login.
LoginDone(t, c) ==
    /\ c.why = "login" /\ c.state = "granted"
    /\ Put(t, Reconnected([Done(tab[t], c) EXCEPT
                            !.user = c.user, !.token = c.token, !.status = "authenticated",
                            !.moved = @ \/ c.user # tab[t].user]))
    /\ Told(t, c)
    /\ Silent /\ Free /\ UNCHANGED <<key, linked, queue, stale, left>>

\* A login that was refused or lost: the status says so, and the user and the
\* token stay.
LoginFails(t, c) ==
    /\ c.why = "login"
    /\ Put(t, [Done(tab[t], c) EXCEPT !.status = "anonymous"])
    /\ Silent /\ UNCHANGED <<key, linked, queue, stale, left, untold>>
LoginRefused(t, c) == c.state = "refused" /\ LoginFails(t, c) /\ Free

-----------------------------------------------------------------------------
(* remintToken(), and what waits for it: an edit that got a 401, the entry  *)
(* of a flush, or the feed's timer.                                         *)
Remints == {"send", "flush", "timer"}

\* The oldest entry of a flush is in hand (faults and conflicts are spent
\* downward, and each entry spent one); the next one is posted with the token
\* of that moment, and when the last one leaves, the flush ends.
NextEntry(page) == CHOOSE e \in page.todo : \A d \in page.todo : e.n >= d.n
Going(t, page, todo) ==
    [page EXCEPT !.todo = todo, !.flush = IF todo = {} THEN "none" ELSE "post",
                 !.flushAs = IF todo = {} THEN NoPost ELSE Posted(t, page)]
Advanced(t, page) == Going(t, page, page.todo \ {NextEntry(page)})
Sent(page) == [page EXCEPT !.send = "none", !.sendAs = NoPost]

\* A write answered 401 for good: an edit is dropped, an entry goes to the
\* dead letters.  (Other refusals end a write the same way and are left out.)
Denied(t, page, why) == IF why = "send" THEN Sent(page) ELSE Advanced(t, page)
Buried(page, why) ==
    IF why = "flush" THEN [queue EXCEPT ![page.db] = @ \ {NextEntry(page)}] ELSE queue
Resumed(t, page, why) ==
    CASE why = "send" -> [page EXCEPT !.send = "retry", !.sendAs = Posted(t, page)]
      [] why = "flush" -> [page EXCEPT !.flush = "retry", !.flushAs = Posted(t, page)]
      [] why = "timer" -> page

\* Mutant of RemintDone: the feed keeps the token it has.
RemintDoneQuiet(t, c) ==
    /\ c.why \in Remints /\ c.state = "granted"
    /\ Put(t, Resumed(t, [Done(tab[t], c) EXCEPT !.token = c.token], c.why))
    /\ Silent /\ Free /\ UNCHANGED <<key, linked, queue, stale, left, untold>>

RemintDone(t, c) ==
    /\ c.why \in Remints /\ c.state = "granted"
    /\ Put(t, Resumed(t, Reconnected([Done(tab[t], c) EXCEPT !.token = c.token]), c.why))
    /\ Silent /\ Free /\ UNCHANGED <<key, linked, queue, stale, left, untold>>

\* Mutant of RemintFails: the timer gives up.
RemintFailsForGood(t, c, page) ==
    /\ c.why \in Remints
    /\ IF c.why = "timer" THEN Put(t, page) ELSE Put(t, Denied(t, page, c.why))
    /\ queue' = Buried(page, c.why)
    /\ Silent /\ UNCHANGED <<key, linked, stale, left, untold>>

\* Refused: no token any more; the timer opens the feed without one.  Lost:
\* the timer opens it with the old one.
RemintFails(t, c, page) ==
    /\ c.why \in Remints
    /\ IF c.why = "timer" THEN Put(t, Reconnected(page)) ELSE Put(t, Denied(t, page, c.why))
    /\ queue' = Buried(page, c.why)
    /\ Silent /\ UNCHANGED <<key, linked, stale, left, untold>>
RemintRefused(t, c) ==
    /\ c.state = "refused"
    /\ RemintFails(t, c, [Done(tab[t], c) EXCEPT !.token = None]) /\ Free

\* A call that never gets through, or whose answer does not.
CallLost(t, c) ==
    /\ Spend("faults")
    /\ \/ RemintFails(t, c, Done(tab[t], c))
       \/ LoginFails(t, c)
       \/ /\ c.why = "boot"
          /\ Put(t, Reconnected(Page("on", Nobody, None)))
          /\ untold' = untold \union {t}
          /\ Silent /\ UNCHANGED <<key, linked, queue, stale, left>>

Arrives(t, c) ==
    /\ c.state # "asked"
    /\ BootDone(t, c) \/ LoginDone(t, c) \/ LoginRefused(t, c) \/ RemintDone(t, c) \/ RemintRefused(t, c)

-----------------------------------------------------------------------------
(* The feed.                                                                *)

\* Opened, it starts a resync; a token that is not valid is refused, and the
\* EventSource is closed for good.
FeedConnects(t) ==
    /\ tab[t].feed.state = "connecting"
    /\ LET url == tab[t].feed.token
       IN  IF url # None /\ ~Valid(url)
           THEN Put(t, [tab[t] EXCEPT !.feed.state = "closed"])
           ELSE Put(t, Resyncing([tab[t] EXCEPT !.feed = [@ EXCEPT !.state = "open",
                                                                   !.user = url.user]]))
    /\ Silent /\ Free /\ UNCHANGED <<key, linked, queue, stale, left, untold>>

\* The timer of a closed feed.
Timer(t) ==
    /\ tab[t].feed.state = "closed" /\ ~Awaits(t, "timer")
    /\ Put(t, Asking([tab[t] EXCEPT !.feed.state = "timed"], "timer", Nobody))
    /\ Silent /\ Free /\ UNCHANGED <<key, linked, queue, stale, left, untold>>

\* A stream that breaks is retried by the browser; a retry that cannot
\* connect closes it.
FeedDrops(t) ==
    /\ tab[t].feed.state \in {"open", "connecting"}
    /\ Spend("faults") /\ Silent
    /\ Put(t, [tab[t] EXCEPT !.feed.state = IF @ = "open" THEN "connecting" ELSE "closed"])
    /\ UNCHANGED <<key, linked, queue, stale, left, untold>>

\* Every token, and every stream, dies with the server.
Restart ==
    /\ Spend("restarts") /\ Silent
    /\ key' = key + 1
    /\ tab' = [t \in Tabs |-> IF tab[t].feed.state = "open"
                              THEN [tab[t] EXCEPT !.feed.state = "connecting"] ELSE tab[t]]
    /\ UNCHANGED <<linked, queue, stale, left, untold>>

-----------------------------------------------------------------------------
(* Edits, and the queue.  Every edit is of a field of its own, so that an   *)
(* entry is a lineage.                                                      *)
Edit(t) ==
    /\ On(t) /\ tab[t].send = "none"
    /\ Spend("edits") /\ Silent
    /\ Put(t, [tab[t] EXCEPT !.send = "post", !.by = tab[t].user, !.sendAs = Posted(t, tab[t])])
    /\ UNCHANGED <<key, linked, queue, stale, left, untold>>

\* The server executes a request.
Acted(how, as, for) == act' = [how |-> how, as |-> as.token.user, for |-> for, sure |-> as.sure]

\* The POST, or its retry, reaches the server.
SendServed(t) ==
    /\ tab[t].send \in {"post", "retry"}
    /\ IF Valid(tab[t].sendAs.token)
       THEN Put(t, Sent(tab[t])) /\ Acted("send", tab[t].sendAs, tab[t].by)
       ELSE /\ Put(t, IF tab[t].send = "retry" THEN Denied(t, tab[t], "send")
                      ELSE Asking([tab[t] EXCEPT !.send = "asking"], "send", Nobody))
            /\ Silent
    /\ Free /\ UNCHANGED <<key, linked, queue, stale, left, untold>>

\* It is captured in the open database.
Captured(t, entry) ==
    /\ queue' = [queue EXCEPT ![tab[t].db] = @ \union {entry}]
    /\ left' = left \union {tab[t].db}
    /\ UNCHANGED <<key, linked, untold>>

\* It rejects.
SendLost(t) ==
    /\ tab[t].send \in {"post", "retry"}
    /\ Spend("faults") /\ Silent
    /\ Put(t, Sent(tab[t]))
    /\ Captured(t, [n |-> budget.faults + budget.conflicts, by |-> tab[t].by])
    /\ UNCHANGED stale

\* Answered 409: it is captured with its old revision, and resync shows it.
SendConflicts(t) ==
    /\ tab[t].send \in {"post", "retry"} /\ Valid(tab[t].sendAs.token)
    /\ Spend("conflicts") /\ Silent
    /\ LET entry == [n |-> budget.faults + budget.conflicts, by |-> tab[t].by]
       IN  /\ Put(t, Resyncing([Sent(tab[t]) EXCEPT !.parked = @ \union {entry}]))
           /\ Captured(t, entry)
           /\ stale' = [stale EXCEPT ![tab[t].db] = @ \union {entry}]

\* Another device writes the row of an entry.
Overtaken(u, e) ==
    /\ e \in queue[u] \ stale[u]
    /\ Spend("conflicts") /\ Silent
    /\ stale' = [stale EXCEPT ![u] = @ \union {e}]
    /\ UNCHANGED <<key, linked, tab, queue, left, untold>>

\* The browser's online event.
Online(t) ==
    /\ On(t) /\ tab[t].flush = "none"
    /\ Put(t, Resyncing(tab[t]))
    /\ Silent /\ Free /\ UNCHANGED <<key, linked, queue, stale, left, untold>>

\* A tab that holds its flush lock, with a queue to send.
Holds(t) == tab[t].flush \in {"loaded", "post", "asking", "retry"}
LockFree(lock) == \A s \in Tabs : ~(Holds(s) /\ tab[s].lock = lock)

\* resync(), under the lock named for whom the page showed at the request:
\* the durable entries, as they are now.
FlushStart(t) ==
    /\ tab[t].flush = "waiting" /\ LockFree(tab[t].lock)
    /\ LET todo == queue[tab[t].db]
       IN  Put(t, [tab[t] EXCEPT !.todo = todo, !.flush = IF todo = {} THEN "none" ELSE "loaded"])
    /\ left' = left \ {tab[t].db}
    /\ Silent /\ Free /\ UNCHANGED <<key, linked, queue, stale, untold>>

\* Mutant of FlushReconciled: the first conflict ends the flush.
FlushReconciledAborted(t) ==
    /\ tab[t].flush = "loaded"
    /\ LET held == tab[t].todo \intersect stale[tab[t].db]
       IN  Put(t, Going(t, tab[t], IF held = {} THEN tab[t].todo ELSE {}))
    /\ Silent /\ Free /\ UNCHANGED <<key, linked, queue, stale, left, untold>>

\* Pulled and reconciled: the entries in conflict are parked, the others go.
\* (A 401 of the pull re-mints as the first entry's does.)
FlushReconciled(t) ==
    /\ tab[t].flush = "loaded"
    /\ LET held == stale[tab[t].db]
       IN  Put(t, Going(t, [tab[t] EXCEPT !.parked = (@ \union tab[t].todo) \intersect held],
                        tab[t].todo \ held))
    /\ Silent /\ Free /\ UNCHANGED <<key, linked, queue, stale, left, untold>>

\* The entry in hand reaches the server.
FlushServed(t) ==
    /\ tab[t].flush \in {"post", "retry"}
    /\ IF Valid(tab[t].flushAs.token)
       THEN /\ NextEntry(tab[t]) \notin stale[tab[t].db]
            /\ Put(t, Advanced(t, tab[t]))
            /\ queue' = [queue EXCEPT ![tab[t].db] = @ \ {NextEntry(tab[t])}]
            /\ Acted("flush", tab[t].flushAs, tab[t].db)
       ELSE IF tab[t].flush = "retry"
       THEN Put(t, Denied(t, tab[t], "flush")) /\ queue' = Buried(tab[t], "flush") /\ Silent
       ELSE /\ Put(t, Asking([tab[t] EXCEPT !.flush = "asking"], "flush", Nobody))
            /\ Silent /\ UNCHANGED queue
    /\ Free /\ UNCHANGED <<key, linked, stale, left, untold>>

\* Answered 409: its lineage stays behind, parked, and the next one goes.
FlushConflicts(t) ==
    /\ tab[t].flush \in {"post", "retry"} /\ Valid(tab[t].flushAs.token)
    /\ LET entry == NextEntry(tab[t])
       IN  /\ entry \in stale[tab[t].db]
           /\ Put(t, Advanced(t, [tab[t] EXCEPT !.parked = @ \union {entry}]))
    /\ Silent /\ Free /\ UNCHANGED <<key, linked, queue, stale, left, untold>>

\* The pull, or the entry in hand, does not get through: the flush is over
\* until something starts the next.
FlushLost(t) ==
    /\ tab[t].flush \in {"loaded", "post", "retry"}
    /\ Spend("faults") /\ Silent
    /\ Put(t, [tab[t] EXCEPT !.flush = "none", !.todo = {}, !.flushAs = NoPost])
    /\ left' = left \union {tab[t].db}
    /\ UNCHANGED <<key, linked, queue, stale, untold>>

\* keepMine() and takeTheirs() on a conflict the prompt shows, under the lock:
\* the entry's pin moves to the revision seen, or the entry goes; resolved
\* elsewhere, it stays as it is.  Then resync.
Resolve(t, e) ==
    /\ On(t) /\ e \in tab[t].parked /\ LockFree(tab[t].user)
    /\ LET u == tab[t].db
       IN  \/ /\ e \in queue[u]
              /\ stale' = [stale EXCEPT ![u] = @ \ {e}] /\ left' = left \union {u}
              /\ UNCHANGED queue
           \/ /\ queue' = [queue EXCEPT ![u] = @ \ {e}]
              /\ UNCHANGED <<stale, left>>
    /\ Put(t, Resyncing([tab[t] EXCEPT !.parked = @ \ {e}]))
    /\ Silent /\ Free /\ UNCHANGED <<key, linked, untold>>

\* The page is closed, whatever it was doing.
Close(t) ==
    /\ On(t) /\ budget.boots > 0
    /\ Put(t, Page("off", Nobody, None))
    /\ left' = IF Holds(t) THEN left \union {tab[t].db} ELSE left
    /\ Silent /\ Free /\ UNCHANGED <<key, linked, queue, stale, untold>>

-----------------------------------------------------------------------------
Init ==
    /\ key = 1
    /\ linked \in Before
    /\ tab = [t \in Tabs |-> Page("off", Nobody, None)]
    /\ queue = [u \in Identities |-> {}] /\ stale = queue
    /\ act = Idle /\ left = {} /\ untold = {}
    /\ budget \in Budgets

Calls(t) == \E c \in tab[t].calls : Serve(t, c) \/ Arrives(t, c)
Feed(t) == FeedConnects(t) \/ Timer(t)
Next ==
    \/ Restart \/ \E u \in Identities : \E e \in queue[u] : Overtaken(u, e)
    \/ \E t \in Tabs :
        \/ Boot(t) \/ Close(t) \/ \E u \in Users : Login(t, u)
        \/ Calls(t) \/ \E c \in tab[t].calls : CallLost(t, c)
        \/ Feed(t) \/ FeedDrops(t)
        \/ Edit(t) \/ SendServed(t) \/ SendLost(t) \/ SendConflicts(t)
        \/ Online(t) \/ FlushStart(t) \/ FlushReconciled(t)
        \/ FlushServed(t) \/ FlushConflicts(t) \/ FlushLost(t)
        \/ \E e \in tab[t].parked : Resolve(t, e)

\* Requests are answered, answers arrive, EventSources connect, timers fire.
Spec == Init /\ [][Next]_vars /\ \A t \in Tabs : WF_vars(Calls(t)) /\ WF_vars(Feed(t))

-----------------------------------------------------------------------------
TypeOK ==
    /\ linked \in Identities /\ untold \subseteq Tabs /\ left \subseteq Identities
    /\ \A t \in Tabs :
        /\ tab[t].user \in Identities /\ tab[t].token.user \in Identities
        /\ tab[t].status = "authenticated" => tab[t].user # Nobody
        /\ (tab[t].send = "asking") = Awaits(t, "send")
        /\ (tab[t].flush = "asking") = Awaits(t, "flush")
        /\ tab[t].todo # {} <=> Holds(t)
    /\ \A u \in Identities : \A e \in queue[u] : e.by \in Identities

\* A page with no call under way acts as whom it shows, unless it was not
\* told of a change: another tab's login, an answer that got lost, or a
\* re-mint that was served before a login and arrives behind it.
Quiet(t) == On(t) /\ tab[t].calls = {}
ShownIsActing ==
    \A t \in Tabs : Quiet(t) /\ t \notin untold => tab[t].token.user \in {tab[t].user, Nobody}

\* All is well typed; the feed listens, or asks to, as whom the token speaks for, as long as the
\* page has a token: no change of it leaves an old stream behind.
FeedIsToken ==
    TypeOK /\ \A t \in Tabs :
        tab[t].token # None =>
            /\ tab[t].feed.state \in {"connecting", "open"} => tab[t].feed.token = tab[t].token
            /\ tab[t].feed.state = "open" => tab[t].feed.user = tab[t].token.user

\* A queue nobody flushes holds conflicts only, which wait for their
\* resolution, unless an entry came or was resolved, or a flush was cut short,
\* after it was last loaded.
QueueDrained ==
    \A u \in Identities \ left :
        (\A t \in Tabs : ~(Holds(t) /\ tab[t].db = u)) => queue[u] \subseteq stale[u]

\* A write is executed as the user it was typed by, or whose database held
\* it, unless the page that sends it had moved on to another identity, or had
\* not been told who is linked, when it made the request.
ActsForItsOwn ==
    [][act'.how # "idle" /\ act'.sure => act'.as = act'.for]_vars

\* A page's feed comes back, whatever broke it: again and again it is open, as
\* long as the page is there.
FeedComesBack == \A t \in Tabs : []<>(On(t) => tab[t].feed.state = "open")

\* What the design says: queue entries flush only under the identity whose
\* database holds them.
NeverReattributed ==
    [][act'.how = "flush" => act'.as = act'.for]_vars
=============================================================================
